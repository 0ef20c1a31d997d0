-------------------------- MODULE TouchInputProofs --------------------------
(***************************************************************************)
(* Proofs about TouchInput: type correctness, that a tap is never a swipe, *)
(* that contacts reach the state of the panel whole, and that a press the  *)
(* key strip took is no touch.                                             *)
(***************************************************************************)
EXTENDS TouchInput, WellFoundedInduction, TLAPS

-----------------------------------------------------------------------------
(* Distances and times.                                                    *)

\* FarIsBeyond: a swipe is longer than what a tap may drift, at either slop.
LEMMA FarIsBeyond ==
  ASSUME NEW x \in Int, NEW y \in Int, FarEnough(x, y)
  PROVE  Beyond(x, y, ReleaseSlop) /\ Beyond(x, y, TapSlop)
<1> DEFINE d == Abs(x - y) * Width
           w == Width - 1
<1>0. d \in Int /\ w \in Nat /\ w > 0
  BY TouchAssumption DEF Abs
<1>1. SwipeMin * w > ReleaseSlop * w /\ ReleaseSlop * w >= TapSlop * w
  BY <1>0, TouchAssumption, SlopAssumption
<1>2. SwipeMin * w \in Int /\ ReleaseSlop * w \in Int /\ TapSlop * w \in Int
  BY <1>0, TouchAssumption
<1>3. d >= SwipeMin * w
  BY DEF FarEnough
<1>4. d > ReleaseSlop * w /\ d > TapSlop * w
  BY <1>0, <1>1, <1>2, <1>3
<1> QED BY <1>4 DEF Beyond

\* BeyondIsFurther: what is beyond the slop of a release is beyond that of a tap.
LEMMA BeyondIsFurther ==
  ASSUME NEW x \in Int, NEW y \in Int, Beyond(x, y, ReleaseSlop)
  PROVE  Beyond(x, y, TapSlop)
<1> DEFINE d == Abs(x - y) * Width
           w == Width - 1
<1>0. d \in Int /\ w \in Nat /\ w > 0
  BY TouchAssumption DEF Abs
<1>1. ReleaseSlop * w >= TapSlop * w
  BY <1>0, TouchAssumption, SlopAssumption
<1>2. ReleaseSlop * w \in Int /\ TapSlop * w \in Int
  BY <1>0, TouchAssumption
<1>3. d > ReleaseSlop * w
  BY DEF Beyond
<1>4. d > TapSlop * w
  BY <1>0, <1>1, <1>2, <1>3
<1> QED BY <1>4 DEF Beyond

\* StillNear: a contact that has not moved is not a swipe.
LEMMA StillNear ==
  ASSUME NEW x \in Int
  PROVE  ~FarEnough(x, x)
<1> DEFINE w == Width - 1
<1>1. w \in Nat /\ w > 0 /\ SwipeMin \in Nat /\ SwipeMin > 0
  BY TouchAssumption, SlopAssumption
<1>2. SwipeMin * w > 0
  <2> HIDE DEF w
  <2>1. \A m, n \in Nat : m > 0 /\ n > 0 => m * n > 0
    OBVIOUS
  <2> QED BY <1>1, <2>1
<1>3. Abs(x - x) * Width = 0
  BY TouchAssumption DEF Abs
<1>4. SwipeMin * w \in Int
  BY <1>1
<1>5. ~(0 >= SwipeMin * w)
  BY <1>2, <1>4
<1> QED BY <1>3, <1>5 DEF FarEnough

\* HeldTyping and HeldExact: a held time wraps, and does not between a press and
\* a later time.
LEMMA HeldTyping ==
  ASSUME NEW at \in 0 .. MaxNow, NEW from \in 0 .. MaxNow
  PROVE  HeldFor(at, from) \in 0 .. Wrap - 1
<1>1. Wrap \in Nat /\ Wrap > 0 /\ at - from \in Int
  BY TouchAssumption DEF Wrap
<1> HIDE DEF Wrap
<1>2. \A n \in Int : n % Wrap \in 0 .. Wrap - 1
  BY <1>1
<1> QED BY <1>1, <1>2 DEF HeldFor

LEMMA HeldExact ==
  ASSUME NEW at \in 0 .. MaxNow, NEW from \in 0 .. at
  PROVE  HeldFor(at, from) = at - from
<1>1. Wrap \in Nat /\ at - from \in 0 .. Wrap - 1
  BY TouchAssumption DEF Wrap
<1>2. \A n \in 0 .. Wrap - 1 : n % Wrap = n
  BY <1>1 DEF Wrap
<1> QED BY <1>1, <1>2 DEF HeldFor

-----------------------------------------------------------------------------
(* What each operation makes of the state of the panel.                    *)

\* What is known of any contact, whoever makes it, at time n.
Sound(t, n) ==
  /\ t.beyondRelease => t.beyondTap
  /\ ~t.beyondRelease => ~FarEnough(t.current, t.start)
  /\ t.pressed => t.down \/ t.released
  /\ t.pressedAt <= n
  /\ t.longNow /\ t.down => HeldFor(n, t.pressedAt) >= LongPress

LEMMA NoTouchSound == NoTouch \in TouchState /\ Sound(NoTouch, 0)
<1>1. 0 \in 0 .. Width - 1 /\ 0 \in 0 .. MaxNow /\ 0 \in 0 .. Wrap - 1
  BY TouchAssumption DEF Wrap
<1>2. NoTouch \in TouchState
  BY <1>1 DEF NoTouch, TouchState
<1> QED BY <1>2, StillNear DEF NoTouch, Sound

LEMMA BegunSound ==
  ASSUME NEW t \in TouchState, NEW x \in 0 .. Width - 1, NEW n \in 0 .. MaxNow, NEW at \in 0 .. n
  PROVE  Begun(t, x, at) \in TouchState /\ Sound(Begun(t, x, at), n)
<1>1. at \in 0 .. MaxNow /\ x \in Int
  BY TouchAssumption
<1>2. Begun(t, x, at) \in TouchState
  BY <1>1 DEF Begun, TouchState
<1>3. ~FarEnough(Begun(t, x, at).current, Begun(t, x, at).start)
  BY <1>1, StillNear DEF Begun, TouchState
<1>4. at <= n
  BY TouchAssumption
<1> QED BY <1>2, <1>3, <1>4 DEF Begun, TouchState, Sound

LEMMA MovedSound ==
  ASSUME NEW t \in TouchState, NEW x \in 0 .. Width - 1, NEW n \in 0 .. MaxNow, Sound(t, n)
  PROVE  /\ Moved(t, x) \in TouchState /\ Sound(Moved(t, x), n)
         /\ Moved(t, x).down = t.down /\ Moved(t, x).pressedAt = t.pressedAt
<1>1. x \in Int /\ t.start \in Int /\ t.current \in Int
  BY TouchAssumption DEF TouchState
<1>2. /\ Beyond(x, t.start, ReleaseSlop) => Beyond(x, t.start, TapSlop)
      /\ FarEnough(x, t.start) => Beyond(x, t.start, ReleaseSlop)
  BY <1>1, BeyondIsFurther, FarIsBeyond
<1>3. Beyond(x, t.start, TapSlop) \in BOOLEAN /\ Beyond(x, t.start, ReleaseSlop) \in BOOLEAN
  BY DEF Beyond
<1>4. Moved(t, x) \in TouchState
  BY <1>3 DEF Moved, TouchState
<1> QED BY <1>2, <1>4 DEF Moved, TouchState, Sound

LEMMA EndedSound ==
  ASSUME NEW t \in TouchState, NEW x \in 0 .. Width - 1, NEW n \in 0 .. MaxNow, NEW at \in 0 .. n,
         Sound(t, n)
  PROVE  Ended(t, x, at) \in TouchState /\ Sound(Ended(t, x, at), n) /\ ~Ended(t, x, at).down
<1>1. at \in 0 .. MaxNow /\ t.pressedAt \in 0 .. MaxNow
  BY TouchAssumption DEF TouchState
<1>2. HeldFor(at, t.pressedAt) \in 0 .. Wrap - 1
  BY <1>1, HeldTyping
<1>3. Moved(t, x) \in TouchState /\ Sound(Moved(t, x), n)
  BY MovedSound
<1>4. Ended(t, x, at) \in TouchState
  BY <1>2, <1>3 DEF Ended, TouchState
<1> QED BY <1>3, <1>4 DEF Ended, TouchState, Sound

LEMMA AppliedSound ==
  ASSUME NEW t \in TouchState, NEW e \in LiveEvent, NEW n \in 0 .. MaxNow, e.at <= n, Sound(t, n)
  PROVE  /\ Applied(t, e) \in TouchState /\ Sound(Applied(t, e), n)
         /\ Applied(t, e).down <=> (e.action = "Down" \/ (e.action = "Move" /\ t.down))
<1>0. e.x \in Points /\ e.at \in 0 .. MaxNow
  BY DEF LiveEvent
<1>a. e.x \in 0 .. Width - 1
  BY <1>0, TouchAssumption
<1>b. e.at \in 0 .. n
  BY <1>0, TouchAssumption
<1>1. e.x \in 0 .. Width - 1 /\ e.at \in 0 .. n
  BY <1>a, <1>b
<1>2. CASE e.action = "Down"
  <2>1. Applied(t, e) = Begun(t, e.x, e.at)
    BY <1>2 DEF Applied
  <2>2. Begun(t, e.x, e.at).down
    BY DEF Begun, TouchState
  <2> QED BY <1>1, <1>2, <2>1, <2>2, BegunSound
<1>3. CASE e.action = "Move"
  BY <1>1, <1>3, MovedSound DEF Applied, TouchState
<1>4. CASE e.action = "Up"
  <2>1. Applied(t, e) = Ended(t, e.x, e.at)
    BY <1>4 DEF Applied
  <2> QED BY <1>1, <1>4, <2>1, EndedSound
<1> QED BY <1>2, <1>3, <1>4 DEF LiveEvent

LEMMA HeldSound ==
  ASSUME now \in 0 .. MaxNow, NEW t \in TouchState, Sound(t, now)
  PROVE  Held(t) \in TouchState /\ Sound(Held(t), now) /\ Held(t).down = t.down
<1>1. CASE Held(t) = t
  BY <1>1
<1>2. CASE /\ Held(t) = [t EXCEPT !.longFired = TRUE, !.longNow = TRUE]
           /\ HeldFor(now, t.pressedAt) >= LongPress
  <2>1. Held(t) \in TouchState
    BY <1>2 DEF TouchState
  <2> QED BY <1>2, <2>1 DEF TouchState, Sound
<1> QED BY <1>1, <1>2 DEF Held

-----------------------------------------------------------------------------
(* The moves at the head of the deque.                                     *)

\* LeastOf: a set of numbers that has one has a least one.
LEMMA LeastOf ==
  ASSUME NEW T \in SUBSET Nat, T # {}
  PROVE  \E n \in T : \A m \in T : n <= m
<1>1. PICK n \in T : \A m \in T : <<m, n>> \notin OpToRel(<, Nat)
  <2> DEFINE R == OpToRel(<, Nat)
  <2>1. IsWellFoundedOn(R, Nat)
    BY NatLessThanWellFounded
  <2> HIDE DEF R
  <2>2. \E x \in T : \A y \in T : ~(<<y, x>> \in R)
    BY <2>1, WFMin
  <2> QED BY <2>2 DEF R
<1>2. \A m \in T : ~(m < n)
  BY <1>1 DEF OpToRel
<1> QED BY <1>2

\* LastMoveIs: the moves at the head of a deque that begins with one have a
\* last one, and all before it are moves.
LEMMA LastMoveIs ==
  ASSUME NEW q \in Seq(LiveEvent), q # <<>>, Head(q).action = "Move"
  PROVE  /\ LastMove(q) \in 1 .. Len(q)
         /\ \A i \in 1 .. LastMove(q) : q[i].action = "Move"
<1> DEFINE Stops == {n \in 1 .. Len(q) : n = Len(q) \/ q[n + 1].action # "Move"}
<1>1. Stops \in SUBSET Nat /\ Len(q) \in Stops /\ Len(q) \in Nat
  OBVIOUS
<1>2. PICK n \in Stops : \A m \in Stops : n <= m
  BY <1>1, LeastOf
<1>3. n \in 1 .. Len(q) /\ (n = Len(q) \/ q[n + 1].action # "Move")
  BY <1>2
<1>4. \A i \in 1 .. n : q[i].action = "Move"
  <2> SUFFICES ASSUME NEW i \in 1 .. n
               PROVE  q[i].action = "Move"
    OBVIOUS
  <2>1. CASE i = 1
    BY <2>1
  <2>2. CASE i # 1
    <3>1. i - 1 \in 1 .. Len(q) /\ ~(n <= i - 1) /\ (i - 1) + 1 = i /\ i - 1 # Len(q)
      BY <1>3, <2>2
    <3>2. i - 1 \notin Stops
      BY <1>2, <3>1
    <3> QED BY <3>1, <3>2
  <2> QED BY <2>1, <2>2
<1> QED BY <1>3, <1>4 DEF LastMove

\* TakenIs: what is taken at once is there, and all but its last are moves.
LEMMA TakenIs ==
  ASSUME NEW q \in Seq(LiveEvent), q # <<>>
  PROVE  /\ Taken(q) \in 1 .. Len(q)
         /\ Taken(q) = 1 \/ \A i \in 1 .. Taken(q) : q[i].action = "Move"
<1>1. 1 \in 1 .. Len(q)
  OBVIOUS
<1> QED BY <1>1, LastMoveIs DEF Taken

-----------------------------------------------------------------------------
(* Types, and what is known of the contact.                                *)

LiveTimes == \A i \in 1 .. Len(live) : live[i].at <= now

ContactInv == TypeOK /\ Sound(touch, now) /\ LiveTimes

LEMMA ContactInit == Init => ContactInv
<1> SUFFICES ASSUME Init
             PROVE  ContactInv
  OBVIOUS
<1>1. 0 \in 0 .. MaxNow /\ 0 \in 0 .. Len(<<>>)
  BY TouchAssumption
<1>2. host \in Seq(HostEvent) /\ live \in Seq(LiveEvent) /\ live = <<>>
  BY DEF Init
<1>3. TypeOK
  BY <1>1, <1>2, NoTouchSound DEF Init, TypeOK
<1> QED BY <1>2, <1>3, NoTouchSound DEF Init, ContactInv, LiveTimes

\* A press that counts as long goes on being long as time passes.
LEMMA ElapseSound ==
  ASSUME TypeOK, Sound(touch, now), Elapse
  PROVE  Sound(touch, now + 1)
<1>0. /\ Bounds[sources].until \in 0 .. MaxNow /\ now < Bounds[sources].until
  BY TouchAssumption DEF Elapse, TypeOK
<1>1. /\ now \in 0 .. MaxNow /\ now + 1 \in 0 .. MaxNow
      /\ touch.pressedAt \in 0 .. now /\ touch.pressedAt \in 0 .. now + 1
  BY <1>0, TouchAssumption DEF TypeOK, TouchState, Sound
<1>2. /\ HeldFor(now, touch.pressedAt) = now - touch.pressedAt
      /\ HeldFor(now + 1, touch.pressedAt) = (now + 1) - touch.pressedAt
  BY <1>1, HeldExact
<1>3. now - touch.pressedAt >= LongPress => (now + 1) - touch.pressedAt >= LongPress
  BY <1>1, TouchAssumption
<1>4. touch.pressedAt <= now + 1
  BY <1>1, TouchAssumption
<1> QED BY <1>2, <1>3, <1>4 DEF Sound

\* What the queue from the host is given, and what it leaves.
LEMMA SendKeeps ==
  ASSUME ContactInv, NEW kind, NEW by, NEW x,
         [kind |-> kind, by |-> by, x |-> x] \in HostEvent,
         Send(kind, by, x), onPanel' \in [Finger -> BOOLEAN], button' \in BOOLEAN
  PROVE  ContactInv'
<1>1. host' \in Seq(HostEvent) /\ toPoll' \in 0 .. Len(host')
  BY DEF ContactInv, TypeOK, Send
<1> QED BY <1>1 DEF ContactInv, TypeOK, LiveTimes, Send

LEMMA WorldKeeps ==
  ASSUME ContactInv, World
  PROVE  ContactInv'
<1>0. Bounds[sources].reach \subseteq Points /\ Bounds[sources].until \in 0 .. MaxNow
  BY TouchAssumption DEF ContactInv, TypeOK
<1>1. CASE Elapse
  <2>1. now' \in 0 .. MaxNow /\ now \in Int
    BY <1>0, <1>1, TouchAssumption DEF Elapse, ContactInv, TypeOK
  <2>2. Sound(touch', now')
    BY <1>1, ElapseSound DEF Elapse, ContactInv
  <2>3. LiveTimes'
    <3> SUFFICES ASSUME NEW i \in 1 .. Len(live)
                 PROVE  live[i].at <= now + 1
      BY <1>1 DEF Elapse, LiveTimes
    <3>0. live[i] \in LiveEvent
      BY DEF ContactInv, TypeOK
    <3>1. live[i].at \in 0 .. MaxNow
      BY <3>0 DEF LiveEvent
    <3>2. live[i].at <= now
      BY DEF ContactInv, LiveTimes
    <3> QED BY <2>1, <3>1, <3>2, TouchAssumption
  <2> QED BY <1>1, <2>1, <2>2, <2>3 DEF Elapse, ContactInv, TypeOK
<1>2. ASSUME NEW x \in Points, NEW f \in Finger, FingerContact(f, x)
      PROVE  ContactInv'
  <2>1. onPanel' \in [Finger -> BOOLEAN] /\ button' \in BOOLEAN
    BY <1>2 DEF FingerContact, ContactInv, TypeOK
  <2>2. PICK kind \in {"down", "up"} : Send(kind, f, x)
    BY <1>2 DEF FingerContact
  <2>3. [kind |-> kind, by |-> f, x |-> x] \in HostEvent
    BY DEF HostEvent
  <2> QED BY <2>1, <2>2, <2>3, SendKeeps
<1>3. ASSUME NEW x \in Points, NEW f \in Finger, FingerDrag(f, x)
      PROVE  ContactInv'
  <2>1. [kind |-> "move", by |-> f, x |-> x] \in HostEvent
    BY DEF HostEvent
  <2> QED BY <1>3, <2>1, SendKeeps DEF FingerDrag, ContactInv, TypeOK
<1>4. ASSUME NEW x \in Points, MouseButton(x)
      PROVE  ContactInv'
  <2>1. onPanel' \in [Finger -> BOOLEAN] /\ button' \in BOOLEAN
    BY <1>4 DEF MouseButton, ContactInv, TypeOK
  <2>2. PICK kind \in {"mousedown", "stripdown", "mouseup"} : Send(kind, NoFinger, x)
    BY <1>4 DEF MouseButton
  <2>3. [kind |-> kind, by |-> NoFinger, x |-> x] \in HostEvent
    BY DEF HostEvent
  <2> QED BY <2>1, <2>2, <2>3, SendKeeps
<1>5. ASSUME NEW x \in Points, MouseDrag(x)
      PROVE  ContactInv'
  <2>1. [kind |-> "mousemove", by |-> NoFinger, x |-> x] \in HostEvent
    BY DEF HostEvent
  <2> QED BY <1>5, <2>1, SendKeeps DEF MouseDrag, ContactInv, TypeOK
<1> QED BY <1>0, <1>1, <1>2, <1>3, <1>4, <1>5 DEF World

\* PollEvent: the event goes to the deque, stamped now, or to the state.
LEMMA PollKeeps ==
  ASSUME ContactInv, PollEvent
  PROVE  ContactInv'
<1> DEFINE e == Head(host)
<1>1. /\ e \in HostEvent /\ host' \in Seq(HostEvent) /\ Len(host') = Len(host) - 1
      /\ toPoll' \in 0 .. Len(host')
  BY DEF PollEvent, ContactInv, TypeOK
<1>2. now \in 0 .. MaxNow /\ now \in 0 .. now /\ e.x \in Points
  BY <1>1, TouchAssumption DEF ContactInv, TypeOK, HostEvent
<1>3. e.x \in 0 .. Width - 1
  BY <1>2, TouchAssumption
<1> HIDE DEF e
<1>4. CASE PollFinger(e)
  <2>1. e.kind \in {"down", "move", "up"} /\ e.by \in Finger
    BY <1>1, <1>4 DEF PollFinger, HostEvent
  <2>2. PICK action \in {"Down", "Move", "Up"} : live' = live \/ Queued(action, e)
    BY <1>4 DEF PollFinger, PollFingerDown, PollFingerMove, PollFingerUp, Unplaced
  <2>3. [action |-> action, x |-> e.x, at |-> now] \in LiveEvent
    BY <1>2 DEF LiveEvent
  <2>4. live' \in Seq(LiveEvent) /\ LiveTimes'
    <3>1. CASE live' = live
      BY <3>1 DEF PollEvent, ContactInv, TypeOK, LiveTimes
    <3>2. CASE Queued(action, e)
      <4> DEFINE ev == [action |-> action, x |-> e.x, at |-> now]
      <4>1. live' = Append(live, ev) /\ ev \in LiveEvent /\ ev.at <= now /\ now' = now
        BY <1>2, <2>3, <3>2 DEF Queued, PollEvent
      <4> HIDE DEF ev
      <4> QED BY <4>1 DEF ContactInv, TypeOK, LiveTimes
    <3> QED BY <2>2, <3>1, <3>2
  <2>5. active' \in Finger \cup {NoFinger}
    BY <1>4, <2>1 DEF PollFinger, PollFingerDown, PollFingerMove, PollFingerUp, ContactInv,
                      TypeOK
  <2> QED BY <1>1, <1>4, <2>4, <2>5 DEF PollFinger, PollEvent, ContactInv, TypeOK
<1>5. CASE PollMouse(e)
  <2>1. /\ Begun(touch, e.x, now) \in TouchState /\ Sound(Begun(touch, e.x, now), now)
        /\ Moved(touch, e.x) \in TouchState /\ Sound(Moved(touch, e.x), now)
        /\ Ended(touch, e.x, now) \in TouchState /\ Sound(Ended(touch, e.x, now), now)
    BY <1>2, <1>3, BegunSound, MovedSound, EndedSound DEF ContactInv, TypeOK
  <2>2. touch' \in TouchState /\ Sound(touch', now) /\ captured' \in BOOLEAN
    BY <1>5, <2>1 DEF PollMouse, ContactInv, TypeOK
  <2> QED BY <1>1, <1>5, <2>2 DEF PollMouse, PollEvent, ContactInv, TypeOK, LiveTimes
<1> QED BY <1>4, <1>5 DEF PollEvent, e

\* EndPoll: the deque is applied up to the event that is due.
LEMMA EndPollKeeps ==
  ASSUME ContactInv, EndPoll
  PROVE  ContactInv'
<1>1. CASE live = <<>> \/ processed
  BY <1>1 DEF EndPoll, ProcessLive, ContactInv, TypeOK, LiveTimes
<1>2. CASE live # <<>> /\ ~processed
  <2> DEFINE n == Taken(live)
  <2>1. n \in 1 .. Len(live) /\ live \in Seq(LiveEvent)
    BY <1>2, TakenIs DEF ContactInv, TypeOK
  <2>2. /\ touch' = Applied(touch, live[n]) /\ live' = SubSeq(live, n + 1, Len(live))
        /\ processed' = TRUE
    BY <1>2 DEF EndPoll, ProcessLive
  <2> HIDE DEF n
  <2>3. live[n] \in LiveEvent /\ live[n].at <= now
    BY <2>1 DEF ContactInv, LiveTimes
  <2>4. touch' \in TouchState /\ Sound(touch', now)
    BY <2>2, <2>3, AppliedSound DEF ContactInv, TypeOK
  <2>5. live' \in Seq(LiveEvent) /\ Len(live') = Len(live) - n
        /\ \A i \in 1 .. Len(live') : live'[i] = live[i + n]
    BY <2>1, <2>2
  <2>6. LiveTimes'
    BY <2>1, <2>5 DEF EndPoll, ContactInv, LiveTimes
  <2> QED BY <2>2, <2>4, <2>5, <2>6 DEF EndPoll, ContactInv, TypeOK
<1> QED BY <1>1, <1>2

LEMMA ContactStep == ContactInv /\ [Next]_vars => ContactInv'
<1> SUFFICES ASSUME ContactInv, [Next]_vars
             PROVE  ContactInv'
  OBVIOUS
<1>0. now \in 0 .. MaxNow /\ now \in 0 .. now
  BY TouchAssumption DEF ContactInv, TypeOK
<1>1. CASE World
  BY <1>1, WorldKeeps
<1>2. CASE BeginUpdate
  <2>1. Len(host) \in 0 .. Len(host)
    BY DEF ContactInv, TypeOK
  <2> QED BY <1>2, <2>1 DEF BeginUpdate, ContactInv, TypeOK, LiveTimes
<1>3. CASE PollEvent
  BY <1>3, PollKeeps
<1>4. CASE EndPoll
  BY <1>4, EndPollKeeps
<1>5. ASSUME NEW x \in Points, ScriptTouch(x)
      PROVE  ContactInv'
  <2>1. x \in 0 .. Width - 1
    BY TouchAssumption
  <2>2. touch' \in TouchState /\ Sound(touch', now)
    BY <1>0, <1>5, <2>1, BegunSound, MovedSound, EndedSound DEF ScriptTouch, ContactInv, TypeOK
  <2> QED BY <1>5, <2>2 DEF ScriptTouch, ContactInv, TypeOK, LiveTimes
<1>6. CASE EndUpdate
  BY <1>6, HeldSound DEF EndUpdate, ContactInv, TypeOK, LiveTimes
<1>7. CASE Suppress
  <2>1. touch' \in TouchState /\ Sound(touch', now)
    BY <1>7 DEF Suppress, ContactInv, TypeOK, TouchState, Sound
  <2> QED BY <1>7, <2>1 DEF Suppress, ContactInv, TypeOK, LiveTimes
<1>8. CASE EndLoop
  BY <1>8 DEF EndLoop, ContactInv, TypeOK, LiveTimes
<1>9. CASE BeginFrame
  <2>1. touch' \in TouchState /\ Sound(touch', now)
    BY <1>9 DEF BeginFrame, ContactInv, TypeOK, TouchState, Sound
  <2> QED BY <1>9, <2>1 DEF BeginFrame, ContactInv, TypeOK, LiveTimes
<1>10. CASE UNCHANGED vars
  BY <1>10 DEF vars, ContactInv, TypeOK, LiveTimes
<1>11. Bounds[sources].reach \subseteq Points
  BY TouchAssumption DEF ContactInv, TypeOK
<1> QED BY <1>1, <1>2, <1>3, <1>4, <1>5, <1>6, <1>7, <1>8, <1>9, <1>10, <1>11 DEF Next, Main

LEMMA ContactAlways == Spec => []ContactInv
<1> QED BY ContactInit, ContactStep, PTL DEF Spec

\* TypeCorrect: every variable keeps its type, the state of the panel included,
\* whatever the number of fingers, of positions and of events.
THEOREM TypeCorrect == Spec => []TypeOK
<1>1. ContactInv => TypeOK
  BY DEF ContactInv
<1> QED BY <1>1, ContactAlways, PTL

\* TapIsNoSwipe: whatever drives the panel, a release is never both a tap and a
\* swipe, and what may become a tap would not be a swipe if it were let go.
THEOREM TapIsNoSwipe == Spec => []TapOrSwipe
<1>1. ContactInv => TapOrSwipe
  BY DEF ContactInv, Sound, TapOrSwipe, WasTap, WasSwipe, WasTouchDown, IsTouchTapCandidate,
         IsTouchHeldAt, WasTouchLongPress
<1> QED BY <1>1, ContactAlways, PTL

-----------------------------------------------------------------------------
(* Contacts reach the state whole.                                         *)

\* Driven by fingers alone, only their events are on their way.
FingerHost ==
  FingersOnly => \A i \in 1 .. Len(host) : host[i].kind \in {"down", "move", "up"}

WholeInv == ContactInv /\ FingerHost /\ ContactsWhole

\* DownIsKept: the steps that neither poll nor apply an event leave the contacts
\* as they are.
LEMMA DownIsKept ==
  ASSUME ContactsWhole, sources' = sources, live' = live, active' = active,
         touch'.down = touch.down
  PROVE  ContactsWhole'
<1> QED BY DEF ContactsWhole, FingersOnly, DownBefore

\* PollEvent: what is put in the deque goes on where it ended, since the finger
\* that is followed tells whether it ended in a contact.
LEMMA PollWhole ==
  ASSUME WholeInv, PollEvent, FingersOnly
  PROVE  FingerHost' /\ ContactsWhole'
<1> DEFINE e == Head(host)
<1>1. /\ e \in HostEvent /\ e = host[1] /\ 1 \in 1 .. Len(host)
      /\ Len(host') = Len(host) - 1 /\ \A i \in 1 .. Len(host') : host'[i] = host[i + 1]
  BY DEF PollEvent, WholeInv, ContactInv, TypeOK
<1>2. e.kind \in {"down", "move", "up"} /\ e.by \in Finger /\ FingersOnly'
  BY <1>1 DEF WholeInv, FingerHost, HostEvent, PollEvent, FingersOnly
<1>4. PollFinger(e) /\ UNCHANGED touch
  BY <1>2 DEF PollEvent, PollFinger, PollMouse
<1> HIDE DEF e
<1>3. FingerHost'
  <2> SUFFICES ASSUME NEW i \in 1 .. Len(host')
               PROVE  host'[i].kind \in {"down", "move", "up"}
    BY DEF FingerHost
  <2>1. i + 1 \in 1 .. Len(host)
    BY <1>1 DEF WholeInv, ContactInv, TypeOK
  <2> QED BY <1>1, <2>1 DEF WholeInv, FingerHost
<1>5. ASSUME live' = live, active' = NoFinger <=> active = NoFinger
      PROVE  ContactsWhole'
  <2>1. \A i \in 1 .. Len(live) + 1 : DownBefore(i)' <=> DownBefore(i)
    BY <1>4, <1>5 DEF DownBefore
  <2>2. Len(live) + 1 \in 1 .. Len(live) + 1
    BY DEF WholeInv, ContactInv, TypeOK
  <2>3. \A i \in 1 .. Len(live) : i \in 1 .. Len(live) + 1
    OBVIOUS
  <2> QED BY <1>2, <1>5, <2>1, <2>2, <2>3 DEF WholeInv, ContactsWhole
<1>6. ASSUME NEW action \in {"Down", "Move", "Up"}, Queued(action, e),
             action = "Down" <=> active = NoFinger,
             action = "Up" <=> active' = NoFinger
      PROVE  ContactsWhole'
  <2> DEFINE ev == [action |-> action, x |-> e.x, at |-> now]
  <2>0. PICK n \in Nat : n = Len(live)
    BY DEF WholeInv, ContactInv, TypeOK
  <2>1. live \in Seq(LiveEvent) /\ live' = Append(live, ev) /\ ev.action = action
    BY <1>6 DEF Queued, WholeInv, ContactInv, TypeOK
  <2> HIDE DEF ev
  <2>2. /\ n \in Nat /\ Len(live') = n + 1 /\ live'[n + 1] = ev
        /\ \A i \in 1 .. n : live'[i] = live[i]
    BY <2>0, <2>1
  <2>3. \A i \in 1 .. n + 1 : DownBefore(i)' <=> DownBefore(i)
    BY <1>4, <2>2 DEF DownBefore
  <2>4. /\ \A i \in 1 .. n : live[i].action = "Down" <=> ~DownBefore(i)
        /\ DownBefore(n + 1) <=> active # NoFinger
    BY <2>0 DEF WholeInv, ContactsWhole
  <2>5. n + 1 \in 1 .. n + 1 /\ \A i \in 1 .. n : i \in 1 .. n + 1
    BY <2>2
  <2>6. live'[n + 1].action = "Down" <=> ~DownBefore(n + 1)'
    BY <1>6, <2>1, <2>2, <2>3, <2>4, <2>5
  <2>7. \A i \in 1 .. n : live'[i].action = "Down" <=> ~DownBefore(i)'
    BY <2>2, <2>3, <2>4, <2>5
  <2>8. DownBefore(n + 2)' <=> active' # NoFinger
    BY <1>6, <2>1, <2>2 DEF DownBefore
  <2>9. \A i \in 1 .. n + 1 : i = n + 1 \/ i \in 1 .. n
    BY <2>2
  <2>10. (n + 1) + 1 = n + 2
    BY <2>2
  <2> QED BY <2>2, <2>6, <2>7, <2>8, <2>9, <2>10 DEF ContactsWhole
<1>7. CASE e.kind = "down"
  <2>1. \/ active # NoFinger /\ UNCHANGED <<active, live>>
        \/ active = NoFinger /\ active' = e.by /\ Queued("Down", e)
    BY <1>4, <1>7 DEF PollFinger, PollFingerDown, Unplaced, FingersOnly
  <2> QED BY <1>2, <1>3, <1>5, <1>6, <2>1, TouchAssumption
<1>8. CASE e.kind = "move"
  <2>1. /\ (active = e.by /\ Queued("Move", e)) \/ UNCHANGED live
        /\ UNCHANGED active
    BY <1>4, <1>8 DEF PollFinger, PollFingerMove, Unplaced, FingersOnly
  <2> QED BY <1>2, <1>3, <1>5, <1>6, <2>1, TouchAssumption
<1>9. CASE e.kind = "up"
  <2>1. \/ active = e.by /\ active' = NoFinger /\ Queued("Up", e)
        \/ UNCHANGED <<active, live>>
    BY <1>4, <1>9 DEF PollFinger, PollFingerUp, Unplaced, FingersOnly
  <2> QED BY <1>2, <1>3, <1>5, <1>6, <2>1, TouchAssumption
<1> QED BY <1>2, <1>7, <1>8, <1>9

\* EndPoll: what is applied leaves the state where the rest of the deque begins.
LEMMA EndPollWhole ==
  ASSUME WholeInv, EndPoll, FingersOnly
  PROVE  ContactsWhole'
<1>1. CASE live = <<>> \/ processed
  BY <1>1, DownIsKept DEF EndPoll, ProcessLive, WholeInv
<1>2. CASE live # <<>> /\ ~processed
  <2>0. PICK n \in 1 .. Len(live) : n = Taken(live)
    BY <1>2, TakenIs DEF WholeInv, ContactInv, TypeOK
  <2>1. /\ live \in Seq(LiveEvent) /\ Len(live) \in Nat
        /\ n = 1 \/ \A i \in 1 .. n : live[i].action = "Move"
    BY <1>2, <2>0, TakenIs DEF WholeInv, ContactInv, TypeOK
  <2>2. touch' = Applied(touch, live[n]) /\ live' = SubSeq(live, n + 1, Len(live))
    BY <1>2, <2>0 DEF EndPoll, ProcessLive
  <2>3. live[n] \in LiveEvent /\ live[n].at <= now
    BY <2>1 DEF WholeInv, ContactInv, LiveTimes
  <2>4. touch'.down <=> (live[n].action = "Down" \/ (live[n].action = "Move" /\ touch.down))
    BY <2>2, <2>3, AppliedSound DEF WholeInv, ContactInv, TypeOK
  <2>5. /\ Len(live') = Len(live) - n
        /\ \A i \in 1 .. Len(live') : live'[i] = live[i + n]
    BY <2>1, <2>2
  <2>6. (live[n].action = "Down" <=> ~DownBefore(n)) /\ (n # 1 => live[1].action = "Move")
    BY <2>1 DEF WholeInv, ContactsWhole
  <2>7. live[n].action = "Move" => touch.down
    <3>1. CASE n = 1
      BY <2>6, <3>1 DEF DownBefore
    <3>2. CASE n # 1
      <4>1. 1 \in 1 .. Len(live) /\ live[1].action = "Move"
        BY <2>1, <2>6, <3>2
      <4>2. DownBefore(1)
        BY <4>1 DEF WholeInv, ContactsWhole
      <4> QED BY <4>2 DEF DownBefore
    <3> QED BY <3>1, <3>2
  <2>8. touch'.down <=> DownBefore(n + 1)
    BY <2>1, <2>3, <2>4, <2>7 DEF DownBefore, LiveEvent
  <2>9. \A i \in 1 .. Len(live') + 1 : DownBefore(i)' <=> DownBefore(i + n)
    BY <2>1, <2>5, <2>8 DEF DownBefore
  <2>10. \A i \in 1 .. Len(live') : live'[i].action = "Down" <=> ~DownBefore(i)'
    <3> SUFFICES ASSUME NEW i \in 1 .. Len(live')
                 PROVE  live'[i].action = "Down" <=> ~DownBefore(i)'
      OBVIOUS
    <3>1. i \in 1 .. Len(live') + 1 /\ i + n \in 1 .. Len(live)
      BY <2>1, <2>5
    <3> QED BY <2>5, <2>9, <3>1 DEF WholeInv, ContactsWhole
  <2>11. DownBefore(Len(live) + 1)' <=> active' # NoFinger
    <3>0. PICK m \in Nat : m = Len(live')
      BY <2>0, <2>1, <2>5
    <3>1. DownBefore(m + 1)' <=> DownBefore(Len(live) + 1)
      <4>1. m + 1 \in 1 .. Len(live') + 1 /\ (m + 1) + n = Len(live) + 1
        BY <2>1, <2>5, <3>0
      <4> QED BY <2>9, <4>1
    <3> QED BY <3>0, <3>1 DEF WholeInv, ContactsWhole, EndPoll
  <2> QED BY <2>10, <2>11 DEF ContactsWhole
<1> QED BY <1>1, <1>2

LEMMA WholeInit == Init => WholeInv
<1> SUFFICES ASSUME Init
             PROVE  WholeInv
  OBVIOUS
<1>1. Len(live) = 0 /\ Len(host) = 0 /\ ~touch.down /\ active = NoFinger
  BY DEF Init, NoTouch
<1>2. FingerHost
  BY <1>1 DEF FingerHost
<1>3. DownBefore(1) <=> active # NoFinger
  BY <1>1 DEF DownBefore
<1>4. ContactsWhole
  BY <1>1, <1>3 DEF ContactsWhole
<1> QED BY <1>2, <1>4, ContactInit DEF WholeInv

\* A contact the host is told of is one of a finger when fingers are all there is.
LEMMA WorldWhole ==
  ASSUME WholeInv, World, FingersOnly
  PROVE  FingerHost' /\ ContactsWhole'
<1>0. Bounds[sources].reach \subseteq Points
  BY TouchAssumption DEF WholeInv, ContactInv, TypeOK
<1>1. sources' = sources /\ live' = live /\ active' = active /\ touch' = touch
  BY DEF World, Elapse, FingerContact, FingerDrag, MouseButton, MouseDrag, Send
<1>2. \/ host' = host
      \/ \E kind \in {"down", "move", "up"}, f \in Finger, x \in Points :
           host' = Append(host, [kind |-> kind, by |-> f, x |-> x])
  BY <1>0 DEF World, Elapse, FingerContact, FingerDrag, MouseButton, MouseDrag, Send,
              FingersOnly
<1>3. FingerHost'
  <2>1. host \in Seq(HostEvent) /\ \A i \in 1 .. Len(host) : host[i].kind \in {"down", "move", "up"}
    BY DEF WholeInv, FingerHost, ContactInv, TypeOK
  <2>2. ASSUME NEW e, e.kind \in {"down", "move", "up"}, host' = Append(host, e)
        PROVE  \A i \in 1 .. Len(host') : host'[i].kind \in {"down", "move", "up"}
    BY <2>1, <2>2
  <2>3. CASE host' = host
    BY <2>1, <2>3 DEF FingerHost
  <2>4. ASSUME NEW kind \in {"down", "move", "up"}, NEW f, NEW x,
               host' = Append(host, [kind |-> kind, by |-> f, x |-> x])
        PROVE  FingerHost'
    <3> DEFINE e == [kind |-> kind, by |-> f, x |-> x]
    <3>1. e.kind \in {"down", "move", "up"} /\ host' = Append(host, e)
      BY <2>4
    <3> HIDE DEF e
    <3> QED BY <2>2, <3>1 DEF FingerHost
  <2> QED BY <1>2, <2>3, <2>4
<1> QED BY <1>1, <1>3, DownIsKept DEF WholeInv

LEMMA WholeStep == WholeInv /\ [Next]_vars => WholeInv'
<1> SUFFICES ASSUME WholeInv, [Next]_vars
             PROVE  WholeInv'
  OBVIOUS
<1>0. ContactInv'
  BY ContactStep DEF WholeInv
<1>s. sources' = sources
  BY DEF Next, World, Main, vars, Elapse, FingerContact, FingerDrag, MouseButton, MouseDrag,
         Send, BeginUpdate, PollEvent, EndPoll, ScriptTouch, EndUpdate, Suppress, EndLoop,
         BeginFrame
<1>1. CASE ~FingersOnly
  BY <1>0, <1>1, <1>s DEF WholeInv, FingerHost, ContactsWhole, FingersOnly
<1>2. CASE FingersOnly
  <2>1. CASE World
    BY <1>0, <1>2, <2>1, WorldWhole DEF WholeInv
  <2>2. CASE PollEvent
    BY <1>0, <1>2, <2>2, PollWhole DEF WholeInv
  <2>3. CASE EndPoll
    BY <1>0, <1>2, <1>s, <2>3, EndPollWhole DEF WholeInv, FingerHost, FingersOnly, EndPoll
  <2>4. CASE \/ BeginUpdate \/ EndUpdate \/ Suppress \/ EndLoop \/ BeginFrame
             \/ UNCHANGED vars
    <3>1. /\ live' = live /\ active' = active /\ host' = host
          /\ touch'.down = touch.down
      BY <2>4, HeldSound DEF BeginUpdate, EndUpdate, Suppress, EndLoop, BeginFrame, vars,
                             WholeInv, ContactInv, TypeOK, TouchState
    <3> QED BY <1>0, <1>s, <3>1, DownIsKept DEF WholeInv, FingerHost, FingersOnly
  <2>5. ~(\E x \in Bounds[sources].reach : ScriptTouch(x))
    BY <1>2 DEF ScriptTouch, FingersOnly
  <2> QED BY <2>1, <2>2, <2>3, <2>4, <2>5 DEF Next, Main
<1> QED BY <1>1, <1>2

\* ContactsComeWhole: driven by fingers, the state of the panel and the deque
\* behind it hold whole contacts in order, and end where the followed finger is.
THEOREM ContactsComeWhole == Spec => []ContactsWhole
<1>1. WholeInv => ContactsWhole
  BY DEF WholeInv
<1> QED BY <1>1, WholeInit, WholeStep, PTL DEF Spec

-----------------------------------------------------------------------------
(* A press the key strip took is no touch.                                 *)

MouseOnly == sources = {"mouse"}

MouseKinds == {"mousedown", "stripdown", "mousemove", "mouseup"}

\* The level of the left button as the events on their way make it, from what
\* update() has seen of it to what it is.
ButtonLevels(h) ==
  /\ h[1] <=> captured \/ touch.down
  /\ h[Len(host) + 1] <=> button
  /\ \A i \in 1 .. Len(host) :
       /\ host[i].kind \in {"mousedown", "stripdown"} => ~h[i] /\ h[i + 1]
       /\ host[i].kind = "mousemove" => (h[i + 1] <=> h[i])
       /\ host[i].kind = "mouseup" => h[i] /\ ~h[i + 1]

\* Driven by the mouse alone, nothing else is on its way, and presses and
\* releases take turns.
MouseHost ==
  /\ live = <<>> /\ onPanel = [f \in Finger |-> FALSE]
  /\ \A i \in 1 .. Len(host) : host[i].kind \in MouseKinds
  /\ \E h \in [1 .. Len(host) + 1 -> BOOLEAN] : ButtonLevels(h)
  /\ ~(captured /\ touch.down)

StripInv == ContactInv /\ (MouseOnly => MouseHost)

LEMMA StripInit == Init => StripInv
<1> SUFFICES ASSUME Init
             PROVE  StripInv
  OBVIOUS
<1>1. Len(host) = 0 /\ live = <<>> /\ ~touch.down /\ ~captured /\ ~button
      /\ onPanel = [f \in Finger |-> FALSE]
  BY DEF Init, NoTouch
<1> DEFINE h == [i \in 1 .. Len(host) + 1 |-> FALSE]
<1>2. h \in [1 .. Len(host) + 1 -> BOOLEAN] /\ h[1] = FALSE
  BY <1>1
<1>3. ButtonLevels(h)
  BY <1>1, <1>2 DEF ButtonLevels
<1> HIDE DEF h
<1> QED BY <1>1, <1>2, <1>3, ContactInit DEF StripInv, MouseHost

\* The mouse: its press comes after its release and the other way round.
LEMMA MouseSends ==
  ASSUME ContactInv, MouseHost, MouseOnly, World, touch'.down = touch.down
  PROVE  MouseHost'
<1> DEFINE Told(kind, x) == /\ host' = Append(host, [kind |-> kind, by |-> NoFinger, x |-> x])
                            /\ kind \in {"mousedown", "stripdown"} => ~button /\ button'
                            /\ kind = "mousemove" => (button' <=> button)
                            /\ kind = "mouseup" => button /\ ~button'
<1>1. /\ live' = live /\ onPanel' = onPanel /\ captured' = captured
      /\ \/ host' = host /\ button' = button
         \/ \E kind \in MouseKinds, x \in Points : Told(kind, x)
  <2>1. Elapse \/ \E x \in Points : MouseButton(x) \/ MouseDrag(x)
    <3>1. "finger" \notin sources /\ \A f \in Finger : ~onPanel[f]
      BY DEF MouseOnly, MouseHost
    <3>2. Bounds[sources].reach \subseteq Points
      BY TouchAssumption DEF ContactInv, TypeOK
    <3> QED BY <3>1, <3>2 DEF World, FingerContact, FingerDrag
  <2>2. CASE Elapse
    BY <2>2 DEF Elapse
  <2>3. ASSUME NEW x \in Points, MouseButton(x)
        PROVE  /\ UNCHANGED <<live, onPanel, captured>>
               /\ \E kind \in MouseKinds : Told(kind, x)
    <3>1. CASE ~button /\ (Send("mousedown", NoFinger, x) \/ Send("stripdown", NoFinger, x))
      <4>1. Told("mousedown", x) \/ Told("stripdown", x)
        BY <2>3, <3>1 DEF MouseButton, Send
      <4> HIDE DEF Told
      <4> QED BY <2>3, <3>1, <4>1 DEF MouseButton, Send, MouseKinds
    <3>2. CASE button /\ Send("mouseup", NoFinger, x)
      <4>1. Told("mouseup", x)
        BY <2>3, <3>2 DEF MouseButton, Send
      <4> HIDE DEF Told
      <4> QED BY <2>3, <3>2, <4>1 DEF MouseButton, Send, MouseKinds
    <3> QED BY <2>3, <3>1, <3>2 DEF MouseButton
  <2>4. ASSUME NEW x \in Points, MouseDrag(x)
        PROVE  UNCHANGED <<live, onPanel, captured>> /\ Told("mousemove", x)
    BY <2>4 DEF MouseDrag, Send
  <2>5. "mousemove" \in MouseKinds
    BY DEF MouseKinds
  <2> HIDE DEF Told
  <2> QED BY <2>1, <2>2, <2>3, <2>4, <2>5
<1>2. PICK h \in [1 .. Len(host) + 1 -> BOOLEAN] : ButtonLevels(h)
  BY DEF MouseHost
<1>3. CASE host' = host /\ button' = button
  BY <1>1, <1>2, <1>3 DEF MouseHost, ButtonLevels
<1>4. ASSUME NEW e, host' = Append(host, e), e.kind \in MouseKinds,
             e.kind \in {"mousedown", "stripdown"} => ~button /\ button',
             e.kind = "mousemove" => (button' <=> button),
             e.kind = "mouseup" => button /\ ~button'
      PROVE  MouseHost'
  <2>0. PICK n \in Nat : n = Len(host)
    BY DEF ContactInv, TypeOK
  <2>1. /\ host \in Seq(HostEvent) /\ Len(host') = n + 1 /\ host'[n + 1] = e
        /\ \A i \in 1 .. n : host'[i] = host[i]
    BY <1>4, <2>0 DEF ContactInv, TypeOK
  <2> DEFINE g == [i \in 1 .. n + 2 |-> IF i = n + 2 THEN button' ELSE h[i]]
  <2>2. PICK k : k = g
    OBVIOUS
  <2>3. button' \in BOOLEAN
    BY <1>4, ContactStep DEF ContactInv, TypeOK, Next
  <2>4. /\ k \in [1 .. n + 2 -> BOOLEAN] /\ k[n + 2] = button'
        /\ \A i \in 1 .. n + 1 : k[i] = h[i]
    BY <1>2, <2>0, <2>2, <2>3
  <2>5. \A i \in 1 .. n + 1 : i = n + 1 \/ (i \in 1 .. n /\ i + 1 \in 1 .. n + 1)
    OBVIOUS
  <2>6. (n + 1) + 1 = n + 2 /\ 1 \in 1 .. n + 1 /\ n + 1 \in 1 .. n + 1
    OBVIOUS
  <2>7. \A i \in 1 .. n + 1 :
          /\ host'[i].kind \in {"mousedown", "stripdown"} => ~k[i] /\ k[i + 1]
          /\ host'[i].kind = "mousemove" => (k[i + 1] <=> k[i])
          /\ host'[i].kind = "mouseup" => k[i] /\ ~k[i + 1]
    <3> SUFFICES ASSUME NEW i \in 1 .. n + 1
                 PROVE  /\ host'[i].kind \in {"mousedown", "stripdown"} => ~k[i] /\ k[i + 1]
                        /\ host'[i].kind = "mousemove" => (k[i + 1] <=> k[i])
                        /\ host'[i].kind = "mouseup" => k[i] /\ ~k[i + 1]
      OBVIOUS
    <3>1. CASE i = n + 1
      <4>1. k[i] = h[n + 1] /\ k[i + 1] = button' /\ (h[n + 1] <=> button)
        BY <1>2, <2>0, <2>4, <2>6, <3>1 DEF ButtonLevels
      <4> QED BY <1>4, <2>1, <3>1, <4>1
    <3>2. CASE i \in 1 .. n /\ i + 1 \in 1 .. n + 1
      BY <1>2, <2>0, <2>1, <2>4, <3>2 DEF ButtonLevels
    <3> QED BY <2>5, <3>1, <3>2
  <2>8. /\ k[1] <=> captured' \/ touch'.down
        /\ k[Len(host') + 1] <=> button'
    BY <1>1, <1>2, <2>1, <2>4, <2>6 DEF ButtonLevels
  <2>9. ButtonLevels(k)'
    BY <2>1, <2>7, <2>8 DEF ButtonLevels
  <2>10. k \in [1 .. Len(host') + 1 -> BOOLEAN]
    BY <2>1, <2>4, <2>6
  <2>11. \A i \in 1 .. Len(host') : host'[i].kind \in MouseKinds
    BY <1>4, <2>0, <2>1, <2>5 DEF MouseHost
  <2> QED BY <1>1, <2>9, <2>10, <2>11 DEF MouseHost
<1> QED BY <1>1, <1>3, <1>4

\* PollEvent: a press finds the button up, so either the strip has it or the
\* panel has, and the release gives it back to neither.
LEMMA MousePolled ==
  ASSUME ContactInv, MouseHost, PollEvent
  PROVE  MouseHost'
<1> DEFINE e == Head(host)
<1>0. PICK n \in Nat : n = Len(host) - 1
  BY DEF PollEvent, ContactInv, TypeOK
<1>1. /\ e = host[1] /\ 1 \in 1 .. Len(host) /\ Len(host) = n + 1 /\ Len(host') = n
      /\ \A i \in 1 .. n : host'[i] = host[i + 1] /\ i + 1 \in 1 .. n + 1
  BY <1>0 DEF PollEvent, ContactInv, TypeOK
<1>2. e.kind \in MouseKinds /\ e \in HostEvent /\ e.x \in Points
  BY <1>1 DEF MouseHost, ContactInv, TypeOK, HostEvent
<1>3. PollMouse(e) /\ UNCHANGED <<onPanel, button>>
  BY <1>2 DEF PollEvent, PollFinger, MouseKinds
<1> HIDE DEF e
<1>4. PICK h \in [1 .. n + 2 -> BOOLEAN] : ButtonLevels(h)
  <2>1. Len(host) + 1 = n + 2
    BY <1>1
  <2> QED BY <2>1 DEF MouseHost
<1>5. /\ h[1] <=> captured \/ touch.down
      /\ h[n + 2] <=> button
      /\ e.kind \in {"mousedown", "stripdown"} => ~h[1] /\ h[2]
      /\ e.kind = "mousemove" => (h[2] <=> h[1])
      /\ e.kind = "mouseup" => h[1] /\ ~h[2]
  BY <1>1, <1>4 DEF ButtonLevels
<1>6. /\ Begun(touch, e.x, now).down
      /\ Moved(touch, e.x).down <=> touch.down
      /\ ~Ended(touch, e.x, now).down
  <2>0. now \in 0 .. MaxNow
    BY DEF ContactInv, TypeOK
  <2>1. now \in 0 .. now
    BY <2>0, TouchAssumption
  <2>2. e.x \in 0 .. Width - 1
    BY <1>2, TouchAssumption
  <2> QED BY <2>0, <2>1, <2>2, MovedSound, EndedSound DEF Begun, ContactInv, TypeOK, TouchState
<1>7. /\ captured' \/ touch'.down <=> h[2]
      /\ ~(captured' /\ touch'.down)
  BY <1>3, <1>5, <1>6 DEF PollMouse, MouseHost
<1> DEFINE g == [i \in 1 .. n + 1 |-> h[i + 1]]
<1>8. PICK k : k = g
  OBVIOUS
<1>9. /\ k \in [1 .. n + 1 -> BOOLEAN]
      /\ \A i \in 1 .. n + 1 : k[i] = h[i + 1]
  BY <1>8
<1>10. 1 \in 1 .. n + 1 /\ n + 1 \in 1 .. n + 1 /\ (n + 1) + 1 = n + 2 /\ 1 + 1 = 2
       /\ \A i \in 1 .. n : i \in 1 .. n + 1
  OBVIOUS
<1>11. ButtonLevels(k)'
  <2>1. \A i \in 1 .. n :
          /\ host'[i].kind \in {"mousedown", "stripdown"} => ~k[i] /\ k[i + 1]
          /\ host'[i].kind = "mousemove" => (k[i + 1] <=> k[i])
          /\ host'[i].kind = "mouseup" => k[i] /\ ~k[i + 1]
    BY <1>1, <1>4, <1>9, <1>10 DEF ButtonLevels
  <2>2. /\ k[1] <=> captured' \/ touch'.down
        /\ k[n + 1] <=> button'
    BY <1>3, <1>5, <1>7, <1>9, <1>10
  <2> QED BY <1>1, <2>1, <2>2 DEF ButtonLevels
<1>12. \A i \in 1 .. Len(host') : host'[i].kind \in MouseKinds
  BY <1>1 DEF MouseHost
<1>13. live' = live
  BY <1>3 DEF PollMouse
<1> QED BY <1>1, <1>3, <1>7, <1>9, <1>11, <1>12, <1>13 DEF MouseHost

LEMMA StripStep == StripInv /\ [Next]_vars => StripInv'
<1> SUFFICES ASSUME StripInv, [Next]_vars
             PROVE  StripInv'
  OBVIOUS
<1>0. ContactInv /\ ContactInv'
  BY ContactStep DEF StripInv
<1>s. sources' = sources
  BY DEF Next, World, Main, vars, Elapse, FingerContact, FingerDrag, MouseButton, MouseDrag,
         Send, BeginUpdate, PollEvent, EndPoll, ScriptTouch, EndUpdate, Suppress, EndLoop,
         BeginFrame
<1>1. CASE ~MouseOnly
  BY <1>0, <1>1, <1>s DEF StripInv, MouseOnly
<1>2. CASE MouseOnly
  <2>0. MouseHost /\ live = <<>>
    BY <1>2 DEF StripInv, MouseHost
  <2>1. CASE World
    <3>1. touch' = touch
      BY <2>1 DEF World, Elapse, FingerContact, FingerDrag, MouseButton, MouseDrag, Send
    <3> QED BY <1>0, <1>2, <2>0, <2>1, <3>1, MouseSends DEF StripInv
  <2>2. CASE PollEvent
    BY <1>0, <2>0, <2>2, MousePolled DEF StripInv
  <2>3. CASE \/ BeginUpdate \/ EndPoll \/ EndUpdate \/ Suppress \/ EndLoop \/ BeginFrame
             \/ UNCHANGED vars
    <3>1. touch \in TouchState /\ (EndUpdate => touch'.down = touch.down)
      BY <1>0, HeldSound DEF EndUpdate, ContactInv, TypeOK
    <3>2. UNCHANGED <<live, host, onPanel, button, captured>>
      BY <2>0, <2>3 DEF BeginUpdate, EndPoll, ProcessLive, EndUpdate, Suppress, EndLoop,
                        BeginFrame, vars
    <3>3. touch'.down = touch.down
      BY <2>0, <2>3, <3>1 DEF BeginUpdate, EndPoll, ProcessLive, Suppress, EndLoop, BeginFrame,
                              vars, TouchState
    <3>4. MouseHost'
      BY <2>0, <3>2, <3>3 DEF MouseHost, ButtonLevels
    <3> QED BY <1>0, <3>4 DEF StripInv
  <2>4. ~(\E x \in Bounds[sources].reach : ScriptTouch(x))
    BY <1>2 DEF ScriptTouch, MouseOnly
  <2> QED BY <2>1, <2>2, <2>3, <2>4 DEF Next, Main
<1> QED BY <1>1, <1>2

\* StripKeepsItsPress: driven by the mouse, the panel is never touched while the
\* key strip holds the mouse.
THEOREM StripKeepsItsPress == Spec => []StripPressIsNotTouch
<1>1. StripInv => StripPressIsNotTouch
  BY DEF StripInv, MouseHost, MouseOnly, StripPressIsNotTouch
<1> QED BY <1>1, StripInit, StripStep, PTL DEF Spec

=============================================================================
