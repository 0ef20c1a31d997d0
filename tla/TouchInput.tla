----------------------------- MODULE TouchInput -----------------------------
(***************************************************************************)
(* The touch panel of HalGPIO (src/HalGPIO.cpp): finger contacts, the      *)
(* mouse and scripted touches drive one TouchState, from which the         *)
(* firmware reads taps, swipes and long presses.                           *)
(*                                                                         *)
(* Finger events are copied from SDL's queue into a deque of their own by  *)
(* update(), which then applies at most one of them per input frame, so    *)
(* that a contact is seen going down and coming up in different frames.    *)
(* The mouse and the script change the state at once.                      *)
(*                                                                         *)
(* Positions are panel pixels along one axis.  The code keeps them divided *)
(* by Width - 1 and multiplies distances by Width; Beyond and FarEnough do *)
(* the same in integers.                                                   *)
(***************************************************************************)
EXTENDS Integers, Sequences

CONSTANTS
  Finger,      \* finger identities
  NoFinger,    \* no finger is being followed
  Points,      \* panel positions a contact may have
  Width,       \* HalDisplay::DISPLAY_WIDTH
  TapSlop,     \* TOUCH_TAP_SLOP_PX
  ReleaseSlop, \* TOUCH_TAP_RELEASE_SLOP_PX
  SwipeMin,    \* TOUCH_SWIPE_MIN_PX
  LongPress,   \* TOUCH_LONG_PRESS_MS, in ticks
  SwipeMax,    \* TOUCH_SWIPE_MAX_MS, in ticks
  Sources,     \* sets of what touches the panel together in a session
  MaxNow,      \* bound: the clock
  Bounds       \* bounds of a session: of its clock, of the contact events not
               \* yet applied in both queues, and of the positions it uses

ASSUME TouchAssumption ==
  /\ NoFinger \notin Finger
  /\ Width \in Nat /\ Width > 1
  /\ Points \subseteq 0 .. Width - 1
  /\ Points # {}
  /\ TapSlop \in Nat /\ ReleaseSlop \in Nat /\ SwipeMin \in Nat
  /\ LongPress \in Nat /\ SwipeMax \in Nat
  /\ Sources \subseteq SUBSET {"finger", "mouse", "script", "windowless"}
  /\ MaxNow \in Nat
  /\ Bounds \in [Sources -> [until : 0 .. MaxNow, queue : Nat, reach : SUBSET Points]]

\* What lets a contact be told a tap from a swipe.
ASSUME SlopAssumption == TapSlop <= ReleaseSlop /\ ReleaseSlop < SwipeMin

VARIABLES
  sources,   \* what touches the panel in this session, and whether the window
             \* of a finger may be gone when its event is polled
  phase,     \* where the main thread is within a frame
  now,       \* SDL_GetTicks(), in ticks
  host,      \* contact events on their way to SDL_PollEvent()
  toPoll,    \* host events the current update() is sure to poll
  onPanel,   \* finger -> it is on the glass
  button,    \* the left mouse button is down
  active,    \* activeFingerId, or NoFinger when activeFinger is false
  captured,  \* SimulatorOnScreenControls::capturing()
  live,      \* liveTouchEvents
  processed, \* touchEventProcessedFrame = inputFrameCounter
  touch      \* touchState

vars == <<sources, phase, now, host, toPoll, onPanel, button, active, captured, live,
          processed, touch>>

-----------------------------------------------------------------------------
(* Distances.                                                              *)

Abs(n) == IF n < 0 THEN -n ELSE n

\* Variant: a tap may drift as far as a swipe, and further.
BeyondDoubled(x, y, slop) == Abs(x - y) * Width > 2 * slop * (Width - 1)

\* updateTouchMovement(): |dx| * DISPLAY_WIDTH / (DISPLAY_WIDTH - 1) > slop
Beyond(x, y, slop) == Abs(x - y) * Width > slop * (Width - 1)

\* wasSwipe(): not |dx| * DISPLAY_WIDTH / (DISPLAY_WIDTH - 1) < SwipeMin
FarEnough(x, y) == Abs(x - y) * Width >= SwipeMin * (Width - 1)

-----------------------------------------------------------------------------
(* TouchState.  activityThisFrame is pressed \/ released and is left out.  *)

\* Held times are unsigned: a difference below zero wraps round to one longer
\* than any limit.
Wrap == 2 * (MaxNow + LongPress + SwipeMax + 1)

HeldFor(at, from) == (at - from) % Wrap

TouchState ==
  [down : BOOLEAN, pressed : BOOLEAN, released : BOOLEAN,
   beyondTap : BOOLEAN, beyondRelease : BOOLEAN,
   longNow : BOOLEAN, longFired : BOOLEAN, suppressed : BOOLEAN,
   start : 0 .. Width - 1, current : 0 .. Width - 1,
   pressedAt : 0 .. MaxNow, heldMs : 0 .. Wrap - 1]

NoTouch ==
  [down |-> FALSE, pressed |-> FALSE, released |-> FALSE,
   beyondTap |-> FALSE, beyondRelease |-> FALSE,
   longNow |-> FALSE, longFired |-> FALSE, suppressed |-> FALSE,
   start |-> 0, current |-> 0, pressedAt |-> 0, heldMs |-> 0]

\* beginTouch(): everything but the release latch and the last held time.
Begun(t, x, at) ==
  [t EXCEPT !.down = TRUE, !.pressed = TRUE,
            !.beyondTap = FALSE, !.beyondRelease = FALSE,
            !.longNow = FALSE, !.longFired = FALSE, !.suppressed = FALSE,
            !.start = x, !.current = x,
            !.pressedAt = at]

\* moveTouch() and updateTouchMovement(): the two slops only ever give way.
Moved(t, x) ==
  IF ~t.down THEN t
  ELSE [t EXCEPT !.current = x,
                 !.beyondTap = @ \/ Beyond(x, t.start, TapSlop),
                 !.beyondRelease = @ \/ Beyond(x, t.start, ReleaseSlop)]

\* endTouch()
Ended(t, x, at) ==
  IF ~t.down THEN t
  ELSE [Moved(t, x) EXCEPT !.down = FALSE, !.released = TRUE,
                           !.heldMs = HeldFor(at, t.pressedAt)]

\* updateTouchHold()
Held(t) ==
  IF /\ t.down /\ ~t.beyondTap /\ ~t.longFired /\ ~t.suppressed
     /\ HeldFor(now, t.pressedAt) >= LongPress
  THEN [t EXCEPT !.longFired = TRUE, !.longNow = TRUE]
  ELSE t

\* What the firmware reads.
WasTap   == touch.released /\ ~touch.beyondRelease /\ ~touch.suppressed
WasSwipe == /\ touch.released /\ ~touch.suppressed
            /\ touch.heldMs <= SwipeMax
            /\ FarEnough(touch.current, touch.start)
WasTouchDown == touch.pressed
IsTouchTapCandidate == touch.down /\ ~touch.beyondTap /\ ~touch.suppressed
IsTouchHeldAt == touch.down /\ ~touch.suppressed
WasTouchLongPress == touch.longNow /\ ~touch.suppressed

-----------------------------------------------------------------------------

HostEvent ==
  [kind : {"down", "move", "up"}, by : Finger, x : Points]
    \cup [kind : {"mousedown", "stripdown", "mousemove", "mouseup"},
          by : {NoFinger}, x : Points]

LiveEvent ==
  [action : {"Down", "Move", "Up"}, x : Points, at : 0 .. MaxNow]

Init ==
  /\ sources \in Sources
  /\ phase = "loop"
  /\ now = 0
  /\ host = <<>>
  /\ toPoll = 0
  /\ onPanel = [f \in Finger |-> FALSE]
  /\ button = FALSE
  /\ active = NoFinger
  /\ captured = FALSE
  /\ live = <<>>
  /\ processed = FALSE
  /\ touch = NoTouch

-----------------------------------------------------------------------------
(* The world.                                                              *)

\* Time passes while the firmware runs (it renders there): a tick is far
\* longer than update() takes.
Elapse ==
  /\ phase = "loop"
  /\ now < Bounds[sources].until
  /\ now' = now + 1
  /\ UNCHANGED <<sources, phase, host, toPoll, onPanel, button, active, captured, live,
                 processed, touch>>

Send(kind, by, x) ==
  /\ Len(host) + Len(live) < Bounds[sources].queue
  /\ host' = Append(host, [kind |-> kind, by |-> by, x |-> x])
  /\ UNCHANGED <<sources, phase, now, toPoll, active, captured, live, processed, touch>>

FingerContact(f, x) ==
  /\ "finger" \in sources
  /\ \/ ~onPanel[f] /\ Send("down", f, x)
     \/ onPanel[f] /\ Send("up", f, x)
  /\ onPanel' = [onPanel EXCEPT ![f] = ~@]
  /\ UNCHANGED button

FingerDrag(f, x) ==
  /\ onPanel[f]
  /\ Send("move", f, x)
  /\ UNCHANGED <<onPanel, button>>

\* The mouse goes down on the panel or on a key of the on-screen strip.
MouseButton(x) ==
  /\ "mouse" \in sources
  /\ \/ ~button /\ (Send("mousedown", NoFinger, x) \/ Send("stripdown", NoFinger, x))
     \/ button /\ Send("mouseup", NoFinger, x)
  /\ button' = ~button
  /\ UNCHANGED onPanel

MouseDrag(x) ==
  /\ "mouse" \in sources
  /\ Send("mousemove", NoFinger, x)
  /\ UNCHANGED <<onPanel, button>>

-----------------------------------------------------------------------------
(* HalGPIO::update(): the event pump.                                      *)

BeginUpdate ==
  /\ phase = "loop"
  /\ phase' = "poll"
  /\ toPoll' = Len(host)
  /\ UNCHANGED <<sources, now, host, onPanel, button, active, captured, live,
                 processed, touch>>

\* The event is stamped with the time it is polled at.
Queued(action, e) ==
  live' = Append(live, [action |-> action, x |-> e.x, at |-> now])

\* fingerToLogicalNormalized() finds no window or no renderer: the event has no
\* place on the panel.
Unplaced == "windowless" \in sources /\ UNCHANGED live

\* Variant: the second finger takes over the contact.
PollFingerDownAny(e) == active' = e.by /\ Queued("Down", e)

\* SDL_FINGERDOWN: only the first finger on the glass is followed.
PollFingerDown(e) ==
  \/ active # NoFinger /\ UNCHANGED <<active, live>>
  \/ active = NoFinger /\ active' = e.by /\ Queued("Down", e)
  \/ active = NoFinger /\ Unplaced /\ UNCHANGED active

PollFingerMove(e) ==
  /\ \/ active = e.by /\ (Queued("Move", e) \/ Unplaced)
     \/ active # e.by /\ UNCHANGED live
  /\ UNCHANGED active

\* The finger is no longer followed, even if its release finds no place.
PollFingerUp(e) ==
  \/ active = e.by /\ active' = NoFinger /\ (Queued("Up", e) \/ Unplaced)
  \/ active # e.by /\ UNCHANGED <<active, live>>

PollFinger(e) ==
  /\ \/ e.kind = "down" /\ PollFingerDown(e)
     \/ e.kind = "move" /\ PollFingerMove(e)
     \/ e.kind = "up" /\ PollFingerUp(e)
  /\ UNCHANGED <<captured, touch>>

\* Variant: the strip does not claim the release of a press it took.
PollMouseUnclaimed(e) ==
  /\ \/ /\ e.kind \in {"mousedown", "stripdown"}
        /\ touch' = Begun(touch, e.x, now)
        /\ captured' = (e.kind = "stripdown")
     \/ /\ e.kind = "mousemove"
        /\ touch' = Moved(touch, e.x)
        /\ UNCHANGED captured
     \/ /\ e.kind = "mouseup"
        /\ captured' = FALSE
        /\ touch' = Ended(touch, e.x, now)
  /\ UNCHANGED <<active, live>>

\* A press the strip takes must not become a panel touch, nor its release.
PollMouse(e) ==
  /\ \/ /\ e.kind = "mousedown"
        /\ touch' = Begun(touch, e.x, now)
        /\ UNCHANGED captured
     \/ /\ e.kind = "stripdown"
        /\ captured' = TRUE
        /\ UNCHANGED touch
     \/ /\ e.kind = "mousemove"
        /\ touch' = IF captured THEN touch ELSE Moved(touch, e.x)
        /\ UNCHANGED captured
     \/ /\ e.kind = "mouseup"
        /\ captured' = FALSE
        /\ touch' = IF captured THEN touch ELSE Ended(touch, e.x, now)
  /\ UNCHANGED <<active, live>>

PollEvent ==
  /\ phase = "poll"
  /\ host # <<>>
  /\ PollFinger(Head(host)) \/ PollMouse(Head(host))
  /\ host' = Tail(host)
  /\ toPoll' = IF toPoll > 0 THEN toPoll - 1 ELSE 0
  /\ UNCHANGED <<sources, phase, now, onPanel, button, processed>>

-----------------------------------------------------------------------------
(* The rest of update(): processLiveTouchEvent(), the script, the hold.    *)

\* The last of the moves at the head of the deque.
LastMove(q) ==
  CHOOSE n \in 1 .. Len(q) :
    /\ \A i \in 1 .. n : q[i].action = "Move"
    /\ n = Len(q) \/ q[n + 1].action # "Move"

\* How many events are taken at once: moves in a row count as one.
Taken(q) == IF Head(q).action = "Move" THEN LastMove(q) ELSE 1

Applied(t, e) ==
  CASE e.action = "Down" -> Begun(t, e.x, e.at)
    [] e.action = "Move" -> Moved(t, e.x)
    [] e.action = "Up"   -> Ended(t, e.x, e.at)

ProcessLive ==
  \/ /\ live = <<>> \/ processed
     /\ UNCHANGED <<live, processed, touch>>
  \/ /\ live # <<>> /\ ~processed
     /\ touch' = Applied(touch, live[Taken(live)])
     /\ live' = SubSeq(live, Taken(live) + 1, Len(live))
     /\ processed' = TRUE

EndPoll ==
  /\ phase = "poll"
  /\ toPoll = 0
  /\ phase' = "script"
  /\ ProcessLive
  /\ UNCHANGED <<sources, now, host, toPoll, onPanel, button, active, captured>>

\* processSyntheticEvents(): any number of scripted touches, in one update().
ScriptTouch(x) ==
  /\ "script" \in sources
  /\ phase = "script"
  /\ touch' \in {Begun(touch, x, now), Moved(touch, x),
                 Ended(touch, x, now)}
  /\ UNCHANGED <<sources, phase, now, host, toPoll, onPanel, button, active, captured,
                 live, processed>>

EndUpdate ==
  /\ phase = "script"
  /\ phase' = "loop"
  /\ touch' = Held(touch)
  /\ UNCHANGED <<sources, now, host, toPoll, onPanel, button, active, captured, live,
                 processed>>

-----------------------------------------------------------------------------
(* The firmware and the frame boundary.                                    *)

\* suppressTouchContact()
Suppress ==
  /\ phase = "loop"
  /\ touch.down \/ touch.released
  /\ touch' = [touch EXCEPT !.suppressed = TRUE]
  /\ UNCHANGED <<sources, phase, now, host, toPoll, onPanel, button, active, captured,
                 live, processed>>

EndLoop ==
  /\ phase = "loop"
  /\ phase' = "boundary"
  /\ UNCHANGED <<sources, now, host, toPoll, onPanel, button, active, captured, live,
                 processed, touch>>

\* Variant: a frame that saw an event keeps the next one out as well.
BeginFrameStillProcessed ==
  /\ phase = "boundary"
  /\ phase' = "loop"
  /\ touch' = [touch EXCEPT !.pressed = FALSE, !.released = FALSE,
                            !.longNow = FALSE]
  /\ UNCHANGED <<sources, now, host, toPoll, onPanel, button, active, captured, live,
                 processed>>

\* beginFrame() and tick(): the edges go, the next live event may come.
BeginFrame ==
  /\ phase = "boundary"
  /\ phase' = "loop"
  /\ touch' = [touch EXCEPT !.pressed = FALSE, !.released = FALSE,
                            !.longNow = FALSE]
  /\ processed' = FALSE
  /\ UNCHANGED <<sources, now, host, toPoll, onPanel, button, active, captured, live>>

World ==
  \/ Elapse
  \/ \E x \in Bounds[sources].reach :
       \/ \E f \in Finger : FingerContact(f, x) \/ FingerDrag(f, x)
       \/ MouseButton(x) \/ MouseDrag(x)

Main ==
  \/ BeginUpdate \/ PollEvent \/ EndPoll
  \/ \E x \in Bounds[sources].reach : ScriptTouch(x)
  \/ EndUpdate \/ Suppress \/ EndLoop \/ BeginFrame

Next == World \/ Main

Spec == Init /\ [][Next]_vars

\* As in ButtonInput: frames go round with an update() in each.
Fairness ==
  /\ WF_vars(PollEvent /\ toPoll > 0)
  /\ WF_vars(EndPoll)
  /\ WF_vars(EndUpdate)
  /\ WF_vars(BeginFrame)
  /\ SF_vars(BeginUpdate)
  /\ SF_vars(EndLoop)

FairSpec == Spec /\ Fairness

-----------------------------------------------------------------------------
(* Properties.                                                             *)

FingersOnly == sources = {"finger"}

TypeOK ==
  /\ sources \in Sources
  /\ phase \in {"loop", "poll", "script", "boundary"}
  /\ now \in 0 .. MaxNow
  /\ host \in Seq(HostEvent)
  /\ toPoll \in 0 .. Len(host)
  /\ onPanel \in [Finger -> BOOLEAN]
  /\ button \in BOOLEAN
  /\ active \in Finger \cup {NoFinger}
  /\ captured \in BOOLEAN
  /\ live \in Seq(LiveEvent)
  /\ processed \in BOOLEAN
  /\ touch \in TouchState

\* Whether the contact is down just before the i-th event of the deque is
\* applied.
DownBefore(i) == IF i = 1 THEN touch.down ELSE live[i - 1].action # "Up"

\* Contacts reach the state whole and in order, whatever the second finger
\* does: the deque holds whole contacts (down, moves, up) that continue the
\* state of the panel, and they end where the followed finger is.  So no move
\* or release is ever applied to another contact, and the panel cannot stay
\* touched after the finger has gone.
ContactsWhole ==
  FingersOnly =>
    /\ \A i \in 1 .. Len(live) : live[i].action = "Down" <=> ~DownBefore(i)
    /\ DownBefore(Len(live) + 1) <=> active # NoFinger

\* Whatever drives the panel, what the firmware is told of contacts goes
\* together: one release is never both a tap and a swipe; what may still become
\* a tap would be one, and no swipe, if it were let go where it is; a press seen
\* in this frame is still held or its release is seen as well; and a long press
\* while something is down is of that contact, not of an earlier one.
TapOrSwipe ==
  /\ ~(WasTap /\ WasSwipe)
  /\ IsTouchTapCandidate =>
       /\ IsTouchHeldAt
       /\ ~touch.beyondRelease /\ ~FarEnough(touch.current, touch.start)
  /\ WasTouchDown => touch.down \/ touch.released
  /\ WasTouchLongPress /\ IsTouchHeldAt => HeldFor(now, touch.pressedAt) >= LongPress

\* A press the strip took never becomes a touch, from its press to its release:
\* driven by the mouse alone, the panel is never touched while the strip holds
\* the mouse.
StripPressIsNotTouch ==
  sources = {"mouse"} => ~(captured /\ touch.down)

\* A finger that has left the panel leaves it untouched in the end.
ContactEnds ==
  FingersOnly =>
    ((\A f \in Finger : ~onPanel[f])
       ~> (~touch.down \/ \E f \in Finger : onPanel[f]))

=============================================================================
