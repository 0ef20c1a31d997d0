----------------------------- MODULE ButtonInput -----------------------------
(***************************************************************************)
(* The button latches of HalGPIO (src/HalGPIO.cpp) and the live injection  *)
(* of the on-screen keys (SimulatorInput, same file).                      *)
(*                                                                         *)
(* A press reaches the firmware as an edge latched for one whole frame     *)
(* (wasPressed, wasReleased) and as a level (isPressed).  Four sources     *)
(* write the same latches: the on-screen key strip, whose presses and      *)
(* releases travel through SDL's event queue; the host keyboard; the input *)
(* script; and the S key, which holds Power down.  A strip key let go in   *)
(* the frame it went down has its release held back until the next         *)
(* beginFrame().                                                           *)
(*                                                                         *)
(* update() is modelled one polled event at a time, because other threads  *)
(* read the level (anyButtonDownRaw) and push events in between.           *)
(***************************************************************************)
EXTENDS Naturals, Sequences

CONSTANTS
  Button,          \* the indices 0 .. NUM_BUTTONS - 1
  StripButtons,    \* buttons the strip draws a key for
  KeyboardButtons, \* buttons pressed on the host keyboard
  ScriptButtons,   \* buttons named in CROSSPOINT_SIM_INPUT_SCRIPT
  Power,           \* BTN_POWER
  SleepKey,        \* TRUE when the S shortcut may be used
  MaxQueue         \* bound: events waiting in SDL's queue

ASSUME ButtonAssumption ==
  /\ StripButtons \subseteq Button
  /\ KeyboardButtons \subseteq Button
  /\ ScriptButtons \subseteq Button
  /\ Power \in Button
  /\ SleepKey \in BOOLEAN
  /\ MaxQueue \in Nat \ {0}

VARIABLES
  phase,          \* where the main thread is within a frame
  queue,          \* SDL's event queue, button events only
  toPoll,         \* queued events the current update() is sure to poll
  pressed,        \* pressedThisFrame[]
  released,       \* releasedThisFrame[]
  synthDown,      \* syntheticButtonDown[]
  releasePending, \* buttonReleasePending[]
  downThisFrame,  \* buttonDownFrame[] = inputFrameCounter
  keyLevel,       \* SDL_GetKeyboardState()
  finger,         \* a finger or the mouse holds the strip key
  seen            \* the key is down, judging by the edges of past frames

vars == <<phase, queue, toPoll, pressed, released, synthDown, releasePending,
          downThisFrame, keyLevel, finger, seen>>

latches == <<pressed, released, synthDown, releasePending, downThisFrame>>

-----------------------------------------------------------------------------
(* Events.                                                                 *)

Event ==
  [src : {"strip"}, button : StripButtons, down : BOOLEAN]
    \cup [src : {"keyboard"}, button : KeyboardButtons, down : BOOLEAN]
    \cup IF SleepKey THEN [src : {"sleep"}, button : {Power}, down : {TRUE}]
                     ELSE {}

Strip(b, d)    == [src |-> "strip",    button |-> b, down |-> d]
Keyboard(b, d) == [src |-> "keyboard", button |-> b, down |-> d]
Sleep          == [src |-> "sleep", button |-> Power, down |-> TRUE]

Push(e) == Len(queue) < MaxQueue /\ queue' = Append(queue, e)

Phases == {"loop", "poll", "script", "boundary"}

-----------------------------------------------------------------------------
(* setup() runs before the first beginFrame(): both counters are still 0,  *)
(* so every button counts as pressed in the current frame.                 *)

AllOff == [b \in Button |-> FALSE]

Init ==
  /\ phase = "loop"
  /\ queue = <<>>
  /\ toPoll = 0
  /\ pressed = AllOff
  /\ released = AllOff
  /\ synthDown = AllOff
  /\ releasePending = AllOff
  /\ downThisFrame = [b \in Button |-> TRUE]
  /\ keyLevel = AllOff
  /\ finger = AllOff
  /\ seen = AllOff

-----------------------------------------------------------------------------
(* The user.                                                               *)

\* A strip key goes down or up, and pushes a user event.  Both strips (the
\* SDL one and the SwiftUI one) send an up for every down.
StripPress(b) ==
  /\ b \in StripButtons
  /\ ~finger[b]
  /\ finger' = [finger EXCEPT ![b] = TRUE]
  /\ Push(Strip(b, TRUE))
  /\ UNCHANGED <<phase, toPoll, latches, keyLevel, seen>>

StripLift(b) ==
  /\ b \in StripButtons
  /\ finger[b]
  /\ finger' = [finger EXCEPT ![b] = FALSE]
  /\ Push(Strip(b, FALSE))
  /\ UNCHANGED <<phase, toPoll, latches, keyLevel, seen>>

\* SDL reads the keyboard only while it pumps events, inside SDL_PollEvent.
KeyboardChange(b) ==
  /\ b \in KeyboardButtons
  /\ phase = "poll"
  /\ keyLevel' = [keyLevel EXCEPT ![b] = ~@]
  /\ Push(Keyboard(b, ~keyLevel[b]))
  /\ UNCHANGED <<phase, toPoll, latches, finger, seen>>

PressSleepKey ==
  /\ SleepKey
  /\ phase = "poll"
  /\ Push(Sleep)
  /\ UNCHANGED <<phase, toPoll, latches, keyLevel, finger, seen>>

-----------------------------------------------------------------------------
(* HalGPIO::update(): drain the queue, run the script, return.             *)

BeginUpdate ==
  /\ phase = "loop"
  /\ phase' = "poll"
  /\ toPoll' = Len(queue)
  /\ UNCHANGED <<queue, latches, keyLevel, finger, seen>>

\* Variant: a new press forgets to drop the release still pending.
PollStripDownKeepingRelease(b) ==
  /\ pressed' = [pressed EXCEPT ![b] = TRUE]
  /\ synthDown' = [synthDown EXCEPT ![b] = TRUE]
  /\ downThisFrame' = [downThisFrame EXCEPT ![b] = TRUE]
  /\ UNCHANGED <<released, releasePending>>

\* LiveButtonDown.  A release still pending is dropped: the press renews it.
PollStripDown(b) ==
  /\ pressed' = [pressed EXCEPT ![b] = TRUE]
  /\ synthDown' = [synthDown EXCEPT ![b] = TRUE]
  /\ downThisFrame' = [downThisFrame EXCEPT ![b] = TRUE]
  /\ releasePending' = [releasePending EXCEPT ![b] = FALSE]
  /\ UNCHANGED released

\* applyButtonUp()
ApplyButtonUp(b) ==
  /\ released' = [released EXCEPT ![b] = TRUE]
  /\ synthDown' = [synthDown EXCEPT ![b] = FALSE]

\* Variant: the release is never held back.
PollStripUpAtOnce(b) ==
  /\ ApplyButtonUp(b)
  /\ UNCHANGED <<pressed, releasePending, downThisFrame>>

\* LiveButtonUp: held back when the press belongs to this very frame.
PollStripUp(b) ==
  /\ \/ /\ downThisFrame[b]
        /\ releasePending' = [releasePending EXCEPT ![b] = TRUE]
        /\ UNCHANGED <<released, synthDown>>
     \/ /\ ~downThisFrame[b]
        /\ ApplyButtonUp(b)
        /\ UNCHANGED releasePending
  /\ UNCHANGED <<pressed, downThisFrame>>

\* SDL_KEYDOWN and SDL_KEYUP of a mapped key: edges only, the level is SDL's.
PollKeyboard(b, d) ==
  /\ pressed' = IF d THEN [pressed EXCEPT ![b] = TRUE] ELSE pressed
  /\ released' = IF d THEN released ELSE [released EXCEPT ![b] = TRUE]
  /\ UNCHANGED <<synthDown, releasePending, downThisFrame>>

\* A press that did not come through the queue as a strip event: the script's
\* KeyDown, and requestSimulatorSleep().
SynthPress(b) ==
  /\ pressed' = [pressed EXCEPT ![b] = TRUE]
  /\ synthDown' = [synthDown EXCEPT ![b] = TRUE]
  /\ UNCHANGED <<released, releasePending, downThisFrame>>

Handle(e) ==
  \/ e.src = "strip" /\ e.down  /\ PollStripDown(e.button)
  \/ e.src = "strip" /\ ~e.down /\ PollStripUp(e.button)
  \/ e.src = "keyboard" /\ PollKeyboard(e.button, e.down)
  \/ e.src = "sleep" /\ SynthPress(Power)

PollEvent ==
  /\ phase = "poll"
  /\ queue # <<>>
  /\ Handle(Head(queue))
  /\ queue' = Tail(queue)
  /\ toPoll' = IF toPoll > 0 THEN toPoll - 1 ELSE 0
  /\ UNCHANGED <<phase, keyLevel, finger, seen>>

EndPoll ==
  /\ phase = "poll"
  /\ toPoll = 0
  /\ phase' = "script"
  /\ UNCHANGED <<queue, toPoll, latches, keyLevel, finger, seen>>

\* processSyntheticEvents(), one due event at a time.
ScriptKey(b) ==
  /\ phase = "script"
  /\ b \in ScriptButtons
  /\ \/ SynthPress(b)
     \/ ApplyButtonUp(b) /\ UNCHANGED <<pressed, releasePending, downThisFrame>>
  /\ UNCHANGED <<phase, queue, toPoll, keyLevel, finger, seen>>

EndUpdate ==
  /\ phase = "script"
  /\ phase' = "loop"
  /\ UNCHANGED <<queue, toPoll, latches, keyLevel, finger, seen>>

-----------------------------------------------------------------------------
(* The frame boundary.                                                     *)

\* The firmware's loop() returns having seen this frame's edges.
EndLoop ==
  /\ phase = "loop"
  /\ phase' = "boundary"
  /\ seen' = [b \in Button |->
                IF pressed[b] THEN TRUE
                ELSE IF released[b] THEN FALSE ELSE seen[b]]
  /\ UNCHANGED <<queue, toPoll, latches, keyLevel, finger>>

\* Variant: tick() runs before the edges are cleared.
BeginFrameTickFirst ==
  /\ phase = "boundary"
  /\ phase' = "loop"
  /\ pressed' = AllOff
  /\ released' = AllOff
  /\ synthDown' = [b \in Button |-> synthDown[b] /\ ~releasePending[b]]
  /\ releasePending' = AllOff
  /\ downThisFrame' = AllOff
  /\ UNCHANGED <<queue, toPoll, keyLevel, finger, seen>>

\* HalGPIO::beginFrame() and SimulatorInput::tick(): clear the edges, then
\* deliver the releases held back from the frame before.
BeginFrame ==
  /\ phase = "boundary"
  /\ phase' = "loop"
  /\ pressed' = AllOff
  /\ released' = releasePending
  /\ synthDown' = [b \in Button |-> synthDown[b] /\ ~releasePending[b]]
  /\ releasePending' = AllOff
  /\ downThisFrame' = AllOff
  /\ UNCHANGED <<queue, toPoll, keyLevel, finger, seen>>

-----------------------------------------------------------------------------

User ==
  \/ \E b \in Button : StripPress(b) \/ StripLift(b) \/ KeyboardChange(b)
  \/ PressSleepKey

Main ==
  \/ BeginUpdate
  \/ PollEvent
  \/ EndPoll
  \/ \E b \in Button : ScriptKey(b)
  \/ EndUpdate
  \/ EndLoop
  \/ BeginFrame

Next == User \/ Main

Spec == Init /\ [][Next]_vars

\* The firmware's loop() calls update() at least once and returns; the main
\* loop always comes round again.  Nothing makes a user or a script act.
Fairness ==
  /\ WF_vars(PollEvent /\ toPoll > 0)
  /\ WF_vars(EndPoll)
  /\ WF_vars(EndUpdate)
  /\ WF_vars(BeginFrame)
  /\ SF_vars(BeginUpdate)
  /\ SF_vars(EndLoop)

FairSpec == Spec /\ Fairness

-----------------------------------------------------------------------------
(* Properties.                                                             *)

\* Buttons only the strip's events can move the level of.
StripOwned ==
  (StripButtons \ ScriptButtons) \ (IF SleepKey THEN {Power} ELSE {})

\* Buttons nothing but the strip presses.
StripOnly == StripOwned \ KeyboardButtons

\* Every latch holds a value of its type.
TypeOK ==
  /\ phase \in Phases
  /\ queue \in Seq(Event)
  /\ toPoll \in 0 .. Len(queue)
  /\ pressed \in [Button -> BOOLEAN]
  /\ released \in [Button -> BOOLEAN]
  /\ synthDown \in [Button -> BOOLEAN]
  /\ releasePending \in [Button -> BOOLEAN]
  /\ downThisFrame \in [Button -> BOOLEAN]
  /\ keyLevel \in [Button -> BOOLEAN]
  /\ finger \in [Button -> BOOLEAN]
  /\ seen \in [Button -> BOOLEAN]

\* The positions of the strip events of b in q.
StripAt(q, b) ==
  {i \in 1 .. Len(q) : q[i].src = "strip" /\ q[i].button = b}

\* The strip events of b in q, taken in order, turn the level lo into hi, each
\* of them changing it.
Alternates(q, b, lo, hi) ==
  /\ StripAt(q, b) = {} => lo = hi
  /\ \A i \in StripAt(q, b) :
       /\ (\A j \in StripAt(q, b) : j <= i) => q[i].down = hi
       /\ (\A j \in StripAt(q, b) : i <= j) => q[i].down = ~lo
       /\ \A j \in StripAt(q, b) :
            (i < j /\ \A k \in StripAt(q, b) : k <= i \/ j <= k)
              => q[j].down = ~q[i].down

\* The level once a release held back has been delivered.
Settled(b) == synthDown[b] /\ ~releasePending[b]

\* What the firmware reads, from whichever thread.
WasPressed(b) == pressed[b]
IsPressed(b) == keyLevel[b] \/ synthDown[b]
AnyButtonDownRaw == \E b \in Button : IsPressed(b)

\* No press or release of a strip key is ever lost or applied twice between
\* the finger and the level: the newest word on the key (the last event
\* queued for it, else the level less a release held back) is what the finger
\* does, and the events waiting alternate.  A key cannot stick.
FingerAccounted ==
  \A b \in StripOwned : Alternates(queue, b, Settled(b), finger[b])

\* A strip key whose press the firmware can see in this frame is down for the
\* rest of the frame, however soon it was let go, and whichever thread looks,
\* for this key or for any: this is what holding the release back is for.
PressSpansFrame ==
  \A b \in StripOnly : WasPressed(b) => IsPressed(b) /\ AnyButtonDownRaw

\* A release is held back only for a key that is still reported down, and
\* only across the boundary of the frame the press was in.
HeldBackOnlyWhileDown ==
  \A b \in StripOwned :
    releasePending[b] => synthDown[b] /\ downThisFrame[b]

\* What the edges of past frames told the firmware is the level: nobody who
\* follows the edges alone ever believes a strip key up while it is down or
\* down while it is up.
EdgesTellLevel ==
  phase = "boundary" => \A b \in StripOnly : seen[b] = synthDown[b]

\* What the firmware will believe if the frame ends now.
BelievedDown(b) ==
  IF pressed[b] THEN TRUE ELSE IF released[b] THEN FALSE ELSE seen[b]

\* The inductive strengthening of the invariants above: within a frame the
\* edges raised so far, on top of what the firmware believed before, add up to
\* the level, and a strip key went down in this frame exactly if its press is
\* latched and it is still down.
InFrame ==
  \A b \in StripOnly :
    /\ pressed[b] => downThisFrame[b] /\ synthDown[b]
    /\ downThisFrame[b] /\ synthDown[b] => pressed[b]
    /\ phase # "boundary" =>
         /\ BelievedDown(b) = synthDown[b]
         /\ released[b] => seen[b]
         /\ pressed[b] /\ ~released[b] => ~seen[b]

IInv ==
  /\ TypeOK
  /\ FingerAccounted
  /\ HeldBackOnlyWhileDown
  /\ InFrame
  /\ EdgesTellLevel

\* Edge latches survive the whole frame, however often update() runs in it:
\* only beginFrame() lowers one.
EdgesLatched ==
  [][phase # "boundary" =>
       \A b \in Button : (pressed[b] => pressed'[b])
                           /\ (released[b] => released'[b])]_vars

\* Frame by frame the firmware sees the edges of a strip key alternate: no
\* release of a key it believes up, and no second press without a release.
EdgesAlternate ==
  [][EndLoop => \A b \in StripOnly :
       /\ released[b] => seen[b]
       /\ pressed[b] /\ ~released[b] => ~seen[b]]_vars

\* A strip key let go and left alone is seen released.
EveryReleaseSeen ==
  \A b \in StripOnly : (~finger[b] ~> (~seen[b] \/ finger[b]))

=============================================================================
