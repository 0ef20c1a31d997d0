---------------------------- MODULE HomeKeyInput ----------------------------
(***************************************************************************)
(* The capacitive Home key of the X4 Pro (src/HalGPIO.cpp): one press is   *)
(* reported as a tap when it ends early, or as a long press once it has    *)
(* been down long enough.  The key is worked from the on-screen strip      *)
(* (events through SDL's queue, release held back within the press frame), *)
(* from H on the keyboard, and from the input script.                      *)
(*                                                                         *)
(* Time is kept as ages, capped at LongPress: every test in the code       *)
(* compares an age with that threshold.                                    *)
(***************************************************************************)
EXTENDS Naturals, Sequences

CONSTANTS
  LongPress,  \* HOME_KEY_LONG_PRESS_MS, in ticks
  Sources,    \* sets of sources, besides the strip, used together in a session
  MaxQueue    \* bound: Home events waiting in SDL's queue

ASSUME HomeAssumption ==
  /\ LongPress \in Nat \ {0}
  /\ Sources \subseteq SUBSET {"keyboard", "script"}
  /\ MaxQueue \in Nat \ {0}

VARIABLES
  sources,        \* the sources used in this session
  phase,          \* where the main thread is within a frame
  queue,          \* SDL's event queue, Home events only
  toPoll,         \* queued events the current update() is sure to poll
  down,           \* homeKeyDown
  pressed,        \* homeKeyPressedThisFrame
  tapped,         \* homeKeyTappedThisFrame
  longPressed,    \* homeKeyLongPressedThisFrame
  longFired,      \* homeKeyLongFired
  age,            \* SDL_GetTicks() - homeKeyPressedAt, capped at LongPress
  downThisFrame,  \* homeKeyDownThisFrame
  releasePending, \* homeKeyReleasePending
  finger,         \* a finger holds the strip's Home key
  hKey,           \* H is down on the keyboard
  report          \* what the press begun last has been reported as

sdl   == <<queue, toPoll>>
edges == <<pressed, tapped, longPressed>>
key   == <<down, longFired, age, report>>
defer == <<downThisFrame, releasePending>>
hands == <<finger, hKey>>
vars  == <<sources, phase, sdl, edges, key, defer, hands>>

Events == {"liveDown", "liveUp", "keyDown", "keyUp"}

Capped(n) == IF n < LongPress THEN n + 1 ELSE n

Init ==
  /\ sources \in Sources
  /\ phase = "loop"
  /\ queue = <<>> /\ toPoll = 0
  /\ pressed = FALSE /\ tapped = FALSE /\ longPressed = FALSE
  /\ down = FALSE /\ longFired = FALSE /\ age = 0 /\ report = "none"
  /\ downThisFrame = FALSE /\ releasePending = FALSE
  /\ finger = FALSE /\ hKey = FALSE

-----------------------------------------------------------------------------
(* The world: fingers, the keyboard, the clock.                            *)

Push(e) == Len(queue) < MaxQueue /\ queue' = Append(queue, e)

FingerDown ==
  /\ ~finger
  /\ finger' = TRUE
  /\ Push("liveDown")
  /\ UNCHANGED <<sources, phase, toPoll, edges, key, defer, hKey>>

FingerUp ==
  /\ finger
  /\ finger' = FALSE
  /\ Push("liveUp")
  /\ UNCHANGED <<sources, phase, toPoll, edges, key, defer, hKey>>

KeyH ==
  /\ "keyboard" \in sources
  /\ phase = "poll"
  /\ hKey' = ~hKey
  /\ Push(IF hKey THEN "keyUp" ELSE "keyDown")
  /\ UNCHANGED <<sources, phase, toPoll, edges, key, defer, finger>>

Elapse ==
  /\ age' = IF down THEN Capped(age) ELSE age
  /\ UNCHANGED <<sources, phase, sdl, edges, down, longFired, report, defer, hands>>

-----------------------------------------------------------------------------
(* The three functions every source goes through.                          *)

\* beginHomeKey(): ignored while the key is already down.
BeginHomeKey ==
  \/ down /\ UNCHANGED <<edges, key>>
  \/ /\ ~down
     /\ down' = TRUE
     /\ pressed' = TRUE
     /\ longFired' = FALSE
     /\ age' = 0
     /\ report' = "none"
     /\ UNCHANGED <<tapped, longPressed>>

\* Variant: the end of a press looks only at how long it lasted.
EndHomeKeyByAge ==
  \/ ~down /\ UNCHANGED <<edges, key>>
  \/ /\ down
     /\ down' = FALSE
     /\ tapped' = TRUE /\ report' = "tap"
     /\ UNCHANGED <<pressed, longPressed, longFired, age>>

\* endHomeKey(): a tap if no long press was reported and none is due.
EndHomeKey ==
  \/ ~down /\ UNCHANGED <<edges, key>>
  \/ /\ down
     /\ down' = FALSE
     /\ IF ~longFired /\ age < LongPress
          THEN tapped' = TRUE /\ report' = "tap"
          ELSE UNCHANGED <<tapped, report>>
     /\ UNCHANGED <<pressed, longPressed, longFired, age>>

\* updateHomeKeyHold(): due once, while the key is still down.
LongPressDue == down /\ ~longFired /\ age >= LongPress

-----------------------------------------------------------------------------
(* HalGPIO::update().                                                      *)

BeginUpdate ==
  /\ phase = "loop"
  /\ phase' = "poll"
  /\ toPoll' = Len(queue)
  /\ UNCHANGED <<sources, queue, edges, key, defer, hands>>

LiveHomeDown ==
  /\ BeginHomeKey
  /\ downThisFrame' = TRUE
  /\ releasePending' = FALSE

LiveHomeUp ==
  \/ downThisFrame /\ releasePending' = TRUE
       /\ UNCHANGED <<edges, key, downThisFrame>>
  \/ ~downThisFrame /\ EndHomeKey /\ UNCHANGED defer

Handle(e) ==
  \/ e = "liveDown" /\ LiveHomeDown
  \/ e = "liveUp" /\ LiveHomeUp
  \/ e = "keyDown" /\ BeginHomeKey /\ UNCHANGED defer
  \/ e = "keyUp" /\ EndHomeKey /\ UNCHANGED defer

PollEvent ==
  /\ phase = "poll"
  /\ queue # <<>>
  /\ Handle(Head(queue))
  /\ queue' = Tail(queue)
  /\ toPoll' = IF toPoll > 0 THEN toPoll - 1 ELSE 0
  /\ UNCHANGED <<sources, phase, hands>>

EndPoll ==
  /\ phase = "poll"
  /\ toPoll = 0
  /\ phase' = "script"
  /\ UNCHANGED <<sources, sdl, edges, key, defer, hands>>

\* processSyntheticEvents(): HomeDown and HomeUp.
ScriptHome ==
  /\ "script" \in sources
  /\ phase = "script"
  /\ BeginHomeKey \/ EndHomeKey
  /\ UNCHANGED <<sources, phase, sdl, defer, hands>>

\* Variant: a hold is timed only in the frame the key went down.
EndUpdateFirstFrame ==
  /\ phase = "script"
  /\ phase' = "loop"
  /\ longFired' = (longFired \/ (LongPressDue /\ pressed))
  /\ longPressed' = (longPressed \/ (LongPressDue /\ pressed))
  /\ report' = IF LongPressDue /\ pressed THEN "long" ELSE report
  /\ UNCHANGED <<sources, sdl, pressed, tapped, down, age, defer, hands>>

\* update() ends with updateHomeKeyHold().
EndUpdate ==
  /\ phase = "script"
  /\ phase' = "loop"
  /\ longFired' = (longFired \/ LongPressDue)
  /\ longPressed' = (longPressed \/ LongPressDue)
  /\ report' = IF LongPressDue THEN "long" ELSE report
  /\ UNCHANGED <<sources, sdl, pressed, tapped, down, age, defer, hands>>

-----------------------------------------------------------------------------
(* The frame boundary.                                                     *)

EndLoop ==
  /\ phase = "loop"
  /\ phase' = "boundary"
  /\ UNCHANGED <<sources, sdl, edges, key, defer, hands>>

\* beginFrame() clears the edges; tick() then ends a press held back.
BeginFrame ==
  /\ phase = "boundary"
  /\ phase' = "loop"
  /\ pressed' = FALSE
  /\ longPressed' = FALSE
  /\ \/ /\ releasePending /\ down
        /\ down' = FALSE
        /\ tapped' = (~longFired /\ age < LongPress)
        /\ report' = IF ~longFired /\ age < LongPress THEN "tap" ELSE report
     \/ /\ ~(releasePending /\ down)
        /\ tapped' = FALSE
        /\ UNCHANGED <<down, report>>
  /\ releasePending' = FALSE
  /\ downThisFrame' = FALSE
  /\ UNCHANGED <<sources, sdl, longFired, age, hands>>

Next ==
  \/ FingerDown \/ FingerUp \/ KeyH \/ Elapse
  \/ BeginUpdate \/ PollEvent \/ EndPoll \/ ScriptHome \/ EndUpdate
  \/ EndLoop \/ BeginFrame

Spec == Init /\ [][Next]_vars

\* The main loop keeps running frames with an update() in each, and the clock
\* runs.  No user or script has to act.
Fairness ==
  /\ WF_vars(Elapse)
  /\ WF_vars(PollEvent /\ toPoll > 0)
  /\ WF_vars(EndPoll)
  /\ WF_vars(EndUpdate)
  /\ WF_vars(BeginFrame)
  /\ SF_vars(BeginUpdate)
  /\ SF_vars(EndLoop)

FairSpec == Spec /\ Fairness

-----------------------------------------------------------------------------
(* Properties.                                                             *)

StripOnly == sources = {}

TypeOK ==
  /\ sources \in Sources
  /\ phase \in {"loop", "poll", "script", "boundary"}
  /\ queue \in Seq(Events)
  /\ toPoll \in 0 .. Len(queue)
  /\ {down, pressed, tapped, longPressed, longFired, downThisFrame,
      releasePending, finger, hKey} \subseteq BOOLEAN
  /\ age \in 0 .. LongPress
  /\ report \in {"none", "tap", "long"}

\* However the sources interleave, one press of the Home key is reported at
\* most once: a long press is not reported again while it lasts, nor followed
\* by a tap when it ends.
OneReportPerPress ==
  [][(tapped' /\ ~tapped) \/ (longPressed' /\ ~longPressed)
       => report = "none" /\ report' # "none"]_vars

\* A finger that stays on the key gets its long press.
HoldBecomesLongPress ==
  StripOnly => (finger ~> ((down /\ report = "long") \/ ~finger))

=============================================================================
