------------------------------- MODULE AppLoop -------------------------------
(***************************************************************************)
(* The life of the simulator process: setup() and the frame loop           *)
(* (src/simulator_main.cpp), going to the background on iOS and deep sleep *)
(* (src/HalGPIO.cpp), and the relaunch that stands for a wake              *)
(* (src/SimulatorLifecycle.cpp), which passes what must survive it through *)
(* environment variables.                                                  *)
(*                                                                         *)
(* Only the main thread acts, so an update() and a round of the sleep loop *)
(* are one step each; the user, the host and the clock come in between.    *)
(***************************************************************************)
EXTENDS Naturals, Sequences

CONSTANTS
  InputScript, \* CROSSPOINT_SIM_INPUT_SCRIPT at launch
  AfterWake,   \* CROSSPOINT_SIM_INPUT_SCRIPT_AFTER_WAKE; <<>> when not set
  Phone,       \* TRUE when the host may send the app to the background
  MaxQueue     \* bound: SDL events not polled yet

\* A scheduled action is numbered, so that running one twice can be told.
Actions == {"KeyDown", "KeyUp", "Sleep", "Quit"}
Entry == [id : Nat, action : Actions]

ASSUME AppAssumption ==
  /\ InputScript \in Seq(Entry)
  /\ AfterWake \in Seq(Entry)
  /\ Phone \in BOOLEAN
  /\ MaxQueue \in Nat \ {0}

\* The numbers tell the scheduled actions apart.
ASSUME NumberedApart ==
  /\ \A i, j \in DOMAIN InputScript : InputScript[i].id = InputScript[j].id => i = j
  /\ \A i, j \in DOMAIN AfterWake : AfterWake[i].id = AfterWake[j].id => i = j
  /\ \A i \in DOMAIN InputScript, j \in DOMAIN AfterWake :
       InputScript[i].id # AfterWake[j].id

VARIABLES
  at,           \* where the process is
  queue,        \* SDL's event queue
  quit,         \* quitRequested
  backgrounded, \* backgrounded
  level,        \* syntheticButtonDown[BTN_POWER]
  script,       \* syntheticEvents not handled yet, in order of time
  env,          \* the environment variables a relaunch reads
  foreground,   \* the host shows the app
  woken,        \* this process was relaunched by a wake
  reports,      \* times getWakeupReason() said PowerButton in this process
  fired         \* ids of the scheduled actions run so far, in any process

vars == <<at, queue, quit, backgrounded, level, script, env, foreground, woken,
          reports, fired>>

world   == <<foreground>>
history == <<woken, reports, fired>>

\* A key of scancodeToButton(), H, S, a press on the on-screen strip.
WakeKeys == {"button"}
Keys     == WakeKeys \cup {"h", "s", "strip"}
Events   == Keys \cup {"quit", "willBackground", "didForeground"}

Init ==
  /\ at = "setup"
  /\ queue = <<>>
  /\ quit = FALSE
  /\ backgrounded = FALSE
  /\ level = FALSE
  /\ script = InputScript
  /\ env = [script |-> InputScript, afterWake |-> AfterWake, wake |-> FALSE]
  /\ foreground = TRUE
  /\ woken = FALSE
  /\ reports = 0
  /\ fired = {}

-----------------------------------------------------------------------------
(* The user and the host.                                                  *)

Push(e) == Len(queue) < MaxQueue /\ queue' = Append(queue, e)

UserEvent ==
  /\ at # "exited"
  /\ \E e \in Keys \cup {"quit"} : Push(e)
  /\ UNCHANGED <<at, quit, backgrounded, level, script, env, world, history>>

SwitchApp ==
  /\ Phone
  /\ at # "exited"
  /\ Push(IF foreground THEN "willBackground" ELSE "didForeground")
  /\ foreground' = ~foreground
  /\ UNCHANGED <<at, quit, backgrounded, level, script, env, history>>

-----------------------------------------------------------------------------
(* The script.                                                             *)

Prefix(n) == SubSeq(script, 1, n)

Runs(s, action) == \E i \in DOMAIN s : s[i].action = action

IsPress(e) == e.action \in {"KeyDown", "Sleep"}
MovesLevel(e) == IsPress(e) \/ e.action = "KeyUp"

\* The level after the actions s, l being the level before them.
LevelAfter(s, l) ==
  LET moves == SelectSeq(s, MovesLevel)
  IN  IF moves = <<>> THEN l ELSE IsPress(moves[Len(moves)])

\* processSyntheticEvents(): the first n actions are due, all in one call.
Handled(n) == fired' = fired \cup {script[i].id : i \in 1 .. n}
Rest(n)    == SubSeq(script, n + 1, Len(script))

-----------------------------------------------------------------------------
(* Frames.                                                                 *)

\* consumeWakeReason(): the variable is read once and removed.
ConsumeWakeReason == reports' = reports + (IF env.wake THEN 1 ELSE 0)
                     /\ env' = [env EXCEPT !.wake = FALSE]

\* Bound: the firmware stops asking once it was told twice.
MaxReports == 2

\* The firmware asks why it was started; it may ask again.
AskWakeReason ==
  /\ at \in {"setup", "frame"}
  /\ reports < MaxReports
  /\ ConsumeWakeReason
  /\ UNCHANGED <<at, queue, quit, backgrounded, level, script, world, woken,
                 fired>>

EndSetup ==
  /\ at = "setup"
  /\ at' = "top"
  /\ UNCHANGED <<queue, quit, backgrounded, level, script, env, world, history>>

\* while (!display.shouldQuit()): quitting comes before the background check,
\* which starts no frame and polls nothing.
Top ==
  /\ at = "top"
  /\ \/ quit /\ at' = "exited"
     \/ ~quit /\ ~backgrounded /\ at' = "frame"
  /\ UNCHANGED <<queue, quit, backgrounded, level, script, env, world, history>>

IsSwitch(e) == e \in {"willBackground", "didForeground"}

BackgroundedAfter(q) ==
  LET switches == SelectSeq(q, IsSwitch)
  IN  IF switches = <<>> THEN backgrounded
      ELSE switches[Len(switches)] = "willBackground"

Queued(e) == \E i \in DOMAIN queue : queue[i] = e

\* HalGPIO::update()
Update ==
  /\ at = "frame"
  /\ queue' = <<>>
  /\ backgrounded' = BackgroundedAfter(queue)
  /\ \E n \in 0 .. Len(script) :
       /\ Handled(n)
       /\ script' = Rest(n)
       /\ quit' = (quit \/ Queued("quit") \/ Runs(Prefix(n), "Quit"))
       /\ level' = LevelAfter(Prefix(n), level \/ Queued("s"))
  /\ UNCHANGED <<at, env, world, woken, reports>>

\* loop() returns, and presentIfNeeded() with it.
EndLoop ==
  /\ at = "frame"
  /\ at' = "top"
  /\ UNCHANGED <<queue, quit, backgrounded, level, script, env, world, history>>

-----------------------------------------------------------------------------
(* Deep sleep.                                                             *)

\* startDeepSleep(): whatever put the device to sleep must not wake it.
Sleep ==
  /\ at = "frame"
  /\ at' = "asleep"
  /\ level' = FALSE
  /\ UNCHANGED <<queue, quit, backgrounded, script, env, world, history>>

\* Variant: without a schedule for after the wake the old one stays.
PromoteIfSet ==
  LET next == IF env.afterWake = <<>> THEN env.script ELSE env.afterWake
  IN  /\ script' = next
      /\ env' = [script |-> next, afterWake |-> <<>>, wake |-> TRUE]

\* promoteAfterWakeValue(): the schedule of this run is never the next one's.
PromoteAfterWake ==
  /\ script' = env.afterWake
  /\ env' = [script |-> env.afterWake, afterWake |-> <<>>, wake |-> TRUE]

\* rebootAsPowerWake(): everything in memory is gone; or exec fails.
Reboot ==
  /\ at' \in {"setup", "exited"}
  /\ queue' = <<>>
  /\ quit' = FALSE
  /\ backgrounded' = FALSE
  /\ level' = FALSE
  /\ PromoteAfterWake
  /\ woken' = TRUE
  /\ reports' = 0

\* Variant: the sleep loop does not return to quit.
SleepScriptIgnoringQuit ==
  /\ at = "asleep"
  /\ at' = "asleepPoll"
  /\ \E n \in 0 .. Len(script) : Handled(n) /\ script' = Rest(n)
  /\ UNCHANGED <<queue, quit, backgrounded, level, env, woken, reports, world>>

\* A round of the sleep loop first runs the script.  A press wakes unless the
\* round also quits; the firmware gets control back only to quit.
SleepScript ==
  /\ at = "asleep"
  /\ \E n \in 0 .. Len(script) :
       LET quits == quit \/ Runs(Prefix(n), "Quit")
           down  == LevelAfter(Prefix(n), level)
       IN  /\ Handled(n)
           /\ \/ /\ quits
                 /\ at' = "frame"
                 /\ quit' = TRUE /\ level' = down /\ script' = Rest(n)
                 /\ UNCHANGED <<queue, backgrounded, env, woken, reports>>
              \/ /\ ~quits /\ down
                 /\ Reboot
              \/ /\ ~quits /\ ~down
                 /\ at' = "asleepPoll"
                 /\ level' = FALSE /\ script' = Rest(n)
                 /\ UNCHANGED <<queue, quit, backgrounded, env, woken, reports>>
  /\ UNCHANGED world

\* Variant: no key ends the sleep.
EndsByQuitting(e) == e = "quit"

EndsSleep(e) == e = "quit" \/ e \in WakeKeys

NoEnding == \A i \in DOMAIN queue : ~EndsSleep(queue[i])

FirstEnding ==
  CHOOSE i \in DOMAIN queue :
    EndsSleep(queue[i]) /\ \A j \in 1 .. i - 1 : ~EndsSleep(queue[j])

\* Then it polls SDL, up to the first event that ends the sleep.  All other
\* events are dropped.
SleepPoll ==
  /\ at = "asleepPoll"
  /\ \/ /\ NoEnding
        /\ at' = "asleep"
        /\ queue' = <<>>
        /\ UNCHANGED <<quit, backgrounded, level, script, env, woken, reports>>
     \/ /\ ~NoEnding /\ queue[FirstEnding] = "quit"
        /\ at' = "frame"
        /\ quit' = TRUE
        /\ queue' = SubSeq(queue, FirstEnding + 1, Len(queue))
        /\ UNCHANGED <<backgrounded, level, script, env, woken, reports>>
     \/ /\ ~NoEnding /\ queue[FirstEnding] # "quit"
        /\ Reboot
  /\ UNCHANGED <<world, fired>>

-----------------------------------------------------------------------------

World == UserEvent \/ SwitchApp

Main ==
  \/ AskWakeReason \/ EndSetup \/ Top \/ Update \/ EndLoop
  \/ Sleep \/ SleepScript \/ SleepPoll

Next == World \/ Main

Spec == Init /\ [][Next]_vars

\* setup() and loop() return, every loop() calls update(), and the sleep loop
\* goes round.  The user, the host and going to sleep are up to chance.
Fairness ==
  /\ WF_vars(EndSetup)
  /\ WF_vars(Top)
  /\ SF_vars(Update)
  /\ SF_vars(EndLoop)
  /\ WF_vars(SleepScript)
  /\ WF_vars(SleepPoll)

FairSpec == Spec /\ Fairness

-----------------------------------------------------------------------------
(* Properties.                                                             *)

Asleep == at \in {"asleep", "asleepPoll"}

TypeOK ==
  /\ at \in {"setup", "top", "frame", "asleep", "asleepPoll", "exited"}
  /\ queue \in Seq(Events)
  /\ {quit, backgrounded, level, foreground, woken, env.wake} \subseteq BOOLEAN
  /\ {script, env.script, env.afterWake} \subseteq Seq(Entry)
  /\ reports \in 0 .. 1
  /\ fired \subseteq {InputScript[i].id : i \in DOMAIN InputScript}
                \cup {AfterWake[i].id : i \in DOMAIN AfterWake}

\* What a relaunch carries over is used once.  README.md: "The pre-sleep
\* schedules are cleared during relaunch so they cannot repeat forever": through
\* any number of sleeps and wakes no action of a schedule is run a second time,
\* and the firmware is told of a power wake at most once per relaunch, and never
\* when the process was not started by a wake.
CarriedOverOnce ==
  /\ \A i \in DOMAIN script : script[i].id \notin fired
  /\ reports <= (IF woken THEN 1 ELSE 0)

\* Once quitting is requested the process ends, whatever it is doing: in the
\* background, in deep sleep, with a wake press in the same round.
QuitEnds == quit ~> (at = "exited")

\* A press of a button key during deep sleep is never lost: the sleep ends.
ButtonKeyWakes == (Asleep /\ Queued("button")) ~> ~Asleep

=============================================================================
