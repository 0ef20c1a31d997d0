---------------------------- MODULE DeviceBoards ----------------------------
(***************************************************************************)
(* What the build chooses: the board that is simulated, the controller of  *)
(* its panel and what depends on them.  A board is stated four times, as   *)
(* macros, as a profile, in HalGPIO::begin() and in the window's title.    *)
(***************************************************************************)
EXTENDS Naturals, Integers, Sequences, FiniteSets

(***************************************************************************)
(* The flags of a build, SIMULATOR_DEVICE_... and SIMULATOR_DISPLAY_...    *)
(***************************************************************************)
DeviceFlags == {"X3", "X4_PRO", "X4_CLASSIC", "STICKY", "PAPERMONO"}
DisplayFlags == {"UC8179", "UC8279"}

Builds(flags) ==  \* none of the #errors
  /\ Cardinality(flags \cap DeviceFlags) <= 1
  /\ ~DisplayFlags \subseteq flags
  /\ ~{"X3", "UC8179"} \subseteq flags
  /\ flags \cap {"STICKY", "PAPERMONO"} = {} \/ flags \cap DisplayFlags = {}

Device(flags) ==
  IF flags \cap DeviceFlags = {} THEN "X4" ELSE CHOOSE d \in DeviceFlags : d \in flags

(***************************************************************************)
(* The macros that the firmware is compiled under.                         *)
(***************************************************************************)
CapTouch(device) == device \in {"PAPERMONO", "STICKY", "X4_PRO"}
CapFrontlight(device) == device \in {"PAPERMONO", "X4_PRO"}
McuC3(device) == device \in {"X3", "X4"}

(***************************************************************************)
(* The profiles.  The Xteink X4 family takes the controller of the build.  *)
(***************************************************************************)
X4Display(flags) ==
  CASE "UC8179" \in flags -> [controller |-> "UC8179", variant |-> 1]
    [] "UC8279" \in flags -> [controller |-> "UC8279", variant |-> 104]
    [] OTHER -> [controller |-> "SSD1677", variant |-> 0]
Fixed(controller) == [controller |-> controller, variant |-> 0]
Profile(board, display, up, down, touch) ==
  [board |-> board, display |-> display, up |-> up, down |-> down, touch |-> touch]
Profiles(flags) ==
  {Profile("XteinkX4", X4Display(flags), 4, 5, "None"),
   Profile("XteinkX3", Fixed("UC8253"), 4, 5, "None"),
   Profile("XteinkX3Uc8279", Fixed("UC8279"), 4, 5, "None"),
   Profile("XteinkX4Pro", X4Display(flags), 0, 7, "Gt911"),
   Profile("XteinkX4Classic", X4Display(flags), 0, 7, "None"),
   Profile("Sticky", Fixed("SSD1677"), 5, 6, "Gt911"),
   Profile("PaperMono", Fixed("SSD1677"), 0, 7, "Ft5x06")}

SelectDevice(flags, board) == CHOOSE p \in Profiles(flags) : p.board = board

Active(flags) ==  \* as the program starts
  SelectDevice(flags,
    CASE Device(flags) = "PAPERMONO" -> "PaperMono"
      [] Device(flags) = "STICKY" -> "Sticky"
      [] Device(flags) = "X4_PRO" -> "XteinkX4Pro"
      [] Device(flags) = "X4_CLASSIC" -> "XteinkX4Classic"
      [] Device(flags) = "X3" -> IF "UC8279" \in flags THEN "XteinkX3Uc8279" ELSE "XteinkX3"
      [] OTHER -> "XteinkX4")

Begin(flags) ==  \* HalGPIO::begin: the type that older firmware asks for, and the board
  LET device == Device(flags)
  IN [type |-> IF device = "X3" THEN "X3" ELSE "X4",
      active |-> SelectDevice(flags,
        CASE device = "PAPERMONO" -> "PaperMono"
          [] device = "STICKY" -> "Sticky"
          [] device = "X4_PRO" -> "XteinkX4Pro"
          [] device = "X4_CLASSIC" -> "XteinkX4Classic"
          [] device = "X3" /\ "UC8279" \in flags -> "XteinkX3Uc8279"
          [] device = "X3" /\ "UC8279" \notin flags -> "XteinkX3"
          [] OTHER -> "XteinkX4")]

(***************************************************************************)
(* The title of the window, a fourth place that names device and panel.    *)
(***************************************************************************)
WindowTitle(flags) ==
  [device |-> Device(flags),
   controller |->
     CASE Device(flags) \in {"PAPERMONO", "STICKY"} -> "SSD1677"
       [] Device(flags) = "X3" -> IF "UC8279" \in flags THEN "UC8279" ELSE "UC8253"
       [] "UC8179" \in flags -> "UC8179"
       [] "UC8279" \in flags -> "UC8279"
       [] OTHER -> "SSD1677"]

-----------------------------------------------------------------------------
(***************************************************************************)
(* What the HAL answers about the active board.                            *)
(***************************************************************************)
HasTouch(active) == active.touch # "None"
HasHomeKey(active) == active.board = "XteinkX4Pro"
HasPwmFrontlight(active) == active.board \in {"XteinkX4Pro", "PaperMono"}
IsXteinkDevice(active) == active.board \in {"XteinkX3", "XteinkX3Uc8279", "XteinkX4"}
HasEdgeSideButtons(active) ==
  active.board \in {"XteinkX3", "XteinkX3Uc8279", "XteinkX4Pro", "XteinkX4Classic"}
CombinesGrayscaleBase(active) == active.board = "PaperMono"
GrayscaleCapabilities(active, mode) ==
  IF mode # "Overlay" THEN [encoding |-> "Unsupported", base |-> "Separate", strips |-> FALSE]
  ELSE [encoding |-> "OverlayMasks", strips |-> TRUE,
        base |-> IF CombinesGrayscaleBase(active) THEN "Combined" ELSE "Separate"]
ClockAvailable(device) == device \in {"X3", "X4_PRO", "X4_CLASSIC", "STICKY", "PAPERMONO"}

(***************************************************************************)
(* The light in front of the panel.                                        *)
(***************************************************************************)
NoLight == [brightness |-> 60, warmth |-> 50, lit |-> FALSE]
AtMost100(n) == IF n < 100 THEN n ELSE 100
HasColorTemperature(active) == active.board = "XteinkX4Pro"
BeginLight(active, light, brightness, warmth, on) ==
  IF ~HasPwmFrontlight(active) THEN light
  ELSE [brightness |-> AtMost100(brightness), lit |-> on,
        warmth |-> IF HasColorTemperature(active) THEN AtMost100(warmth) ELSE 0]
SetBrightness(light, percent) == [light EXCEPT !.brightness = AtMost100(percent)]
SetWarmth(active, light, percent) ==
  IF HasColorTemperature(active) THEN [light EXCEPT !.warmth = AtMost100(percent)] ELSE light
SetOn(active, light, on) == [light EXCEPT !.lit = HasPwmFrontlight(active) /\ on]

(***************************************************************************)
(* The keys that SwiftUI draws, in their order, by the number they report. *)
(***************************************************************************)
ButtonNumbers == [BACK |-> 0, CONFIRM |-> 1, LEFT |-> 2, RIGHT |-> 3, UP |-> 4, DOWN |-> 5, POWER |-> 6]
OverlayControls(active) ==
  <<"folder">> \o
  IF HasTouch(active)
  THEN <<4>> \o (IF HasHomeKey(active) THEN <<"Home">> ELSE <<>>) \o <<6, 5>>
  ELSE <<0, 2, 4, 1, 5, 3, 6>>

-----------------------------------------------------------------------------
(***************************************************************************)
(* The ports of the host that stand for the device's.  A setting is the    *)
(* text's leading number, NoNumber without one, and whether text follows.  *)
(***************************************************************************)
NoNumber == -1
DefaultHttpPort == 8080
HttpPort(setting) ==
  IF setting.number = NoNumber \/ setting.more \/ setting.number \notin 1024 .. 65534
  THEN DefaultHttpPort ELSE setting.number
MapFirmwarePort(setting, port) ==
  CASE port = 80 -> HttpPort(setting) [] port = 81 -> HttpPort(setting) + 1 [] OTHER -> port

(***************************************************************************)
(* The heap that is reported, and the PSRAM of a board that has some.      *)
(***************************************************************************)
HeapSize == 1048576
HeapValue(setting) ==
  IF setting.number = NoNumber \/ setting.more \/ setting.number > HeapSize THEN HeapSize
  ELSE setting.number
MaxAllocHeap(largest, free) ==
  IF HeapValue(largest) < HeapValue(free) THEN HeapValue(largest) ELSE HeapValue(free)
PsramTotal(setting) == IF setting.number = NoNumber \/ setting.more THEN 0 ELSE setting.number
PsramFree(total, used) == IF total > used THEN total - used ELSE 0
AllocatePsram(total, used, bytes) ==  \* the pool's use after one call, and whether it gave a block
  IF total = 0 \/ bytes > PsramFree(total, used) THEN [used |-> used, given |-> FALSE]
  ELSE [used |-> used + bytes, given |-> TRUE]
FreePsram(used, bytes) == used - bytes
=============================================================================
