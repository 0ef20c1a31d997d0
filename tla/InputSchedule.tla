---------------------------- MODULE InputSchedule ----------------------------
(***************************************************************************)
(* CROSSPOINT_SIM_INPUT_SCRIPT in HalGPIO.cpp: from the items of a script  *)
(* to the events that processSyntheticEvents handles, in order of time.    *)
(*                                                                         *)
(* An item is what stands between two semicolons, its colons found: a time *)
(* (NoField without one), a word, and the number after the second colon    *)
(* (NoField without one).  A touch goes from "from" to "to" on one axis.   *)
(***************************************************************************)
EXTENDS Integers, Sequences, FiniteSets, SequencesExt

CONSTANTS
  Samples,  \* kSamples
  NoField   \* what is not there

ASSUME SamplesAssumption == Samples \in Nat \ {0, 1}

Word(key, button) == [key |-> key, button |-> button]
NamedButtons ==
  {Word("ESCAPE", "BACK"), Word("BACK", "BACK"), Word("RETURN", "CONFIRM"),
   Word("ENTER", "CONFIRM"), Word("CONFIRM", "CONFIRM"), Word("LEFT", "LEFT"),
   Word("RIGHT", "RIGHT"), Word("UP", "UP"), Word("DOWN", "DOWN"), Word("P", "POWER"),
   Word("POWER", "POWER")}
NamedButton(key) ==
  IF \E w \in NamedButtons : w.key = key THEN (CHOOSE w \in NamedButtons : w.key = key).button
  ELSE NoField

At(time, action, what, pos) == [atMs |-> time, action |-> action, what |-> what, pos |-> pos]

(***************************************************************************)
(* How long a key is held, and how long a touch lasts, if the item has no  *)
(* number; a touch without its coordinates is dropped.                     *)
(***************************************************************************)
HoldMs(item) == IF item.hold = NoField THEN 80 ELSE item.hold
Duration(item) ==
  IF item.hold # NoField THEN item.hold ELSE IF item.key = "SWIPE" THEN 250 ELSE 80

TouchMovesToEnd(item) ==  \* mutant: the last sample is at the release
  [i \in 1 .. Samples |->
     At(item.time + (Duration(item) * i) \div Samples, "move", "touch",
        item.from + ((item.to - item.from) * i) \div Samples)]
TouchMoves(item) ==
  [i \in 1 .. Samples - 1 |->
     At(item.time + (Duration(item) * i) \div Samples, "move", "touch",
        item.from + ((item.to - item.from) * i) \div Samples)]

EventsOf(item) ==
  CASE item.time = NoField -> <<>>
    [] item.key = "QUIT" -> <<At(item.time, "quit", NoField, 0)>>
    [] item.key \in {"S", "SLEEP"} -> <<At(item.time, "sleep", NoField, 0)>>
    [] item.key = "HOME" ->
         <<At(item.time, "down", "HOME", 0), At(item.time + HoldMs(item), "up", "HOME", 0)>>
    [] item.key \in {"TAP", "SWIPE"} ->
         IF item.from = NoField THEN <<>>
         ELSE <<At(item.time, "down", "touch", item.from)>>
                \o (IF item.key = "SWIPE" THEN TouchMoves(item) ELSE <<>>)
                \o <<At(item.time + Duration(item), "up", "touch",
                        IF item.key = "SWIPE" THEN item.to ELSE item.from)>>
    [] NamedButton(item.key) # NoField ->
         LET button == NamedButton(item.key)
         IN <<At(item.time, "down", button, 0), At(item.time + HoldMs(item), "up", button, 0)>>
    [] OTHER -> <<>>
EventsOfScript(script) == FlattenSeq([i \in DOMAIN script |-> EventsOf(script[i])])

(***************************************************************************)
(* std::sort by time, and only by time: events of one time come in any     *)
(* order.                                                                  *)
(***************************************************************************)
Orders(events) ==
  LET Earliest(left) == {i \in left : \A j \in left : events[i].atMs <= events[j].atMs}
      orders[left \in SUBSET DOMAIN events] ==
        IF left = {} THEN {<<>>}
        ELSE UNION {{<<events[i]>> \o rest : rest \in orders[left \ {i}]} : i \in Earliest(left)}
  IN orders[DOMAIN events]

(***************************************************************************)
(* CROSSPOINT_SIM_SCREENSHOTS in HalDisplay.cpp: between semicolons a      *)
(* time, a colon and a path.  A text is a sequence of characters and       *)
(* suffixes; strtoul() takes the digits it begins with.                    *)
(***************************************************************************)
PanelSuffix == ".panel.bmp"
Figures == <<"0", "1", "2", "3", "4", "5", "6", "7", "8", "9">>
LeadingNumber(text) ==
  LET digits == {n \in 0 .. Len(text) : \A i \in 1 .. n : Contains(Figures, text[i])}
      longest == CHOOSE n \in digits : \A m \in digits : m <= n
  IN FoldLeft(LAMBDA n, d : 10 * n + SelectInSeq(Figures, LAMBDA f : f = d) - 1, 0, SubSeq(text, 1, longest))
ItemsOf(spec) ==
  FoldLeft(LAMBDA items, c : IF c = ";" THEN Append(items, <<>>)
                             ELSE [items EXCEPT ![Len(items)] = Append(@, c)],
           <<<<>>>>, spec)
ScreenshotEvents(spec) ==
  LET ColonOf(item) == SelectInSeq(item, LAMBDA c : c = ":")
      Asks(item) == ColonOf(item) \notin {0, Len(item)}
      asked == SelectSeq(ItemsOf(spec), Asks)
  IN [i \in DOMAIN asked |->
        LET colon == ColonOf(asked[i]) IN
        [atMs |-> LeadingNumber(SubSeq(asked[i], 1, colon - 1)),
         path |-> SubSeq(asked[i], colon + 1, Len(asked[i]))]]
SavesPanel(event) == Len(event.path) > 1 /\ event.path[Len(event.path)] = PanelSuffix
=============================================================================
