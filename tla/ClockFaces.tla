----------------------------- MODULE ClockFaces -----------------------------
(***************************************************************************)
(* What the firmware is told of the time: HalClock.cpp.  A moment is the   *)
(* minute since the beginning of December 2025, UTC; an offset from UTC is *)
(* in quarters of an hour and sent with 48 added.                          *)
(***************************************************************************)
EXTENDS Integers, Sequences, SequencesExt

Gmtime(moment) ==  \* in December and January
  LET day == moment \div 1440
  IN [year |-> 2025 + (day \div 31), month |-> IF day < 31 THEN 12 ELSE 1, day |-> (day % 31) + 1,
      hour |-> (moment % 1440) \div 60, minute |-> moment % 60]

Quarters(biased) == (IF biased > 104 THEN 104 ELSE biased) - 48
LocalEpoch(moment, biased) == moment + 15 * Quarters(biased)

-----------------------------------------------------------------------------
(***************************************************************************)
(* Texts are the sequences of their bytes.                                 *)
(***************************************************************************)
Blank == 32
Digit(n) == 48 + n
TwoDigits(n) == <<Digit(n \div 10), Digit(n % 10)>>
NoZero(n) == IF n < 10 THEN <<Digit(n)>> ELSE TwoDigits(n)
Padded(n) == IF n < 10 THEN <<Blank, Digit(n)>> ELSE TwoDigits(n)
Year(n) == TwoDigits(n \div 100) \o TwoDigits(n % 100)
Month(n) == IF n = 12 THEN <<68, 101, 99>> ELSE <<74, 97, 110>>

Unavailable == [ok |-> FALSE]
GetTime(available, moment) ==
  IF ~available THEN Unavailable
  ELSE [ok |-> TRUE, hour |-> Gmtime(moment).hour, minute |-> Gmtime(moment).minute]
GetDateTime(available, moment) ==
  IF ~available THEN Unavailable ELSE [ok |-> TRUE] @@ Gmtime(moment)

Refused == [ok |-> FALSE, text |-> <<>>]
Told(text) == [ok |-> TRUE, text |-> text]

FaceOf(hour, minute, twelve) ==
  IF twelve
  THEN NoZero(IF hour % 12 = 0 THEN 12 ELSE hour % 12) \o <<58>> \o TwoDigits(minute)
         \o <<Blank, IF hour >= 12 THEN 80 ELSE 65, 77>>
  ELSE TwoDigits(hour) \o <<58>> \o TwoDigits(minute)

FormatTime(available, moment, size, biased, twelve) ==
  LET now == GetTime(available, moment)
      total == (60 * now.hour + now.minute + 15 * Quarters(biased)) % 1440
  IN IF size < (IF twelve THEN 9 ELSE 6) \/ ~now.ok THEN Refused
     ELSE Told(FaceOf(total \div 60, total % 60, twelve))

OneBlank(text) ==  \* the first pair of blanks becomes one
  LET pairs == {i \in 1 .. Len(text) - 1 : text[i] = Blank /\ text[i + 1] = Blank}
  IN IF pairs = {} THEN text
     ELSE LET i == CHOOSE i \in pairs : \A j \in pairs : i <= j
          IN SubSeq(text, 1, i) \o SubSeq(text, i + 2, Len(text))
FormatDate(available, moment, size, biased) ==
  LET at == Gmtime(LocalEpoch(moment, biased))
  IN IF size < 13 \/ ~available THEN Refused
     ELSE Told(OneBlank(Month(at.month) \o <<Blank>> \o Padded(at.day) \o <<44, Blank>> \o Year(at.year)))
=============================================================================
