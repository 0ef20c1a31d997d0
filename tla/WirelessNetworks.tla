-------------------------- MODULE WirelessNetworks --------------------------
(***************************************************************************)
(* The radio that is not there: WiFi.h.  The networks come from a setting  *)
(* of the environment, "name:strength:open;...", that may change while the *)
(* program runs; what they parse to is kept with the text it came from.    *)
(* A text is a sequence of separators and words; an unset one is empty.    *)
(***************************************************************************)
EXTENDS Integers, Sequences, SequencesExt

Network(name, strength, auth) == [name |-> name, strength |-> strength, auth |-> auth]
DefaultNetworks == <<Network(<<"Simulator">>, -45, "open"), Network(<<"Local">>, -62, "psk")>>

-----------------------------------------------------------------------------
(***************************************************************************)
(* configuredNetworks().                                                   *)
(***************************************************************************)
PartsBetween(text, separator) ==
  FoldLeft(LAMBDA parts, c : IF c = separator THEN Append(parts, <<>>)
                             ELSE [parts EXCEPT ![Len(parts)] = Append(@, c)],
           <<<<>>>>, text)
Numerals == [n \in {"-40", "-71"} |-> IF n = "-40" THEN -40 ELSE -71]
Atoi(text) == IF Len(text) = 1 /\ text[1] \in DOMAIN Numerals THEN Numerals[text[1]] ELSE 0

ParsedItem(item) ==
  LET fields == PartsBetween(item, ":")
      Rest == SubSeq(item, Len(fields[1]) + Len(fields[2]) + 3, Len(item))
  IN Network(fields[1],
             IF Len(fields) = 1 THEN -55 ELSE Atoi(fields[2]),
             IF Len(fields) >= 3 /\ Rest = <<"open">> THEN "open" ELSE "psk")
Parsed(setting) ==
  IF setting = <<>> THEN DefaultNetworks
  ELSE IF setting = <<"none">> THEN <<>>
  ELSE LET items == SelectSeq(PartsBetween(setting, ";"), LAMBDA item : item # <<>>)
       IN [i \in DOMAIN items |-> ParsedItem(items[i])]

(***************************************************************************)
(* The radio: its mode, its status, the name it last used and the cache.   *)
(* Every call that looks at the networks leaves them in the cache.         *)
(***************************************************************************)
RadioOff ==
  [mode |-> "off", status |-> "disconnected", name |-> <<>>,
   cached |-> FALSE, setting |-> <<>>, networks |-> <<>>]

LookedOnce(radio, setting) ==  \* mutant: whatever was read first stays
  IF radio.cached THEN radio
  ELSE [radio EXCEPT !.cached = TRUE, !.setting = setting, !.networks = Parsed(setting)]
Looked(radio, setting) ==
  IF radio.cached /\ radio.setting = setting THEN radio
  ELSE [radio EXCEPT !.cached = TRUE, !.setting = setting, !.networks = Parsed(setting)]

InScan(radio, name) == \E i \in DOMAIN radio.networks : radio.networks[i].name = name

(***************************************************************************)
(* begin(): an answer that the environment asks for comes before the scan. *)
(***************************************************************************)
Connect(radio, setting, forced, name) ==
  LET looked == IF setting = <<>> THEN radio ELSE Looked(radio, setting)
      Tries(r) == [r EXCEPT !.mode = "station", !.name = name]
  IN CASE forced = "fail" -> [Tries(radio) EXCEPT !.status = "failed"]
       [] forced = "no-ssid" -> [Tries(radio) EXCEPT !.status = "no-ssid"]
       [] forced = "timeout" -> [Tries(radio) EXCEPT !.status = "idle"]
       [] forced \notin {"fail", "no-ssid", "timeout"} ->
            [Tries(looked) EXCEPT
               !.status = IF setting = <<>> \/ InScan(looked, name) THEN "connected" ELSE "no-ssid"]
Disconnect(radio) == [radio EXCEPT !.status = "disconnected"]
Mode(radio, mode) ==
  [radio EXCEPT !.mode = mode, !.status = IF mode = "off" THEN "disconnected" ELSE @]
SoftAP(radio, forced, name) ==
  [radio EXCEPT !.mode = "access point", !.name = name,
                !.status = IF forced = "fail" THEN "failed" ELSE "connected"]

LocalIP(radio) == IF radio.status = "connected" THEN <<127, 0, 0, 1>> ELSE <<0, 0, 0, 0>>
Channel(radio) == IF radio.status = "connected" THEN 1 ELSE 0
ScanNetworks(radio, setting) == Len(Looked(radio, setting).networks)
Scanned(radio, setting, i) ==  \* SSID(i), RSSI(i) and encryptionType(i), from 0
  LET networks == Looked(radio, setting).networks
  IN IF i \in 0 .. Len(networks) - 1 THEN networks[i + 1] ELSE Network(<<>>, 0, "open")
SSID(radio) == IF radio.name = <<>> THEN <<"Simulator">> ELSE radio.name
=============================================================================
