---------------------------- MODULE MCConversions ----------------------------
(***************************************************************************)
(* The inputs.  Names are of one or two bytes out of those that some       *)
(* escape treats apart, and a few longer ones; a panel is small but keeps  *)
(* the proportions that matter (landscape, whole bytes); payloads stand on *)
(* both sides of every length that is written differently; a window is     *)
(* each one on a container of four bytes.                                  *)
(***************************************************************************)
EXTENDS Conversions

XTCache == <<88, 84, 67, 97, 99, 104, 101>>
MCReserved == {XTCache}
MCSlashed == {"/"}

Dirs == {<<Slash>>, <<Slash, 97>>, <<Slash, Space, Amp>>, <<Slash>> \o XTCache}
NameBytes == {97, 53, Space, Quote, Percent, Amp, Apostrophe, Plus, Dot, Less, Equal, Question,
              Backslash, Tab, LF, CR, 27, 195}
Names ==
  ({<<a>> : a \in NameBytes} \cup {<<a, b>> : a, b \in NameBytes}
     \cup {XTCache, <<Percent, 52, 49>>, <<195, 169>>, <<97, Slash + 1, 98>>})
    \ {<<Dot>>, <<Dot, Dot>>}
NameInputs == [kind : {"name"}, dir : Dirs, name : Names]

TargetBytes == {Slash, Dot, Percent, 50, 70, 69, Question, 97}
Targets == UNION {[1 .. n -> TargetBytes] : n \in 0 .. 3}
             \cup {<<Slash, Percent, 50, 69, Percent, 50, 69>>, <<Slash, Percent, 50, 70, 97>>,
                   <<Slash, 97, Slash, Dot, Dot, Slash, 97>>, <<Slash, Percent, 50, 53, 50, 69, Dot>>}
TargetInputs == [kind : {"target"}, target : Targets]

HeaderInputs ==
  [kind : {"header"}, name : {<<72, 111>>, <<120, Minus, 90>>},
   value : {<<>>, <<97>>, <<97, Colon, 98>>, <<97, Space, 98>>}, blanks : {<<>>, <<Space>>, <<Space, Tab>>}]

Pairs == [name : {<<97>>, <<97, 98>>, <<>>}, value : {<<>>, <<Amp, Equal>>, <<97>>}]
ArgumentInputs ==
  [kind : {"arguments"}, pairs : UNION {[1 .. n -> Pairs] : n \in 0 .. 3}, gap : {<<>>, <<Amp>>}]

LocationInputs ==
  [kind : {"location"}, host : {<<97>>, <<97, Colon, 56>>},
   path : UNION {[1 .. n -> {<<>>, <<97>>, <<Dot, 98>>}] : n \in 0 .. 3},
   location : {<<>>, <<99>>, <<Slash>>, <<Slash, 99>>, <<99, Slash, 99>>, <<Question, 99>>}]

Values == {<<"a">>, <<"a", "/", "b">>, <<"/", "a", "\\", "b">>}
Data == UNION {[1 .. n -> {"a", CRLF, Dashes}] : n \in 0 .. 2}
Fields == [name : {<<"n">>}, filename : {<<>>}, data : Data]
Files == [name : {<<"n">>}, filename : Values, data : Data]
Parts == {<<>>} \cup {<<p>> : p \in Fields \cup Files}
           \cup {<<p, q>> : p \in Fields, q \in Files} \cup {<<p, q>> : p \in Files, q \in Fields}
FormInputs == [kind : {"form"}, parts : Parts, type : ContentTypes]

FrameInputs ==
  [kind : {"frame"}, opcode : {1, 2, 8, 9}, n : {0, 1, 5, 125, 126, 127},
   mask : {<<0, 0, 0, 0>>, <<1, 2, 4, 255>>}]
    \cup [kind : {"frame"}, opcode : {2}, n : {65535, 65536}, mask : {<<170, 85, 3, 0>>}]
Long == [1 .. 4 -> {0, 1, 15, 16, 255}]
LengthInputs ==
  [kind : {"length"}, bytes : {high \o low : high \in [1 .. 4 -> {0, 1}], low \in Long}]
Base64Inputs ==
  [kind : {"base64"}, data : UNION {[1 .. n -> {0, 1, 62, 63, 255}] : n \in 0 .. 4}]

DigestInputs ==
  {[kind |-> "digest", n |-> 0, digest |->
        <<218, 57, 163, 238, 94, 107, 75, 13, 50, 85, 191, 239, 149, 96, 24, 144, 175, 216, 7, 9>>],
     [kind |-> "digest", n |-> 3, digest |->
        <<26, 248, 112, 187, 155, 211, 82, 78, 49, 51, 202, 27, 227, 209, 29, 169, 80, 170, 176, 10>>],
     [kind |-> "digest", n |-> 55, digest |->
        <<123, 60, 98, 253, 197, 218, 145, 51, 15, 4, 87, 132, 183, 5, 167, 71, 215, 202, 201, 67>>],
     [kind |-> "digest", n |-> 56, digest |->
        <<160, 6, 168, 41, 206, 159, 165, 190, 201, 101, 70, 32, 142, 119, 15, 69, 251, 150, 7, 126>>],
     [kind |-> "digest", n |-> 63, digest |->
        <<135, 54, 89, 175, 206, 188, 183, 59, 135, 13, 73, 147, 192, 130, 219, 69, 164, 68, 218, 6>>],
     [kind |-> "digest", n |-> 64, digest |->
        <<240, 208, 97, 29, 126, 181, 139, 88, 190, 132, 188, 106, 178, 155, 44, 140, 116, 30, 34, 219>>],
     [kind |-> "digest", n |-> 119, digest |->
        <<91, 113, 62, 129, 250, 234, 168, 177, 165, 187, 66, 202, 125, 118, 110, 48, 74, 21, 141, 95>>],
     [kind |-> "digest", n |-> 120, digest |->
        <<42, 249, 210, 66, 199, 232, 94, 211, 251, 82, 173, 120, 163, 253, 101, 73, 250, 242, 110, 146>>]}
(***************************************************************************)
(* The key of RFC 6455, section 1.3: dGhlIHNhbXBsZSBub25jZQ== and what it  *)
(* is accepted with, s3pPLMBiTxaQ9kYGzzhZRbK+xOo=.                         *)
(***************************************************************************)
KeyInputs ==
  {[kind |-> "key",
    key |-> <<100, 71, 104, 108, 73, 72, 78, 104, 98, 88, 66, 115, 90, 83,
              66, 117, 98, 50, 53, 106, 90, 81, 61, 61>>,
    accept |-> <<44, 55, 41, 15, 11, 12, 1, 34, 19, 49, 26, 16, 61, 36, 24, 6,
                 51, 51, 33, 25, 17, 27, 10, 62, 49, 14, 40, Pad>>]}

PixelInputs ==
  [kind : {"pixel"}, orientation : Orientations, px : 0 .. Width - 1, py : 0 .. Height - 1,
   down : [x : {0, 1}, y : {0, 1}]]
ContactInputs ==
  [kind : {"contact"}, orientation : Orientations, x : -1 .. Width + 2, y : -1 .. Width + 2,
   strip : {0, 2}]
(***************************************************************************)
(* The panels of the boards, as the strip sees them, portrait and not.     *)
(***************************************************************************)
StripInputs ==
  {[kind |-> "strip", board |-> board, w |-> size[1], h |-> size[2], phone |-> phone] :
     phone \in BOOLEAN,
     board \in {b \in Boards : b.hasHomeKey => b.hasTouch},
     size \in {<<480, 800>>, <<800, 480>>, <<528, 792>>, <<792, 528>>}}
ImageInputs ==
  [kind : {"image"}, x : 0 .. Width, y : 0 .. Height, w : {0, 7, 8, 9, 16}, h : {0, 1, Height}]

Items ==
  [time : {0, 4}, key : {"UP", "HOME", "SWIPE", "ENTER", "RETURN"}, hold : {NoField, 3, 4}, from : {2}, to : {8}]
    \cup [time : {0, 4, NoField}, key : {"TAP"}, hold : {3}, from : {2, NoField}, to : {2}]
    \cup [time : {NoField, 4}, key : {"S", "QUIT", "NOTHING"}, hold : {NoField}, from : {NoField}, to : {NoField}]
ScriptInputs == [kind : {"script"}, script : {<<i>> : i \in Items} \cup {<<i, j>> : i, j \in Items}]

ShotInputs ==
  [kind : {"shots"}, other : {<<>>, <<"x">>, <<"3", ":">>, <<"x", "4", ":">>},
   shots : [1 .. 2 -> [atMs : {0, 7, 42}, panel : BOOLEAN, path : {<<"a">>, <<"a", ":", "5">>}]]]

Ops ==
  [call : {"seekSet", "seek64"}, n : {0, 1, 2, 4, 10}] \cup [call : {"seekCur"}, n : {-2, -1, 1, 2}]
    \cup [call : {"read"}, n : {0, 1, 3}] \cup [call : {"readByte"}, n : {0}]
Container == <<"a", "b", "c", "d">>
OpsOf(n) == [1 .. n -> Ops]
WindowInputs ==
  [kind : {"window"}, bytes : {Container}, start : {1, 2}, length : 0 .. 3, ops : OpsOf(3)]
FileInputs == [kind : {"file"}, bytes : {<<>>, Container}, ops : OpsOf(3)]
BufferInputs ==
  [kind : {"buffer"}, bytes : {<<>>, Container}, size : 1 .. 6, most : 0 .. 5]
StreamInputs == [kind : {"stream"}, bytes : {<<>>, Container}, chunk : 1 .. 5]

WriteOps ==
  [call : {"write"}, data : {<<7>>, <<8, 9>>}]
    \cup [call : {"seekSet", "truncate"}, n : {0, 1, 3}] \cup [call : {"read"}, n : {1}]
WritingInputs ==
  [kind : {"writing"}, before : {<<>>, <<1, 2>>}, ops : UNION {[1 .. n -> WriteOps] : n \in 0 .. 3},
   data : {<<3, 4>>}]

Times ==
  [year : {1979, 1980, 2107, 2108}, month : {1, 12}, day : {1, 31}, hour : {0, 23}, minute : {0, 59},
   second : {0, 1, 58}]
StampInputs == [kind : {"stamp"}, earlier : Times, later : {t \in Times : t.minute = 59}]

(***************************************************************************)
(* The platform: every build; a setting with and without a number; moments *)
(* about the turn of the year, a quarter of an hour from midnight and not. *)
(***************************************************************************)
Flags == SUBSET (DeviceFlags \cup DisplayFlags)
BuildInputs == [kind : {"build"}, flags : Flags]
LightCalls ==
  [call : {"begin"}, n : {0, 100, 200}, on : BOOLEAN] \cup [call : {"brightness", "warmth"}, n : {50, 101}]
    \cup [call : {"on"}, on : BOOLEAN]
LightInputs ==
  [kind : {"light"}, flags : {{}, {"X4_PRO"}, {"PAPERMONO"}, {"STICKY"}}, calls : [1 .. 2 -> LightCalls]]
Settings(numbers) == [number : numbers \cup {NoNumber}, more : BOOLEAN]
PortInputs ==
  [kind : {"ports"}, setting : Settings({0, 80, 1023, 1024, 8080, 65534, 65535, 65536})]
MemoryInputs ==
  {[kind |-> "memory", total |-> t, sizes |-> sizes, back |-> back, largest |-> l, free |-> f] :
     t \in {0, 3}, sizes \in [1 .. 3 -> 0 .. 4], back \in {<<3, 1, 2>>, <<2>>},
     l \in Settings({1000, 2000000}), f \in Settings({500, 1000})}
ClockInputs ==
  [kind : {"clock"}, moment : {1440 * d + m : d \in {7, 8, 9, 30, 31}, m \in {0, 14, 15, 599, 720, 1425, 1439}},
   biased : {0, 23, 47, 48, 49, 95, 104, 255}, size : {5, 6, 8, 9, 12, 13}]

SomeNetworks == {Network(n, s, a) : n \in {<<"Home">>, <<"Cafe", " ", "1">>}, s \in {-40, -71}, a \in {"open", "psk"}}
NetworkInputs ==
  [kind : {"networks"}, networks : UNION {[1 .. n -> SomeNetworks] : n \in 0 .. 2}, apart : {<<>>, <<";">>}]
OneNetwork == <<"Home", ":", "-40", ":", "open">>
RadioCalls ==
  [call : {"begin"}, setting : {<<>>, <<"none">>, OneNetwork, <<"Away">>}, forced : {"", "fail", "timeout"},
   name : {<<"Home">>, <<"Away">>}]
    \cup [call : {"scan"}, setting : {<<>>, OneNetwork}]
    \cup [call : {"disconnect", "off", "station"}, setting : {<<"none">>}]
    \cup [call : {"softAP"}, setting : {OneNetwork}, forced : {"", "fail"}, name : {<<"Mine">>}]
RadioInputs == [kind : {"radio"}, calls : [1 .. 2 -> RadioCalls]]

SettingsOps ==
  [call : {"open"}, namespace : {"a", "b"}]
    \cup [call : {"set"}, handle : {1, 2}, name : {"k"}, data : {<<1>>, <<2, 3>>}]
    \cup [call : {"close"}, handle : {1, 2}]
SettingsGets == [call : {"get"}, handle : {1, 2}, name : {"k", "l"}, size : {1, 2}]
SettingsInputs ==
  [kind : {"settings"},
   ops : {opens \o sets \o <<get>> : opens \in [1 .. 2 -> [call : {"open"}, namespace : {"a", "b"}]],
                                     sets \in [1 .. 3 -> SettingsOps], get \in SettingsGets}]

Pictures ==
  {[bytes |-> <<1, 2, 3>>, picture |-> p, width |-> w, height |-> h, sourceChannels |-> c] :
     p \in BOOLEAN, w \in {1, 3, 4, 5}, h \in {1, 2, 5}, c \in {3, 4}}
PictureInputs ==
  [kind : {"picture"}, file : Pictures, handle : BOOLEAN, size : {0, 2, 3}, pieces : {<<2, 1>>, <<3>>, <<1, 0, 2>>},
   scale : {1, 2, 4}, refuses : {0, 1, 3}]
Letters == {97, 98, 32}
TextsOf(n) == UNION {[1 .. m -> Letters] : m \in 0 .. n}
TextInputs ==
  [kind : {"text"}, text : TextsOf(4), find : TextsOf(2), with : {<<>>, <<97>>, <<97, 98>>}]
SentInputs ==
  [kind : {"sent"}, data : UNION {[1 .. n -> {0, 127, 200}] : n \in 0 .. 4}, chunk : {1, 2, 4},
   sends : UNION {[1 .. n -> {0, 1, 4}] : n \in 0 .. 4}]
Addresses == [socket : BOOLEAN, answers : BOOLEAN, name : {1}]
Hosts == {<<>>} \cup {<<a, [b EXCEPT !.name = 2]>> : a, b \in Addresses}
Calls == [call : {"connect"}, addresses : Hosts] \cup [call : {"stop"}, addresses : {<<>>}]
ConnectionInputs == [kind : {"connections"}, calls : [1 .. 3 -> Calls]]
SealedInputs ==
  [kind : {"sealed"}, key : {Filled(<<7>>, n) : n \in {1, 16, 24, 32, 33}}, text : {<<>>, <<1, 200>>},
   iv : {<<3>>, Filled(<<4>>, 12)}, aad : {<<>>, <<5>>}, place : {1, 2}]

MCInputs ==
  UNION {NameInputs, TargetInputs, HeaderInputs, ArgumentInputs, FormInputs, FrameInputs, LengthInputs,
         Base64Inputs, LocationInputs, DigestInputs, KeyInputs,
         PixelInputs, ContactInputs, StripInputs, ImageInputs, ScriptInputs, ShotInputs, WindowInputs,
         FileInputs, BufferInputs, StreamInputs, WritingInputs, StampInputs,
         BuildInputs, LightInputs, PortInputs, MemoryInputs, ClockInputs, NetworkInputs, RadioInputs,
         SettingsInputs, PictureInputs, TextInputs, ConnectionInputs, SentInputs, SealedInputs}
=============================================================================
