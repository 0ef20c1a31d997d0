------------------------------ MODULE Platform ------------------------------
(***************************************************************************)
(* What the stand-ins for the device's boards, radio, clock, settings,     *)
(* images, texts and keys have to answer, each for one input.              *)
(***************************************************************************)
EXTENDS DeviceBoards, WirelessNetworks, ClockFaces, KeptSettings, ImageRows, ArduinoText,
        SealedKeys, ScreenGeometry

StatesOf(Step(_, _), start, ops) ==  \* the states before and after each operation
  LET state[i \in 0 .. Len(ops)] == IF i = 0 THEN start ELSE Step(state[i - 1], ops[i]) IN state

-----------------------------------------------------------------------------
(***************************************************************************)
(* Whatever build is not refused, the macros, the profile it starts with   *)
(* and the one begin() selects are of the same board, with the controller  *)
(* that was asked for, and the keys drawn by SwiftUI are those of the      *)
(* strip, in its order.                                                    *)
(***************************************************************************)
BuildAgrees(flags) ==
  LET device == Device(flags)
      active == Active(flags)
      strip == StripControls([hasTouch |-> HasTouch(active), hasHomeKey |-> HasHomeKey(active),
                              picksFolder |-> TRUE])
      number == [ButtonNumbers EXCEPT !.UP = 4] @@ [PICK_FOLDER |-> "folder", HOME_KEY |-> "Home"]
  IN Builds(flags) =>
       /\ Begin(flags).active = active
       /\ Begin(flags).type = "X3" <=> device = "X3"
       /\ CapTouch(device) <=> HasTouch(active)
       /\ CapFrontlight(device) <=> HasPwmFrontlight(active)
       /\ McuC3(device) <=> IsXteinkDevice(active)
       /\ HasHomeKey(active) => HasTouch(active) /\ HasEdgeSideButtons(active)
       /\ \A c \in DisplayFlags : c \in flags => active.display.controller = c
       /\ flags \cap DisplayFlags = {} => active.display.controller \in {"SSD1677", "UC8253"}
       /\ WindowTitle(flags) = [device |-> device, controller |-> active.display.controller]
       /\ ClockAvailable(device) <=> device # "X4"
       /\ OverlayControls(active) = [i \in DOMAIN strip |-> number[strip[i]]]
       /\ \A mode \in {"Absolute", "Direct"} :
            GrayscaleCapabilities(active, mode).encoding = "Unsupported"

(***************************************************************************)
(* A light the board has not got is never lit, and no setting exceeds 100. *)
(***************************************************************************)
LightAgrees(flags, calls) ==
  LET active == Active(flags)
      Step(light, c) ==
        CASE c.call = "begin" -> BeginLight(active, light, c.n, c.n, c.on)
          [] c.call = "brightness" -> SetBrightness(light, c.n)
          [] c.call = "warmth" -> SetWarmth(active, light, c.n)
          [] c.call = "on" -> SetOn(active, light, c.on)
      light == StatesOf(Step, NoLight, calls)
  IN \A i \in 1 .. Len(calls) :
       /\ {light[i].brightness, light[i].warmth} \subseteq 0 .. 100
       /\ light[i].lit => CapFrontlight(Device(flags))
       /\ ~HasColorTemperature(active) /\ calls[i].call = "begin" /\ light[i].lit => light[i].warmth = 0

(***************************************************************************)
(* Two servers of the firmware never share a port of the host, which needs *)
(* no privilege and exists.                                                *)
(***************************************************************************)
PortsAgree(setting) ==
  LET http == MapFirmwarePort(setting, 80)
      sockets == MapFirmwarePort(setting, 81)
  IN /\ http # sockets /\ {http, sockets} \subseteq 1024 .. 65535
     /\ http \in {setting.number, DefaultHttpPort}
     /\ setting.number \in 1024 .. 65534 /\ ~setting.more => http = setting.number

(***************************************************************************)
(* Blocks that are taken one after the other fit into the pool, and given  *)
(* back leave it as it was; no block is larger than the free heap.         *)
(***************************************************************************)
MemoryAgrees(total, sizes, back, largest, free) ==
  LET Take(pool, n) == LET a == AllocatePsram(total, pool.used, n)
                       IN [used |-> a.used, given |-> Append(pool.given, a.given)]
      pool == StatesOf(Take, [used |-> 0, given |-> <<>>], sizes)[Len(sizes)]
      Return(used, i) == IF pool.given[i] THEN FreePsram(used, sizes[i]) ELSE used
      kept == StatesOf(Return, pool.used, back)[Len(back)]
  IN /\ pool.used <= total
     /\ PsramFree(total, kept) = total - kept
     /\ Len(back) = Len(sizes) => kept = 0
     /\ MaxAllocHeap(largest, free) <= HeapValue(free) /\ HeapValue(free) <= HeapSize

-----------------------------------------------------------------------------
(***************************************************************************)
(* The clock counts on: what getDateTime() tells of a moment is earlier    *)
(* than what it tells of the next, and its time of day is getTime()'s.     *)
(* The faces of the clock tell the local time: read back they are the hour *)
(* and minute, the day and the year, of the moment that localEpoch() gives *)
(* and they fit the buffer they asked for.                                 *)
(***************************************************************************)
ClockAgrees(moment, biased, size) ==
  LET local == Gmtime(LocalEpoch(moment, biased))
      day == FormatTime(TRUE, moment, size, biased, FALSE)
      half == FormatTime(TRUE, moment, size, biased, TRUE)
      date == FormatDate(TRUE, moment, size, biased)
      Hour12 == IF Len(half.text) = 7 THEN half.text[1] - 48
                ELSE 10 * (half.text[1] - 48) + half.text[2] - 48
      noon == half.text[Len(half.text) - 1] = 80
      told == GetDateTime(TRUE, moment)
      next == GetDateTime(TRUE, moment + 1)
      MinuteOfYear(t) == 44640 * (t.month % 12) + 1440 * t.day + 60 * t.hour + t.minute
  IN /\ [ok |-> TRUE, hour |-> told.hour, minute |-> told.minute] = GetTime(TRUE, moment)
     /\ (told.month % 12) + 2025 = told.year /\ MinuteOfYear(next) = MinuteOfYear(told) + 1
     /\ ~GetDateTime(FALSE, moment).ok
     /\ day.ok <=> size >= 6
     /\ day.ok => /\ day.text = TwoDigits(local.hour) \o <<58>> \o TwoDigits(local.minute)
                  /\ Len(day.text) < size
     /\ half.ok => /\ (Hour12 % 12) + (IF noon THEN 12 ELSE 0) = local.hour
                   /\ SubSeq(half.text, Len(half.text) - 4, Len(half.text) - 3) = TwoDigits(local.minute)
                   /\ Hour12 \in 1 .. 12 /\ Len(half.text) < size
     /\ date.ok => /\ date.text = Month(local.month) \o <<32>> \o NoZero(local.day) \o <<44, 32>>
                                    \o Year(local.year)
                   /\ Len(date.text) < size
     /\ \A twelve \in BOOLEAN : ~FormatTime(FALSE, moment, size, biased, twelve).ok

-----------------------------------------------------------------------------
(***************************************************************************)
(* Networks are listed as the setting writes them.  Whatever was called    *)
(* under which settings before, the scan is that of the present setting,   *)
(* and every network in it can be joined, and with a setting no other.     *)
(***************************************************************************)
Written(networks, apart) ==
  FlattenSeq([i \in DOMAIN networks |->
    networks[i].name \o <<":", IF networks[i].strength = -40 THEN "-40" ELSE "-71", ":", networks[i].auth, ";">>
      \o apart])
NetworksAgree(networks, apart) ==
  Written(networks, apart) # <<>> => Parsed(Written(networks, apart)) = networks

RadioAgrees(calls) ==
  LET Step(radio, c) ==
        CASE c.call = "begin" -> Connect(radio, c.setting, c.forced, c.name)
          [] c.call = "scan" -> Looked(radio, c.setting)
          [] c.call = "disconnect" -> Disconnect(radio)
          [] c.call = "off" -> Mode(radio, "off")
          [] c.call = "station" -> Mode(radio, "station")
          [] c.call = "softAP" -> SoftAP(radio, c.forced, c.name)
      radio == StatesOf(Step, RadioOff, calls)
      Listed(setting) == {Parsed(setting)[i].name : i \in DOMAIN Parsed(setting)}
  IN \A i \in 1 .. Len(calls) :
       LET c == calls[i] IN
       /\ ScanNetworks(radio[i], c.setting) = Len(Parsed(c.setting))
       /\ \A n \in 0 .. 2 :
            Scanned(radio[i], c.setting, n) =
              IF n < Len(Parsed(c.setting)) THEN Parsed(c.setting)[n + 1] ELSE Network(<<>>, 0, "open")
       /\ c.call = "begin" =>
            (LocalIP(radio[i]) # <<0, 0, 0, 0>>
               <=> c.forced = "" /\ (c.setting = <<>> \/ c.name \in Listed(c.setting)))
       /\ c.call \in {"off", "disconnect"} => Channel(radio[i]) = 0
       /\ radio[i].status = "connected" => SSID(radio[i]) # <<>>

(***************************************************************************)
(* What is set through a handle is got through every handle onto the same  *)
(* namespace, until it is set again, and nothing else is: for handles that *)
(* are open.                                                               *)
(***************************************************************************)
SettingsAgree(ops) ==
  LET Step(kept, op) ==
        CASE op.call = "open" -> NvsOpen(kept, op.namespace)
          [] op.call = "set" -> NvsSetBlob(kept, op.handle, op.name, op.data)
          [] op.call = "get" -> Looks(kept, op.handle)
          [] op.call = "close" -> NvsClose(kept, op.handle)
      kept == StatesOf(Step, NoSettings, ops)
      IsOpen(i) == ops[i].call # "open" /\ ops[i].handle \in DOMAIN kept[i - 1].open
      Place(i) == <<kept[i - 1].open[ops[i].handle], ops[i].name>>
      Sets(i) == ops[i].call = "set" /\ IsOpen(i)
  IN (\A i \in DOMAIN ops : ops[i].call = "open" \/ IsOpen(i)) =>
       \A j \in DOMAIN ops : ops[j].call = "get" =>
         LET before == {i \in 1 .. j - 1 : Sets(i) /\ Place(i) = Place(j)}
             last == IF before = {} THEN 0 ELSE GreatestOf(before)
             got == NvsGetBlob(kept[j - 1], ops[j].handle, ops[j].name, ops[j].size)
             one == NvsGetU8(kept[j - 1], ops[j].handle, ops[j].name)
         IN /\ got.found <=> last # 0
            /\ last # 0 => got.len = Len(ops[last].data) /\ IsPrefix(got.data, ops[last].data)
                           /\ (ops[j].size >= got.len => got.data = ops[last].data)
            /\ one.ok <=> last # 0 /\ Len(ops[last].data) = 1
            /\ one.ok => one.value = ops[last].data

-----------------------------------------------------------------------------
(***************************************************************************)
(* A file is decoded if all of it was read, and closed once.  The rows of  *)
(* the picture come in order and once each, up to one that is refused; at  *)
(* full size they are the picture, scaled down every n-th pixel of every   *)
(* n-th row with the last part of n.                                       *)
(***************************************************************************)
PictureAgrees(file, handle, size, pieces, scale, refuses) ==
  LET opened == JpegOpen(file, TRUE, handle, size, pieces)
      openedPng == PngOpen(file, TRUE, handle, size, pieces)
      jpeg == JpegDecode(opened.image, TRUE, scale, refuses)
      png == PngDecode(openedPng.image, TRUE, refuses)
      RoundedUp(n) == (n + scale - 1) \div scale
      whole == /\ handle /\ file.picture /\ size >= Len(file.bytes)
               /\ FoldLeft(LAMBDA n, piece : n + piece, 0, pieces) >= Len(file.bytes)
               /\ \A i \in DOMAIN pieces : pieces[i] > 0
      drawnRows == IF refuses \in 1 .. RoundedUp(file.height) THEN refuses ELSE RoundedUp(file.height)
  IN /\ opened.closed = IF handle THEN 1 ELSE 0
     /\ openedPng.closed = opened.closed /\ openedPng.ok = opened.ok
     /\ whole => opened.ok
     /\ ~opened.ok => jpeg = NothingDrawn /\ png = NothingDrawn
     /\ opened.ok =>
          /\ Len(jpeg.rows) = drawnRows
          /\ jpeg.ok <=> refuses \notin 1 .. RoundedUp(file.height)
          /\ \A i \in 1 .. drawnRows :
               jpeg.rows[i] = [y |-> i - 1,
                               pixels |-> [x \in 1 .. RoundedUp(file.width) |->
                                             Sample(scale * (x - 1), scale * (i - 1), 0)]]
          /\ png.ok <=> refuses \notin 1 .. file.height
          /\ \A i \in DOMAIN png.rows :
               /\ png.rows[i].y = i - 1 /\ (png.rows[i].alpha <=> file.sourceChannels = 4)
               /\ \A x \in 1 .. file.width, c \in 0 .. 3 :
                    png.rows[i].pixels[4 * (x - 1) + c + 1] = Sample(x - 1, i - 1, c)

(***************************************************************************)
(* The String's operations, after what they mean for a sequence.           *)
(***************************************************************************)
Substituted(s, t, with) ==  \* read from the front, each occurrence as it is met
  LET read[i \in 1 .. Len(s) + 1] ==
        IF i > Len(s) THEN <<>>
        ELSE IF i + Len(t) - 1 <= Len(s) /\ SubSeq(s, i, i + Len(t) - 1) = t
             THEN with \o read[i + Len(t)]
        ELSE <<s[i]>> \o read[i + 1]
  IN read[1]
TextAgrees(s, t, with) ==
  /\ PlusText(s, t) = Concat(s, t)
  /\ IsPrefix(PlusText(s, <<0>> \o t), Concat(s, <<0>> \o t)) /\ PlusText(s, <<0>> \o t) = s
  /\ ReplaceChar(s, 97, 98) = Replace(s, <<97>>, <<98>>)
  /\ Replace(s, t, with) = IF t = <<>> THEN s ELSE Substituted(s, t, with)
  /\ StartsWith(s, t) <=> IsPrefix(t, s)
  /\ EndsWith(s, t) <=> IsSuffix(t, s)
  /\ \A i \in 0 .. Len(s) :
       /\ Substring(s, 0, i) \o Substring(s, i, NoEnd) = s
       /\ \A n \in 0 .. Len(s) - i :
            RemoveFrom(s, i, n) = SubSeq(s, 1, i) \o SubSeq(s, i + n + 1, Len(s))
  /\ LET trimmed == TrimText(s)
         at == IndexOf(s, trimmed, 0)
     IN /\ at # None
        /\ \A i \in DOMAIN s : i \notin at + 1 .. at + Len(trimmed) => s[i] \in White
        /\ trimmed # <<>> => trimmed[1] \notin White /\ trimmed[Len(trimmed)] \notin White
  /\ \A c \in {97, 32} :
       LET at == LastIndexOf(s, c) IN
       IF at = None THEN \A i \in DOMAIN s : s[i] # c
       ELSE CharAt(s, at) = c /\ IndexOf(s, <<c>>, at + 1) = None

(***************************************************************************)
(* A stream of ASCII goes to a client whole and in order, up to where the  *)
(* system takes no more, however small the pieces are; a file does with    *)
(* any bytes.                                                              *)
(***************************************************************************)
StreamAgrees(data, chunk, sends) ==
  LET put == ClientWriteStream(StreamWrite(EmptyStream, data), chunk, sends)
      room == FoldLeft(LAMBDA n, s : n + s, 0, sends)
  IN (\A i \in DOMAIN data : data[i] < 128) =>
       /\ IsPrefix(put.sent, data) /\ put.total = Len(put.sent)
       /\ (\A i \in DOMAIN sends : sends[i] >= chunk) /\ chunk * Len(sends) >= Len(data) => put.sent = data
       /\ put.total <= room
       /\ ReadBytes(StreamWrite(EmptyStream, data), chunk).bytes
            = SubSeq(data, 1, IF chunk < Len(data) THEN chunk ELSE Len(data))

(***************************************************************************)
(* A client is connected to the first address that answers; a connection   *)
(* it had is given up for that and kept if none does; and no descriptor is *)
(* left open but the one it is connected by.                               *)
(***************************************************************************)
ConnectionsAgree(calls) ==
  LET Step(client, c) == IF c.call = "stop" THEN ClientStop(client) ELSE ClientConnect(client, c.addresses).client
      client == StatesOf(Step, Disconnected, calls)
  IN \A i \in 1 .. Len(calls) :
       LET c == calls[i]
           answering == SelectSeq(c.addresses, LAMBDA a : a.socket /\ a.answers)
       IN /\ DOMAIN client[i].open = {client[i].fd} \ {NoFd}
          /\ c.call = "stop" => ~ClientConnected(client[i])
          /\ c.call = "connect" =>
               IF answering = <<>> THEN client[i] = client[i - 1]
               ELSE ClientConnected(client[i]) /\ client[i].open[client[i].fd] = answering[1].name

(***************************************************************************)
(* A key that was wrapped here unwraps here, and what was changed since,   *)
(* or is unwrapped under another key, does not.                            *)
(***************************************************************************)
SealedAgrees(key, text, iv, aad, place) ==
  LET aes == AesSetKey(NoAes, key)
      sealed == GcmEncrypt(aes.aes, text, iv, aad)
      other == AesSetKey(NoAes, [key EXCEPT ![1] = (@ + 1) % 256]).aes
      changed == [sealed.out EXCEPT ![place] = @ ^^ 1]
  IN /\ aes.result = 0 <=> Len(key) \in {16, 24, 32}
     /\ aes.result = 0 =>
          /\ GcmDecrypt(aes.aes, sealed.out, iv, sealed.tag, 16, aad) = [result |-> 0, out |-> text]
          /\ GcmDecrypt(other, sealed.out, iv, sealed.tag, 16, aad).result = -1
          /\ place \in DOMAIN text => GcmDecrypt(aes.aes, changed, iv, sealed.tag, 16, aad).result = -1
=============================================================================
