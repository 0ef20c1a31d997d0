----------------------------- MODULE Conversions -----------------------------
(***************************************************************************)
(* The pure parts of the simulator against what they are for: every step   *)
(* takes one input out of Inputs, and the invariants compare what the code *)
(* makes of it with a definition of what should come of it.                *)
(***************************************************************************)
EXTENDS RequestText, Multipart, WireFrames, ScreenGeometry, InputSchedule, FileWindow, Platform

CONSTANT Inputs  \* records with a field "kind" that says what they are an input to

VARIABLE input

NoInput == [kind |-> "none"]
Init == input = NoInput
Convert == input = NoInput /\ input' \in Inputs
Next == Convert
Spec == Init /\ [][Next]_input

-----------------------------------------------------------------------------
(***************************************************************************)
(* Readers, after the standards of JSON, XML and scripts.  NoChar stands   *)
(* where the standard allows no character, so that the text is not one.    *)
(***************************************************************************)
NoChar == -1

XmlEntities ==
  {[text |-> <<97, 109, 112, 59>>, is |-> Amp], [text |-> <<108, 116, 59>>, is |-> Less],
   [text |-> <<103, 116, 59>>, is |-> Greater], [text |-> <<113, 117, 111, 116, 59>>, is |-> Quote],
   [text |-> <<97, 112, 111, 115, 59>>, is |-> Apostrophe]}
XmlRead(t) ==
  LET read[i \in 1 .. Len(t) + 1] ==
        IF i > Len(t) THEN <<>>
        ELSE IF t[i] # Amp THEN <<IF t[i] = Less THEN NoChar ELSE t[i]>> \o read[i + 1]
        ELSE LET e == CHOOSE e \in XmlEntities : SubSeq(t, i + 1, i + Len(e.text)) = e.text
             IN <<e.is>> \o read[i + 1 + Len(e.text)]
  IN read[1]

\* A JSON or script string between quotes: \\, \", \', \n, \r, \t, \u00xx, and any
\* other character but the forbidden ones.
StringRead(t, forbidden) ==
  LET Short(c) == CASE c = 110 -> LF [] c = 114 -> CR [] c = 116 -> Tab [] OTHER -> c
      read[i \in 1 .. Len(t) + 1] ==
        IF i > Len(t) THEN <<>>
        ELSE IF t[i] # Backslash
        THEN <<IF t[i] \in forbidden THEN NoChar ELSE t[i]>> \o read[i + 1]
        ELSE IF i = Len(t) THEN <<NoChar>>
        ELSE IF t[i + 1] = 117 THEN <<TwoHexValue(t[i + 4], t[i + 5])>> \o read[i + 6]
        ELSE <<Short(t[i + 1])>> \o read[i + 2]
  IN read[1]

Controls == 0 .. 31
InJson == Controls \cup {Quote}
InScript == {LF, CR, Apostrophe}

ShellRead(t) ==  \* a word of a POSIX shell
  FoldLeft(LAMBDA r, c :
             IF r.escaped THEN [r EXCEPT !.word = Append(@, c), !.escaped = FALSE]
             ELSE IF c = Apostrophe THEN [r EXCEPT !.quoted = ~@]
             ELSE IF c = Backslash /\ ~r.quoted THEN [r EXCEPT !.escaped = TRUE]
             ELSE [r EXCEPT !.word = Append(@, c)],
           [word |-> <<>>, quoted |-> FALSE, escaped |-> FALSE], t).word

(***************************************************************************)
(* A name that a listing shows comes back as the same entry of the card:   *)
(* through the page's links and forms (CrossPointWebServer.cpp:641-680),   *)
(* a WebDAV client's percent-encoded path or Destination, the escapes of   *)
(* the listings and the arguments of the firmware's own server.  Queries   *)
(* and forms give back every name; the paths made of them are decoded once *)
(* more, so that names with "%" or "+" are left out there.  The page puts  *)
(* a name into a script within an attribute and escapes neither for the    *)
(* attribute nor the line's end for the script (lines 646, 654-659): names *)
(* with a quote, "&", LF or CR are left out there, since their buttons may *)
(* do nothing.  WebDAV's listing escapes no control character: names with  *)
(* one that XML does not allow, or with CR, are left out there.            *)
(* The name reaches curl through the shell, and is the one that a mock     *)
(* folder is searched for.                                                 *)
(***************************************************************************)
Encoded(path) ==
  FoldLeft(LAMBDA t, c : t \o IF c = Slash THEN <<c>> ELSE EncChar(c), <<>>, path)
NamesComeBack(dir, name) ==
  LET path == Join(dir, name)
      form == RenameBody(dir, name, name)
      plain == Range(path) \cap {Percent, Plus} = {}
      http == <<104, Colon, Slash, Slash, 104>>
      card == <<Dot>>
  IN /\ ParseQuery(form) = [key \in {PathKey, NameKey} |-> IF key = PathKey THEN path ELSE name]
     /\ ParseArgs(form) = <<[name |-> PathKey, value |-> path], [name |-> NameKey, value |-> name]>>
     /\ plain => \A taken \in {QueryPath(DownloadTarget(dir, name), PathKey, <<>>),
                               FormPath(form, PathKey), WebDavPath(Encoded(path)),
                               DeletePath(Encoded(path)), DestinationPath(http \o Encoded(path))} :
                   taken = path
     /\ StringRead(JsonEscape(name), InJson) = name
     /\ Range(name) \cap (Controls \ {Tab, LF}) = {} => XmlRead(Href(path, FALSE)) = path
     /\ Range(name) \cap {Quote, Amp, LF, CR} = {} => StringRead(Js(name), InScript) = name
     /\ path = ChildOf(dir, name) /\ BasenameOf(path) = name
     /\ ParentOf(path) = dir /\ Up(path) = dir
     /\ FileName(ResolveStoragePath(card, path), Slash, 500) = name
     /\ IsProtectedPath(path) <=> IsProtectedName(name) \/ (dir # <<Slash>> /\ IsProtectedName(Tail(dir)))
     /\ Range(HeaderSafeFilename(name)) \cap {Quote, Backslash, CR, LF} = {}
     /\ ShellRead(ShellQuote(path)) = path
     /\ BasenameFromUrl(http \o Encoded(path) \o <<Question, Slash, 97>>) = name

(***************************************************************************)
(* Whatever the text of a target, a path that is not refused begins with a *)
(* slash, has no empty or ".." part and no slash at its end, and is the    *)
(* same path below the card's root.                                        *)
(***************************************************************************)
PathsAreClean(target) ==
  \A path \in {RequestPath(target), WebDavPath(target)} \ {<<>>} :
    /\ path[1] = Slash
    /\ path # <<Slash>> =>
         /\ Range(Split(Tail(path), Slash)) \cap {<<>>, <<Dot, Dot>>} = {}
         /\ ResolveStoragePath(<<Dot>>, path) = <<Dot>> \o path

(***************************************************************************)
(* The pairs of a query, of which empty items are none, are the arguments  *)
(* that a handler counts, names and gets, of equal names the first; and a  *)
(* header is found whatever its case.                                      *)
(***************************************************************************)
QueryText(pairs, gap) ==
  Tail(FoldLeft(LAMBDA t, p : t \o gap \o <<Amp>> \o Enc(p.name) \o <<Equal>> \o Enc(p.value), <<Amp>>, pairs))
ArgumentsAnswered(pairs, gap) ==
  LET args == ParseArgs(QueryText(pairs, gap))
      Shouted(s) == [i \in DOMAIN s |-> IF s[i] \in LowerCase THEN s[i] - 32 ELSE s[i]]
      Value(name) == (CHOOSE p \in Range(pairs) : p.name = name).value
      alone == \A i, j \in DOMAIN pairs : pairs[i].name = pairs[j].name => i = j
  IN /\ \A i \in -1 .. Len(pairs) :
          LET p == IF i + 1 \in DOMAIN pairs THEN pairs[i + 1] ELSE [name |-> <<>>, value |-> <<>>]
          IN NthName(args, i) = p.name /\ NthValue(args, i) = p.value
     /\ \A i \in DOMAIN pairs :
          LET name == pairs[i].name IN
          /\ HasArgName(args, name) /\ HasHeaderName(pairs, Shouted(name))
          /\ (\A j \in 1 .. i - 1 : pairs[j].name # name) => ArgByName(args, name) = pairs[i].value
          /\ alone => ArgByName(args, name) = Value(name)
                      /\ HeaderByName(pairs, Shouted(name)) = Value(name)
     /\ ~HasArgName(args, NameKey) /\ HeaderByName(pairs, NameKey) = <<>>

(***************************************************************************)
(* An address that a page gives is after RFC 3986 that of the page, up to  *)
(* its last slash, and the text; for pages whose address has no query.     *)
(***************************************************************************)
Joined(parts) == Tail(FoldLeft(LAMBDA t, part : t \o <<Slash>> \o part, <<>>, parts))
LocationsFollowed(host, path, location) ==
  LET scheme == <<104, Colon>>
      page == <<scheme, <<>>, host>> \o path
      got == ResolveUrl(Joined(page), location)
      folder == IF path = <<>> THEN page ELSE Front(page)
  IN /\ got.ok /\ ~ResolveUrl(host, location).ok
     /\ got.url = IF location # <<>> /\ location[1] = Slash
                  THEN Joined(<<scheme, <<>>, host \o location>>)
                  ELSE Joined(folder \o <<location>>)
     /\ ResolveUrl(host, got.url) = got

HeadersRead(name, value, blanks) ==
  Header(name \o <<Colon>> \o blanks \o value \o blanks) = [name |-> Lower(name), value |-> value]

(***************************************************************************)
(* The two multipart readers give back the parts of a form as browsers     *)
(* write it, for data without the boundary's text.                         *)
(***************************************************************************)
Quoted(text) == <<QuoteMark>> \o text \o <<QuoteMark>>
PartText(part) ==
  <<Dashes, Boundary, CRLF, NameIs>> \o Quoted(part.name)
    \o (IF part.filename = <<>> THEN <<>> ELSE <<FilenameIs>> \o Quoted(part.filename))
    \o BlankLine \o part.data \o <<CRLF>>
FormText(parts) ==
  FlattenSeq([i \in DOMAIN parts |-> PartText(parts[i])]) \o <<Dashes, Boundary, Dashes, CRLF>>
LastPart(name) ==
  CHOOSE last \in {SubSeq(name, i, Len(name)) : i \in 1 .. Len(name) + 1} :
    "/" \notin Range(last) /\ (last = name \/ name[Len(name) - Len(last)] = "/")
UploadsComeBack(parts, type) ==
  LET files == SelectSeq(parts, LAMBDA part : part.filename # <<>>)
  IN /\ ParseMultipart(type, FormText(parts)) = parts
     /\ ~type.quoted /\ ~type.more =>
          ParseMultipartFile(type, FormText(parts)) =
            IF files = <<>> THEN NoFile
            ELSE [ok |-> TRUE, filename |-> LastPart(files[1].filename), bytes |-> files[1].data]

FormsRoundTrip ==
  CASE input.kind = "name" -> NamesComeBack(input.dir, input.name)
    [] input.kind = "target" -> PathsAreClean(input.target)
    [] input.kind = "arguments" -> ArgumentsAnswered(input.pairs, input.gap)
    [] input.kind = "location" -> LocationsFollowed(input.host, input.path, input.location)
    [] input.kind = "header" -> HeadersRead(input.name, input.value, input.blanks)
    [] input.kind = "form" -> UploadsComeBack(input.parts, input.type)
    [] OTHER -> TRUE

-----------------------------------------------------------------------------
(***************************************************************************)
(* Frames after RFC 6455: what a client sends, in the shortest length it   *)
(* may use, is read back with its opcode, unmasked, and nothing of what    *)
(* follows it; a client reads what the server sends; a stream that ends    *)
(* within a frame gives none.  A length of 64 bits is taken for the number *)
(* it is up to the limit, and refused beyond it, however long.  base64     *)
(* gives back the bytes that it was made of, and fits the size that it     *)
(* asked for.  Digests are those that FIPS 180-4 gives for messages on     *)
(* both sides of a block, and a key is accepted with the value of the RFC. *)
(***************************************************************************)
Payload(n) == [i \in 1 .. n |-> (7 * i) % 256]
RfcLength(n) ==
  IF n <= 125 THEN <<n>> ELSE IF n <= 65535 THEN <<126, n \div 256, n % 256>>
  ELSE <<127, 0, 0, 0, 0, n \div 16777216, (n \div 65536) % 256, (n \div 256) % 256, n % 256>>
ClientFrame(opcode, n, mask) ==
  LET length == RfcLength(n)
      masked == [i \in 1 .. n |-> Payload(n)[i] ^^ mask[1 + ((i - 1) % 4)]]
  IN <<Fin + opcode, 128 + length[1]>> \o Tail(length) \o mask \o masked
ServerFrame(opcode, n) == <<Fin + opcode>> \o RfcLength(n) \o Payload(n)

FramesComeBack(opcode, n, mask) ==
  LET sent == ClientFrame(opcode, n, mask)
      got == ReadWsFrame(Append(sent, 9))
  IN /\ got = [ok |-> TRUE, opcode |-> opcode, payload |-> Payload(n), rest |-> <<9>>]
     /\ \A cut \in {1, Len(sent) - n, Len(sent)} : ~ReadWsFrame(SubSeq(sent, 1, cut - 1)).ok
     /\ TextFrame(Payload(n)) = ServerFrame(TextOpcode, n)
     /\ PongFrame(Payload(n)) = IF n <= 125 THEN ServerFrame(PongOpcode, n) ELSE <<>>
Above(a, b) ==
  \E i \in DOMAIN a : a[i] > b[i] /\ \A j \in 1 .. i - 1 : a[j] = b[j]
LengthTaken(bytes) ==
  LET most == <<0, 0, 0, 0>> \o SubSeq(RfcLength(MaxPayload), 6, 9)
      Value(b) == ((b[5] * 256 + b[6]) * 256 + b[7]) * 256 + b[8]
  IN IF Above(bytes, most)
     THEN WsLength(bytes) > MaxPayload /\ ReadWsFrame(<<Fin + 2, 127>> \o bytes \o <<1>>) = NoFrame
     ELSE WsLength(bytes) = Value(bytes)
Base64ComesBack(data) ==
  LET text == Base64Encode(data)
  IN /\ Len(text) = 4 * ((Len(data) + 2) \div 3)
     /\ MbedtlsBase64Decode(text, Len(data)) = [result |-> "ok", olen |-> Len(data), dst |-> data]
     /\ data # <<>> => MbedtlsBase64Decode(text, Len(data) - 1).result = "too small"

FramesRoundTrip ==
  CASE input.kind = "frame" -> FramesComeBack(input.opcode, input.n, input.mask)
    [] input.kind = "length" -> LengthTaken(input.bytes)
    [] input.kind = "base64" -> Base64ComesBack(input.data)
    [] input.kind = "digest" -> Sha1Digest(Payload(input.n)) = input.digest
    [] input.kind = "key" -> WebsocketAcceptValue(input.key) = input.accept
    [] OTHER -> TRUE

-----------------------------------------------------------------------------
(***************************************************************************)
(* A touch on the picture reaches the pixel of the panel that is shown     *)
(* there, in every orientation, but for the pixel that a float may lose;   *)
(* so does a script's coordinate, except 1.  A contact outside the screen, *)
(* in the strip too, is on the pixel next to it.                           *)
(* The strip's keys are below the screen, apart from each other, and each  *)
(* is pressed by the points it is drawn on, its glyph's among them; no two *)
(* look alike, and the one touched is the one that fills.  An image lands  *)
(* on the pixels it is drawn at, cut off at the panel's edges.             *)
(***************************************************************************)
PixelFound(o, px, py, down) ==
  LET shown == ShownAt(o, px, py)
      finger == FingerToLogical(o, shown.x, shown.y, FALSE)
      hit == LogicalToPanel(o, finger.at, down)
      back == ShownAt(o, hit.x, hit.y)
  IN /\ finger.ok
     /\ hit.x \in 0 .. Width - 1 /\ hit.y \in 0 .. Height - 1
     /\ down = Pixel(0, 0) => hit = Pixel(px, py)
     /\ back.x \in {shown.x, shown.x - down.x} /\ back.y \in {shown.y, shown.y - down.y}
     /\ shown.x # 1 => ScriptCoordinate(shown.x, ScreenWidth(o)) = shown.x

Apart(a, b) == IF a < b THEN b - a ELSE a - b
ContactKept(o, x, y, strip) ==
  LET window == WindowAfterPresent([w |-> Height, h |-> Width + strip], o, strip)
      kept == FingerToLogical(o, x, y, FALSE)
  IN /\ window = LogicalWindowSize(o, strip)
     /\ kept.ok /\ Inside(o, kept.at.x, kept.at.y)
     /\ \A e \in 0 .. ScreenWidth(o) - 1 : Apart(x, kept.at.x) <= Apart(x, e)
     /\ \A e \in 0 .. ScreenHeight(o) - 1 : Apart(y, kept.at.y) <= Apart(y, e)

KeysFound(board, w, h, phone) ==
  LET controls == StripControls(board)
      strip == StripHeight(TRUE, controls, phone)
      rects == Layout(controls, w, h + strip, strip)
      idle == Render(controls, rects, 0, {})
      Marks(i, rect) == Strokes(GlyphOf[controls[i]], rect)
  IN /\ {"UP", "DOWN", "POWER"} \cup (IF board.hasTouch THEN {} ELSE {"BACK", "CONFIRM", "LEFT", "RIGHT"})
          \subseteq {controls[i] : i \in DOMAIN controls}
     /\ \A i \in DOMAIN rects :
       /\ \A stroke \in idle[i].strokes :
            \A x \in {Box(stroke).left, Box(stroke).right}, y \in {Box(stroke).top, Box(stroke).bottom} :
              PressedControl(rects, x, y) = i
       /\ \A j \in DOMAIN rects \ {i} : Marks(i, rects[i]) # Marks(j, rects[i])
       /\ LET touched == Render(controls, rects, i, {controls[i]}) IN
          \A j \in DOMAIN rects : touched[j].filled <=> j = i
       /\ rects[i].size > 0
       /\ rects[i].x >= 0 /\ rects[i].x + rects[i].size <= w
       /\ rects[i].y >= h /\ rects[i].y + rects[i].size <= h + strip
       /\ \A x \in {rects[i].x, rects[i].x + rects[i].size - 1} :
            \A y \in {rects[i].y, rects[i].y + rects[i].size - 1} :
              PressedControl(rects, x, y) = i
       /\ PressedControl(rects, rects[i].x - 1, rects[i].y) # i

ImageDrawn(x, y, w, h) ==
  LET drawn == DrawnBytes(x, y, w, h)
      left == 8 * (x \div 8)
  IN \A px \in 0 .. Width - 1, py \in 0 .. Height - 1 :
       LET at == [byte |-> px \div 8, row |-> py] IN
       /\ at \in DOMAIN drawn <=> px \in left .. left + 8 * (w \div 8) - 1 /\ py \in y .. y + h - 1
       /\ at \in DOMAIN drawn => 8 * drawn[at].col + (px % 8) = px - left /\ drawn[at].row = py - y

TouchFindsPixel ==
  CASE input.kind = "pixel" -> PixelFound(input.orientation, input.px, input.py, input.down)
    [] input.kind = "contact" -> ContactKept(input.orientation, input.x, input.y, input.strip)
    [] input.kind = "strip" -> KeysFound(input.board, input.w, input.h, input.phone)
    [] input.kind = "image" -> ImageDrawn(input.x, input.y, input.w, input.h)
    [] OTHER -> TRUE

-----------------------------------------------------------------------------
(***************************************************************************)
(* A script whose items hold for a positive time, a touch for at least its *)
(* samples, and do not use one key at two times at once leaves nothing     *)
(* down, in every order the sort may give: each key and the finger go down *)
(* and up in turn, and a swipe moves only between the two, from where it   *)
(* began to where it ends.                                                 *)
(***************************************************************************)
Uses(item) ==
  IF item.key \in {"TAP", "SWIPE"} THEN IF item.from = NoField THEN NoField ELSE "touch"
  ELSE IF item.key = "HOME" THEN "HOME" ELSE NamedButton(item.key)
Lasts(item) == IF item.hold # NoField THEN item.hold ELSE IF item.key = "SWIPE" THEN 250 ELSE 80
InTurn(script) ==
  /\ \A i \in DOMAIN script : Lasts(script[i]) >= IF script[i].key = "SWIPE" THEN Samples ELSE 1
  /\ \A i, j \in DOMAIN script :
       (/\ i # j /\ Uses(script[i]) = Uses(script[j]) /\ Uses(script[i]) # NoField
        /\ script[i].time # NoField /\ script[j].time # NoField) =>
         \/ script[i].time + Lasts(script[i]) < script[j].time
         \/ script[j].time + Lasts(script[j]) < script[i].time

Between(a, b, c) == (a <= b /\ b <= c) \/ (c <= b /\ b <= a)
LetsGo(order, what) ==
  LET own == SelectSeq(order, LAMBDA e : e.what = what)
      Follows(i) ==
        CASE own[i].action = "down" -> i = 1 \/ own[i - 1].action = "up"
          [] own[i].action = "up" -> i > 1 /\ own[i - 1].action # "up"
          [] own[i].action = "move" ->
               /\ i > 1 /\ i < Len(own) /\ own[i - 1].action # "up"
               /\ Between(own[i - 1].pos, own[i].pos, own[i + 1].pos)
  IN /\ \A i \in DOMAIN own : Follows(i)
     /\ own # <<>> => Last(own).action = "up"

(***************************************************************************)
(* Every screenshot that a list asks for is taken at its time, of what its *)
(* name says, whatever else stands between the semicolons.                 *)
(***************************************************************************)
ShotText(shot) ==
  (IF shot.atMs < 10 THEN <<>> ELSE <<Figures[1 + shot.atMs \div 10]>>)
    \o <<Figures[1 + (shot.atMs % 10)], ":">>
    \o shot.path \o (IF shot.panel THEN <<PanelSuffix>> ELSE <<>>)
ShotsTaken(shots, other) ==
  LET spec == FlattenSeq([i \in DOMAIN shots |-> ShotText(shots[i]) \o <<";">> \o other \o <<";">>])
      events == ScreenshotEvents(spec)
  IN /\ Len(events) = Len(shots)
     /\ \A i \in DOMAIN shots :
          events[i].atMs = shots[i].atMs /\ SavesPanel(events[i]) = shots[i].panel

ScheduleLetsGo ==
  /\ input.kind = "shots" => ShotsTaken(input.shots, input.other)
  /\ input.kind = "script" =>
    LET script == input.script
        events == EventsOfScript(script)
        Asks(keys) == {i \in DOMAIN script : script[i].key \in keys /\ script[i].time # NoField}
        Of(action) == SelectSeq(events, LAMBDA e : e.action = action)
    IN /\ InTurn(script) =>
            \A order \in Orders(events) :
              \A what \in {Uses(script[i]) : i \in DOMAIN script} \ {NoField} : LetsGo(order, what)
       /\ Len(Of("sleep")) = Cardinality(Asks({"S", "SLEEP"}))
       /\ Len(Of("quit")) = Cardinality(Asks({"QUIT"}))

-----------------------------------------------------------------------------
(***************************************************************************)
(* A window onto an entry of a container behaves as a file that is only    *)
(* the entry, whatever is sought and read; a whole file does as long as    *)
(* nothing is sought beyond its end.  What is written is read back through *)
(* the same handle, and what is appended never touches what was there.  A  *)
(* buffer gets the file's beginning and a stream all of it; stamps of two  *)
(* times that FAT tells apart are in the order of the times.               *)
(***************************************************************************)
Apply(f, op) ==
  CASE op.call = "seekSet" -> SeekSet(f, op.n)
    [] op.call = "seek64" -> Seek64(f, op.n)
    [] op.call = "seekCur" -> SeekCur(f, op.n)
    [] op.call = "read" -> Read(f, op.n)
    [] op.call = "readByte" -> ReadByte(f)
    [] op.call = "write" -> Write(f, op.data)
    [] op.call = "truncate" -> Truncate(f, op.n)
Target(f, op) == IF op.call = "seekCur" THEN f.pos + op.n ELSE op.n
ApplyToFile(f, op) ==
  LET target == Target(f, op)
      end == f.pos + IF op.call = "readByte" THEN 1 ELSE op.n
      got == SubSeq(f.data, f.pos + 1, IF end > Len(f.data) THEN Len(f.data) ELSE end)
  IN IF op.call \in {"read", "readByte"}
     THEN Gives([f EXCEPT !.pos = @ + Len(got)], got)
     ELSE IF target \in 0 .. Len(f.data) THEN Gives([f EXCEPT !.pos = target], TRUE)
     ELSE Gives(f, FALSE)

SameAsFile(opened, data, ops) ==
  LET Step(s, op) ==
        LET code == Apply(s.code, op)
            file == ApplyToFile(s.file, op)
            outside == op.call \notin {"read", "readByte"}
                         /\ Target(s.file, op) \in Len(data) + 1 .. MaxOffset
        IN [code |-> code.file, file |-> file.file,
            same |-> /\ s.same
                     /\ (~s.code.windowed /\ outside) \/
                          /\ code.result = file.result
                          /\ Position(code.file) = file.file.pos
                          /\ Available(code.file) = Len(data) - file.file.pos,
            beyond |-> s.beyond \/ (~s.code.windowed /\ outside)]
      run[i \in 0 .. Len(ops)] ==
        IF i = 0 THEN [code |-> opened, file |-> [data |-> data, pos |-> 0], same |-> TRUE,
                       beyond |-> FALSE]
        ELSE Step(run[i - 1], ops[i])
  IN run[Len(ops)].beyond \/ run[Len(ops)].same

RunOf(f, ops) ==
  LET run[i \in 0 .. Len(ops)] == IF i = 0 THEN f ELSE Apply(run[i - 1], ops[i]).file
  IN run[Len(ops)]
WritesComeBack(before, ops, data) ==
  LET written == RunOf(OpenForWrite(before), ops)
      put == Write(written, data)
      back == Read(SeekSet(put.file, written.offset).file, Len(data))
      appended == RunOf(OpenForAppend(before), SelectSeq(ops, LAMBDA op : op.call # "truncate"))
  IN /\ put.result = Len(data) /\ back.result = data
     /\ IsPrefix(before, appended.bytes)
     /\ Len(appended.bytes) = Len(before)
          + FoldLeft(LAMBDA n, op : n + IF op.call = "write" THEN Len(op.data) ELSE 0, 0, ops)

Earlier(a, b) ==
  LET Text(t) == <<t.year, t.month, t.day, t.hour, t.minute, t.second \div 2>>
      differ == {i \in 1 .. 6 : Text(a)[i] # Text(b)[i]}
  IN differ # {} /\ LET i == Least(differ) IN Text(a)[i] < Text(b)[i]
StampsInOrder(a, b) ==
  LET s == ModifiedStamp(a)
      t == ModifiedStamp(b)
  IN Earlier(a, b) /\ a.year >= 1980 /\ b.year <= 2107 =>
       s.date < t.date \/ (s.date = t.date /\ s.time < t.time)

WindowIsAFile ==
  CASE input.kind = "window" ->
         LET entry == OpenEntry(input.bytes, input.start, input.length)
             data == SubSeq(input.bytes, input.start + 1, input.start + input.length)
         IN /\ entry.result <=> input.start + input.length <= Len(input.bytes)
            /\ entry.result => SameAsFile(entry.file, data, input.ops)
    [] input.kind = "file" -> SameAsFile(Opened(input.bytes), input.bytes, input.ops)
    [] input.kind = "buffer" ->
         LET got == ReadFileToBuffer(input.bytes, input.size, input.most)
         IN /\ IsPrefix(got, input.bytes) /\ Len(got) < input.size
            /\ input.most > 0 => Len(got) <= input.most
            /\ Len(input.bytes) < input.size /\ input.most = 0 => got = input.bytes
    [] input.kind = "writing" -> WritesComeBack(input.before, input.ops, input.data)
    [] input.kind = "stamp" -> StampsInOrder(input.earlier, input.later)
    [] input.kind = "stream" -> ReadFileToStream(input.bytes, input.chunk) = input.bytes
    [] OTHER -> TRUE

(***************************************************************************)
(* The stand-ins for the device's boards, light, ports, memory, clock,     *)
(* radio, settings, images, texts and keys answer as the firmware expects: *)
(* each as Platform.tla states it.                                         *)
(***************************************************************************)
PlatformAgrees ==
  CASE input.kind = "build" -> BuildAgrees(input.flags)
    [] input.kind = "light" -> LightAgrees(input.flags, input.calls)
    [] input.kind = "ports" -> PortsAgree(input.setting)
    [] input.kind = "memory" ->
         MemoryAgrees(input.total, input.sizes, input.back, input.largest, input.free)
    [] input.kind = "clock" -> ClockAgrees(input.moment, input.biased, input.size)
    [] input.kind = "networks" -> NetworksAgree(input.networks, input.apart)
    [] input.kind = "radio" -> RadioAgrees(input.calls)
    [] input.kind = "settings" -> SettingsAgree(input.ops)
    [] input.kind = "picture" ->
         PictureAgrees(input.file, input.handle, input.size, input.pieces, input.scale, input.refuses)
    [] input.kind = "text" -> TextAgrees(input.text, input.find, input.with)
    [] input.kind = "connections" -> ConnectionsAgree(input.calls)
    [] input.kind = "sent" -> StreamAgrees(input.data, input.chunk, input.sends)
    [] input.kind = "sealed" -> SealedAgrees(input.key, input.text, input.iv, input.aad, input.place)
    [] OTHER -> TRUE
=============================================================================
