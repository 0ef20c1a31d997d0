---------------------------- MODULE FileTransfer ----------------------------
(***************************************************************************)
(* The File Transfer server, CrossPointWebServer.cpp, on the card of       *)
(* Storage.tla, together with the firmware that uses the card meanwhile.   *)
(*                                                                         *)
(* One worker thread accepts a connection, serves its one request to the   *)
(* end and closes it.  The firmware thread starts and stops the server,    *)
(* reads a file (HalStorage::readFile, readFileToString) and walks a       *)
(* directory, closing it on the way and coming back to where it was.       *)
(* Nothing locks the card: the two threads meet between any two calls.     *)
(***************************************************************************)
EXTENDS Storage

CONSTANTS
  Protected,     \* the names requests may not touch: Dotted, "XTCache", ...
  InitialCards,  \* what may be on the card to begin with
  Named,         \* the paths that requests and the firmware name
  Bodies,        \* the contents that are uploaded
  WalkDir,       \* the directory the firmware walks
  Hidden,        \* blocks that only protected files hold to begin with
  MaxRequests,   \* bound: requests served that may change the card
  MaxFaults,     \* bound: writes that come out short, reads that fail
  MaxCalls,      \* bound: reads and walks by the firmware
  NoName, Nul    \* not a name; the byte of a buffer nothing was read into

ASSUME TransferAssumption ==
  /\ Dotted \subseteq Protected /\ Protected \subseteq Names
  /\ NoName \notin Names
  /\ {MaxRequests, MaxFaults, MaxCalls} \subseteq Nat
  /\ Named \subseteq Seq(Names) \ {Root} /\ WalkDir \in Seq(Names)
  /\ Bodies \subseteq Seq(Blocks \ Hidden)

VARIABLES
  card,       \* the SD card
  running,    \* CrossPointWebServer::running, the state registered in states
  active,     \* NativeServerState::active
  listening,  \* the listening socket is open
  pc,         \* where the worker is
  req,        \* the request being served
  reply,      \* what was answered to it
  sent,       \* the names and the blocks that the answer carries
  todo,       \* copyPath: what is still to be copied, innermost first
  out,        \* the file being written, with the blocks still to come
  upload,     \* NativeServerState::uploadStatus
  before,     \* history: the card when the request came
  cut,        \* history: the copy was not shown all of its source
  served, faults, \* counters of MaxRequests and MaxFaults
  fw,         \* what the firmware thread is doing
  handle,     \* the file it reads: the size it asked for and what is in it
  got,        \* what its last read returned
  walk,       \* its walk through WalkDir
  calls       \* counter of MaxCalls

answers == <<reply, sent>>
counters == <<served, faults>>
server ==
  <<running, active, listening, pc, req, answers, todo, out, upload, before, cut, counters>>
firmware == <<fw, handle, got, walk, calls>>
vars == <<card, server, firmware>>

NoRequest == [method |-> "none", path |-> Root, to |-> Root, overwrite |-> FALSE, data |-> <<>>]
NoneSent == [names |-> {}, data |-> <<>>]
NoOut == [kind |-> "none", path |-> Root, rest |-> <<>>]
NoHandle == [size |-> 0, data |-> <<>>]
NoText == [call |-> "none", text |-> <<>>, last |-> <<>>]
NoWalk == [pos |-> 0, last |-> NoName, start |-> {}, seen |-> {}, again |-> FALSE,
           added |-> FALSE, removed |-> FALSE, gone |-> FALSE]
NoUpload == [inProgress |-> FALSE, lastName |-> NoName]

IsProtected(p) == \E i \in DOMAIN p : p[i] \in Protected

ASSUME CardsAssumption ==
  \A c \in InitialCards :
    /\ IsCard(c)
    /\ \A p \in DOMAIN c :
         ~c[p].open /\ (IsProtected(p) \/ c[p].data \in Seq(Blocks \ Hidden))

(***************************************************************************)
(* What clients ask for.  The methods in lower case are the page's own:    *)
(* POST /upload, /mkdir, /rename and /move, GET of the page itself and of  *)
(* the list of files.  "to" is the path the request ends up writing: the   *)
(* directory and the file's name for an upload, the new name beside the    *)
(* old one for /rename, the old name in the new directory for /move.       *)
(* "overwrite" is also the Depth of a PROPFIND, 1 or 0.                    *)
(***************************************************************************)
Ask(method, path, to, overwrite, data) ==
  [method |-> method, path |-> path, to |-> to, overwrite |-> overwrite, data |-> data]
AskOf(method, path, to) == Ask(method, path, to, TRUE, <<>>)

Pathless == {"OPTIONS", "LOCK", "page"}
Anywhere == Named \cup {Root}
AskPathless == {AskOf(m, Root, Root) : m \in Pathless}
AskFind == {Ask("PROPFIND", p, p, deep, <<>>) : p \in Anywhere, deep \in BOOLEAN}
AskFiles == {AskOf("files", p, p) : p \in Anywhere}
AskOne == {AskOf(m, p, p) : m \in {"GET", "HEAD", "DELETE", "MKCOL"}, p \in Named}
AskPut == {Ask("PUT", p, p, TRUE, data) : p \in Named, data \in Bodies}
AskUpload == {Ask("upload", p, Child(p, name), TRUE, data) :
                p \in Anywhere, name \in Names, data \in Bodies}
AskMkdir == {AskOf("mkdir", Front(p), p) : p \in Named}
AskRename == {AskOf("rename", p, Child(Front(p), name)) : p \in Named, name \in Names}
AskMove == {AskOf("move", p, Child(dir, Last(p))) : p \in Named, dir \in Anywhere}
AskTransfer == {Ask(m, p, q, overwrite, <<>>) :
                  m \in {"MOVE", "COPY"}, p \in Named, q \in Named, overwrite \in BOOLEAN}
Requests ==
  AskPathless \cup AskFind \cup AskFiles \cup AskOne \cup AskPut \cup AskUpload
    \cup AskMkdir \cup AskRename \cup AskMove \cup AskTransfer

(***************************************************************************)
(* The paths a handler turns down before it looks at the card.             *)
(***************************************************************************)
Reads == Pathless \cup {"PROPFIND", "files", "GET", "HEAD"}
RootAllowed == Pathless \cup {"PROPFIND", "files", "upload", "mkdir"}
Refused(r) ==
  \/ IsProtected(r.path) \/ IsProtected(r.to)
  \/ r.path = Root /\ r.method \notin RootAllowed

(***************************************************************************)
(* Bounds: a rename that would put an entry below MaxDepth is not asked,   *)
(* and what only reads the card comes before the firmware uses it: the     *)
(* firmware may begin while it is being served.                            *)
(***************************************************************************)
WithinBounds(r) ==
  /\ \/ r.method = "COPY" \/ IsStrictPrefix(r.path, r.to)
     \/ \A q \in Under(card, r.path) : Len(r.to) + Len(q) - Len(r.path) <= MaxDepth
  /\ r.method \in Reads => fw = "idle" /\ got = NoText

Init ==
  /\ card \in InitialCards
  /\ running = FALSE /\ active = FALSE /\ listening = FALSE
  /\ pc = "none" /\ req = NoRequest /\ reply = "none" /\ sent = NoneSent
  /\ todo = <<>> /\ out = NoOut /\ upload = NoUpload /\ before = <<>>
  /\ cut = FALSE /\ served = 0 /\ faults = 0
  /\ fw = "idle" /\ handle = NoHandle /\ got = NoText /\ walk = NoWalk /\ calls = 0

-----------------------------------------------------------------------------
(***************************************************************************)
(* The worker: acceptLoop.  The answer is sent before the connection is    *)
(* closed and the next one looked for.                                     *)
(***************************************************************************)
TestActive ==
  /\ pc = "loop"
  /\ pc' = IF active THEN "select" ELSE "ended"
  /\ UNCHANGED <<card, req, answers, todo, out, upload, before, cut, counters>>

SelectAgain ==  \* mutant: a timeout goes back to select() and not to the test
  /\ pc = "select"
  /\ UNCHANGED <<pc, card, req, answers, todo, out, upload, before, cut, counters>>
SelectTimesOut ==
  /\ pc = "select"
  /\ pc' = "loop"
  /\ UNCHANGED <<card, req, answers, todo, out, upload, before, cut, counters>>

Accept(r) ==
  /\ pc = "select" /\ listening
  /\ IF r.method \in Reads THEN served' = served
     ELSE served < MaxRequests /\ served' = served + 1
  /\ WithinBounds(r)
  /\ pc' = "handle" /\ req' = r /\ before' = card
  /\ UNCHANGED <<card, answers, todo, out, upload, cut, faults>>

Close ==
  /\ pc = "answered"
  /\ pc' = "loop" /\ req' = NoRequest /\ before' = <<>>
  /\ reply' = "none" /\ sent' = NoneSent /\ cut' = FALSE
  /\ UNCHANGED <<card, todo, out, upload, counters>>

AnswerWith(code, carried) == pc' = "answered" /\ reply' = code /\ sent' = carried
Answer(code) == AnswerWith(code, NoneSent)
Outcome(ok) == IF ok THEN "done" ELSE "failed"

Refuse ==
  /\ pc = "handle" /\ Refused(req)
  /\ Answer("refused")
  /\ UNCHANGED <<card, req, todo, out, upload, before, cut, counters>>

Handles(methods) == pc = "handle" /\ ~Refused(req) /\ req.method \in methods

(***************************************************************************)
(* The requests that only read.  A name that is protected is not listed; a *)
(* download is sent block by block as far as the client listens.           *)
(***************************************************************************)
ReadsOnly == UNCHANGED <<card, req, todo, out, upload, before, cut, counters>>

HandleOptions == Handles({"OPTIONS"}) /\ Answer("done") /\ ReadsOnly
HandleLock == Handles({"LOCK"}) /\ Answer("unsupported") /\ ReadsOnly
HandlePage == Handles({"page"}) /\ Answer("done") /\ ReadsOnly

Listed(names) == [NoneSent EXCEPT !.names = names]
EveryChild(p) == IF IsDir(card, p) THEN Range(Entries(card, p)) ELSE {}  \* mutant: all are listed
ShownChildren(p) == IF IsDir(card, p) THEN Range(Entries(card, p)) \ Protected ELSE {}

HandlePropfind ==
  /\ Handles({"PROPFIND"})
  /\ IF ~Has(card, req.path) THEN Answer("missing")
     ELSE AnswerWith("done", Listed(Range(req.path)
                                      \cup IF req.overwrite THEN ShownChildren(req.path) ELSE {}))
  /\ ReadsOnly

HandleFiles ==
  /\ Handles({"files"})
  /\ AnswerWith("done", Listed(ShownChildren(req.path)))
  /\ ReadsOnly

SendAll(data) == {[NoneSent EXCEPT !.data = SubSeq(data, 1, n)] : n \in 0 .. Len(data)}
NotAFile(p) ==
  \/ ~Has(card, p) /\ Answer("missing")
  \/ IsDir(card, p) /\ Answer("failed")
HandleDownload ==
  /\ Handles({"GET"})
  /\ \/ NotAFile(req.path)
     \/ /\ Has(card, req.path) /\ ~IsDir(card, req.path)
        /\ \E carried \in SendAll(card[req.path].data) : AnswerWith("done", carried)
  /\ ReadsOnly

HandleDownloadHead ==
  /\ Handles({"HEAD"})
  /\ \/ NotAFile(req.path)
     \/ Has(card, req.path) /\ ~IsDir(card, req.path) /\ Answer("done")
  /\ ReadsOnly

(***************************************************************************)
(* writeFile opens, which empties the file, then writes.  An upload first  *)
(* makes its directory, whether or not that succeeds.                      *)
(***************************************************************************)
OpenedOut(c, p, blocks) ==
  [kind |-> IF ~OpenWriteOk(c, p) THEN "refused"
            ELSE IF IsDir(EnsureParents(c, p), p) THEN "directory" ELSE "file",
   path |-> p, rest |-> blocks]

HandleUpload ==
  LET dir == IF Has(card, req.path) THEN card ELSE Mkdir(card, req.path) IN
  /\ Handles({"upload"})
  /\ card' = OpenWrite(dir, req.to)
  /\ out' = OpenedOut(dir, req.to, req.data)
  /\ upload' = [upload EXCEPT !.inProgress = TRUE]
  /\ pc' = "write"
  /\ UNCHANGED <<req, answers, todo, before, cut, counters>>

HandlePut ==
  /\ Handles({"PUT"})
  /\ card' = OpenWrite(card, req.to)
  /\ out' = OpenedOut(card, req.to, req.data)
  /\ pc' = "write"
  /\ UNCHANGED <<req, answers, todo, upload, before, cut, counters>>

WriteBody ==
  /\ pc = "write"
  /\ \E n \in 0 .. Len(out.rest) :
       LET ok == out.kind # "refused" /\ n = Len(out.rest) IN
       /\ CASE out.kind = "file" ->
                 /\ card' = WriteTo(card, out.path, SubSeq(out.rest, 1, n))
                 /\ IF ok THEN faults' = faults
                    ELSE faults < MaxFaults /\ faults' = faults + 1
            [] OTHER -> n = 0 /\ UNCHANGED <<card, faults>>
       /\ Answer(Outcome(ok))
       /\ upload' = IF req.method # "upload" THEN upload
                    ELSE [inProgress |-> FALSE, lastName |-> IF ok THEN Last(req.to) ELSE NoName]
  /\ out' = NoOut
  /\ UNCHANGED <<req, todo, before, cut, served>>

Makes ==
  /\ card' = Mkdir(card, req.to)
  /\ Answer(Outcome(MkdirOk(card, req.to)))
  /\ UNCHANGED <<req, todo, out, upload, before, cut, counters>>
HandleMkdir == Handles({"mkdir"}) /\ Makes
HandleMkcol == Handles({"MKCOL"}) /\ Makes

Renames ==
  /\ card' = Rename(card, req.path, req.to)
  /\ Answer(Outcome(RenameOk(card, req.path, req.to)))
  /\ UNCHANGED <<req, todo, out, upload, before, cut, counters>>
HandleRename == Handles({"rename"}) /\ Renames
HandleMove == Handles({"move"}) /\ Renames

HandleDelete ==
  /\ Handles({"DELETE"})
  /\ card' = RemoveTree(card, req.path)
  /\ Answer(Outcome(RemoveTreeOk(card, req.path)))
  /\ UNCHANGED <<req, todo, out, upload, before, cut, counters>>

(***************************************************************************)
(* MOVE and COPY remove a destination that exists before anything else.    *)
(***************************************************************************)
HandleTransferRefused ==
  /\ Handles({"MOVE", "COPY"})
  /\ \/ ~Has(card, req.path) /\ Answer("missing")
     \/ Has(card, req.path) /\ Has(card, req.to) /\ ~req.overwrite /\ Answer("kept")
  /\ UNCHANGED <<card, req, todo, out, upload, before, cut, counters>>

HandleTransferMerging ==  \* mutant: the destination is not removed first
  /\ Handles({"MOVE", "COPY"})
  /\ Has(card, req.path)
  /\ Has(card, req.to) => req.overwrite
  /\ pc' = "transfer" /\ todo' = <<[from |-> req.path, to |-> req.to]>>
  /\ UNCHANGED <<card, req, answers, out, upload, before, cut, counters>>

HandleTransfer ==
  /\ Handles({"MOVE", "COPY"})
  /\ Has(card, req.path)
  /\ Has(card, req.to) => req.overwrite
  /\ card' = RemoveTree(card, req.to)
  /\ IF Has(card, req.to) /\ ~RemoveTreeOk(card, req.to)
     THEN Answer("failed") /\ todo' = todo
     ELSE /\ pc' = "transfer" /\ UNCHANGED answers
          /\ todo' = <<[from |-> req.path, to |-> req.to]>>
  /\ UNCHANGED <<req, out, upload, before, cut, counters>>

DoMove ==
  /\ pc = "transfer" /\ req.method = "MOVE"
  /\ card' = Rename(card, req.path, req.to)
  /\ Answer(Outcome(RenameOk(card, req.path, req.to)))
  /\ todo' = <<>>
  /\ UNCHANGED <<req, out, upload, before, cut, counters>>

(***************************************************************************)
(* copyPath, depth first.  A directory's destination is made after the     *)
(* directory is opened and before it is read: whether the listing holds a  *)
(* destination made inside it is up to readdir().                          *)
(*                                                                         *)
(* What cannot be read: a source that does not open fails the copy, but a  *)
(* child that openNextFile() cannot open ends the listing as if it were    *)
(* the last, one that cannot be stat'ed is passed over, and a block that   *)
(* cannot be read ends its file, all three without a word.                 *)
(***************************************************************************)
Copying == pc = "transfer" /\ req.method = "COPY"

CopyFails(c) ==
  /\ card' = c /\ todo' = <<>> /\ out' = NoOut
  /\ Answer("failed")

Fault == faults < MaxFaults /\ faults' = faults + 1
NoFault == UNCHANGED <<cut, faults>>

CopyUnreadable ==
  /\ Copying /\ out = NoOut /\ todo # <<>>
  /\ IF Has(card, Head(todo).from) THEN Fault ELSE faults' = faults
  /\ CopyFails(card)
  /\ UNCHANGED <<req, upload, before, cut, served>>

Children(c, item) ==
  LET names == Ordered({i \in Places(c, item.from) : Order[i] \notin Protected})
  IN [i \in DOMAIN names |->
        [from |-> Child(item.from, names[i]), to |-> Child(item.to, names[i])]]

Heard(kids) ==
  {SubSeq(kids, 1, n - 1) : n \in DOMAIN kids} \cup {RemoveAt(kids, n) : n \in DOMAIN kids}

CopyDirectory ==
  /\ Copying /\ out = NoOut /\ todo # <<>>
  /\ LET item == Head(todo)
         made == Mkdir(card, item.to)
     IN /\ IsDir(card, item.from)
        /\ IF MkdirOk(card, item.to)
           THEN /\ card' = made
                /\ \E listed \in {card, made} :
                     LET kids == Children(listed, item) IN
                     \/ todo' = kids \o Tail(todo) /\ NoFault
                     \/ /\ \E heard \in Heard(kids) : todo' = heard \o Tail(todo)
                        /\ Fault /\ cut' = TRUE
                /\ UNCHANGED <<pc, answers, out>>
           ELSE CopyFails(made) /\ NoFault
  /\ UNCHANGED <<req, upload, before, served>>

CopyFile ==
  /\ Copying /\ out = NoOut /\ todo # <<>>
  /\ LET item == Head(todo) IN
       /\ Has(card, item.from) /\ ~IsDir(card, item.from)
       /\ IF OpenWriteOk(card, item.to)
          THEN /\ card' = OpenWrite(card, item.to)
               /\ out' = OpenedOut(card, item.to, card[item.from].data)
               /\ todo' = Tail(todo)
               /\ UNCHANGED <<pc, answers>>
          ELSE CopyFails(OpenWrite(card, item.to))
  /\ UNCHANGED <<req, upload, before, cut, counters>>

(***************************************************************************)
(* A block is copied, the last one was, one cannot be read, or one cannot  *)
(* be written: only this removes the file and fails the copy.              *)
(***************************************************************************)
CopyBlock ==
  /\ Copying /\ out # NoOut
  /\ \/ /\ out.rest = <<>>
        /\ out' = NoOut
        /\ UNCHANGED <<card, pc, answers, todo>> /\ NoFault
     \/ /\ out.rest # <<>> /\ out.kind = "file"
        /\ card' = WriteTo(card, out.path, <<Head(out.rest)>>)
        /\ out' = [out EXCEPT !.rest = Tail(@)]
        /\ UNCHANGED <<pc, answers, todo>> /\ NoFault
     \/ /\ out.rest # <<>>
        /\ out' = NoOut
        /\ UNCHANGED <<card, pc, answers, todo>> /\ Fault /\ cut' = TRUE
     \/ /\ out.rest # <<>>
        /\ IF out.kind = "file" THEN Fault ELSE faults' = faults
        /\ CopyFails(Unlink(card, out.path)) /\ cut' = cut
  /\ UNCHANGED <<req, upload, before, served>>

CopyEnds ==
  /\ Copying /\ out = NoOut /\ todo = <<>>
  /\ Answer("done")
  /\ UNCHANGED <<card, req, todo, out, upload, before, cut, counters>>

-----------------------------------------------------------------------------
(***************************************************************************)
(* What the firmware's open descriptors see of a step of the worker: the   *)
(* file being read changes under it until it is unlinked; a directory      *)
(* whose path is gone lists nothing more.                                  *)
(***************************************************************************)
Track(c) ==
  IF \E p \in DOMAIN c : c[p].open
  THEN [handle EXCEPT !.data = c[CHOOSE p \in DOMAIN c : c[p].open].data]
  ELSE handle

Listing(c) == Range(Entries(c, WalkDir))
Watch(c) ==
  IF fw \notin {"walking", "away"} THEN walk
  ELSE [walk EXCEPT !.added = @ \/ ~(Listing(c) \subseteq Listing(card)),
                    !.removed = @ \/ ~(Listing(card) \subseteq Listing(c)),
                    !.gone = @ \/ ~IsDir(c, WalkDir)]

Serves ==
  \/ Refuse \/ HandleOptions \/ HandleLock \/ HandlePage \/ HandlePropfind \/ HandleFiles
  \/ HandleDownload \/ HandleDownloadHead \/ HandleUpload \/ HandlePut \/ WriteBody
  \/ HandleMkdir \/ HandleMkcol \/ HandleRename \/ HandleMove \/ HandleDelete
  \/ HandleTransferRefused \/ HandleTransfer \/ DoMove
  \/ CopyUnreadable \/ CopyDirectory \/ CopyFile \/ CopyBlock \/ CopyEnds

Worker ==
  /\ TestActive \/ SelectTimesOut \/ (\E r \in Requests : Accept(r)) \/ Close \/ Serves
  /\ handle' = Track(card') /\ walk' = Watch(card')
  /\ UNCHANGED <<running, active, listening, fw, got, calls>>

(***************************************************************************)
(* The firmware: begin() and stop(), which takes the server's state out    *)
(* of the map, clears active, closes the socket and joins the worker.      *)
(***************************************************************************)
Begin ==
  /\ fw = "idle" /\ ~running
  /\ running' = TRUE /\ active' = TRUE /\ listening' = TRUE
  /\ pc' = "loop" /\ upload' = NoUpload
  /\ UNCHANGED <<card, req, answers, todo, out, before, cut, counters, firmware>>

StopTakes ==
  /\ fw = "idle" /\ running
  /\ running' = FALSE /\ active' = FALSE /\ fw' = "stopping"
  /\ UNCHANGED <<card, listening, pc, req, answers, todo, out, upload, before, cut, counters,
                 handle, got, walk, calls>>

StopCloses ==
  /\ fw = "stopping"
  /\ listening' = FALSE /\ fw' = "joining"
  /\ UNCHANGED <<card, running, active, pc, req, answers, todo, out, upload, before, cut, counters,
                 handle, got, walk, calls>>

StopJoins ==
  /\ fw = "joining" /\ pc = "ended"
  /\ pc' = "none" /\ fw' = "idle"
  /\ UNCHANGED <<card, running, active, listening, req, answers, todo, out, upload, before, cut,
                 counters, handle, got, walk, calls>>

(***************************************************************************)
(* A whole file read: opened and its size asked for, then read.  readFile  *)
(* returns the buffer it made for that size, readFileToString only a       *)
(* buffer the read has filled.                                             *)
(***************************************************************************)
ReadOpens(p) ==
  /\ fw = "idle" /\ calls < MaxCalls
  /\ Has(card, p) /\ ~card[p].dir
  /\ card' = [card EXCEPT ![p].open = TRUE]
  /\ handle' = [size |-> Len(card[p].data), data |-> card[p].data]
  /\ got' = NoText
  /\ fw' = "reading" /\ calls' = calls + 1
  /\ UNCHANGED <<server, walk>>

Buffer ==
  [i \in 1 .. handle.size |-> IF i <= Len(handle.data) THEN handle.data[i] ELSE Nul]

Returns(call, text) ==
  /\ fw = "reading"
  /\ got' = [got EXCEPT !.call = call, !.text = text, !.last = handle.data]
  /\ card' = [p \in DOMAIN card |-> [card[p] EXCEPT !.open = FALSE]]
  /\ handle' = NoHandle /\ fw' = "idle"
  /\ UNCHANGED <<server, walk, calls>>

ReadFile == Returns("readFile", Buffer)

ReadFileToStringUnchecked == Returns("readFileToString", Buffer)  \* mutant: short reads accepted
ReadFileToString ==
  Returns("readFileToString", IF Len(handle.data) < handle.size THEN <<>> ELSE Buffer)

(***************************************************************************)
(* A walk: openNextFile() counts every entry readdir() returns, "." and    *)
(* ".." included, and seekSet() reads as many again.                       *)
(***************************************************************************)
WalkOpens ==
  /\ fw = "idle" /\ calls < MaxCalls /\ IsDir(card, WalkDir)
  /\ walk' = [NoWalk EXCEPT !.start = Listing(card)]
  /\ fw' = "walking" /\ calls' = calls + 1
  /\ UNCHANGED <<card, server, handle, got>>

IndexOf(name) == CHOOSE i \in DOMAIN Order : Order[i] = name
Ahead ==
  LET later == {i \in Places(card, WalkDir) : walk.last = NoName \/ i > IndexOf(walk.last)}
  IN IF walk.gone THEN <<>> ELSE Ordered(later)

CountedEntries(pos) == pos + 1  \* mutant: "." and ".." are not counted
Counted(pos) == (IF pos < 2 THEN 2 ELSE pos) + 1

WalkNext ==
  /\ fw = "walking" /\ Ahead # <<>>
  /\ walk' = [walk EXCEPT !.pos = Counted(@), !.last = Head(Ahead),
                          !.seen = @ \cup {Head(Ahead)}, !.again = @ \/ Head(Ahead) \in walk.seen]
  /\ UNCHANGED <<card, server, fw, handle, got, calls>>

WalkEnds ==
  /\ fw = "walking" /\ Ahead = <<>>
  /\ fw' = "walked"
  /\ UNCHANGED <<card, server, handle, got, walk, calls>>

WalkLeaves ==
  /\ fw = "walking" /\ walk.pos > 0
  /\ fw' = "away"
  /\ UNCHANGED <<card, server, handle, got, walk, calls>>

SeekSet(pos) == IF pos > 2 THEN Entries(card, WalkDir)[pos - 2] ELSE NoName

WalkReturns ==
  /\ fw = "away"
  /\ IF IsDir(card, WalkDir) /\ walk.pos <= 2 + Len(Entries(card, WalkDir))
     THEN /\ walk' = [walk EXCEPT !.last = SeekSet(walk.pos), !.gone = FALSE]
          /\ fw' = "walking"
     ELSE walk' = NoWalk /\ fw' = "idle"
  /\ UNCHANGED <<card, server, handle, got, calls>>

WalkForgotten ==
  /\ fw = "walked"
  /\ walk' = NoWalk /\ fw' = "idle"
  /\ UNCHANGED <<card, server, handle, got, calls>>

Firmware ==
  \/ Begin \/ StopTakes \/ StopCloses \/ StopJoins
  \/ \E p \in Named : ReadOpens(p)
  \/ ReadFile \/ ReadFileToString
  \/ WalkOpens \/ WalkNext \/ WalkEnds \/ WalkLeaves \/ WalkReturns \/ WalkForgotten

Next == Worker \/ Firmware

(***************************************************************************)
(* The worker runs, and a client that says nothing for five seconds is     *)
(* given up: the socket has a timeout for what it receives.  It has none   *)
(* for what is sent: the page, a list or a file may be more than the host  *)
(* buffers, and sendAll() waits until the client takes it, for ever if it  *)
(* never does.  stop() goes on once it was called.  Whether clients come,  *)
(* and what the firmware does of its own accord, is not promised.          *)
(***************************************************************************)
Streaming ==
  \/ Handles({"page", "PROPFIND", "files"})
  \/ Handles({"GET"}) /\ Has(card, req.path) /\ ~IsDir(card, req.path)

Spec ==
  /\ Init /\ [][Next]_vars
  /\ WF_vars(Worker /\ ~Streaming) /\ WF_vars(StopCloses) /\ WF_vars(StopJoins)

-----------------------------------------------------------------------------
(***************************************************************************)
(* The descriptor the firmware holds and the mark on the card agree, a     *)
(* half-written file and a pending copy exist only within a request, and   *)
(* every entry but the root is in a directory: no operation leaves an      *)
(* entry below a path that is missing or a file's.                         *)
(***************************************************************************)
TypeOK ==
  /\ IsCard(card)
  /\ Cardinality({p \in DOMAIN card : card[p].open}) <= (IF fw = "reading" THEN 1 ELSE 0)
  /\ pc \in {"none", "loop", "select", "handle", "write", "transfer", "answered", "ended"}
  /\ out.kind # "none" => pc \in {"write", "transfer"}
  /\ todo # <<>> => pc = "transfer"
  /\ running => active /\ listening

(***************************************************************************)
(* isProtectedPath with removeDirRecursive's rule for dot names: no        *)
(* request, whatever became of it, changes an entry of the card that is    *)
(* protected by its first name, and none loses an entry with a dot name:   *)
(* it stays what it was, where it was or where its directory was renamed   *)
(* to.  And no answer names a protected entry or carries a block of one,   *)
(* also not under another name that an earlier request has given it.       *)
(***************************************************************************)
ProtectedKept ==
  /\ [](sent.names \cap Protected = {} /\ Range(sent.data) \cap Hidden = {})
  /\ [][Serves =>
       \A p \in DOMAIN card : \A i \in DOMAIN p :
         LET kept == IF p[i] \in Dotted THEN SubSeq(p, i, Len(p)) ELSE p IN
         (p[i] \in Dotted \/ (i = 1 /\ p[1] \in Protected)) =>
           \E q \in DOMAIN card' :
             /\ IF i = 1 THEN q = p ELSE IsSuffix(kept, q)
             /\ card'[q] = card[p]]_vars

Stored(c, p) ==
  [q \in {SubSeq(r, Len(p) + 1, Len(r)) : r \in Under(c, p)} |->
     [dir |-> c[p \o q].dir, data |-> c[p \o q].data]]
VisiblyStored(c, p) ==
  LET all == Stored(c, p) IN [q \in {r \in DOMAIN all : ~IsProtected(r)} |-> all[q]]

(***************************************************************************)
(* A MOVE, /move or /rename that was answered has the source whole, dot    *)
(* entries included, at the destination if it succeeded, and where it was  *)
(* if it failed, also when the destination was removed first.  This leaves *)
(* out a destination inside the source, and for MOVE one that is the       *)
(* source or a directory above it: these are removed, the source with      *)
(* them, before anything is moved.                                         *)
(***************************************************************************)
MoveKeepsSource ==
  (/\ pc = "answered" /\ req.method \in {"MOVE", "move", "rename"}
   /\ ~IsStrictPrefix(req.path, req.to)
   /\ req.method = "MOVE" => ~IsPrefix(req.to, req.path)) =>
     LET source == Stored(before, req.path) IN
     IF reply = "done" THEN Stored(card, req.to) = source /\ source # <<>>
     ELSE Stored(card, req.path) = source

(***************************************************************************)
(* A COPY that was answered as done has nothing at the destination but     *)
(* what the source showed when the request came, nothing left from a       *)
(* former destination, and of each file the beginning; and all of it, to   *)
(* the last block, unless something of the source could not be read on     *)
(* the way, which copyPath does not tell.  Whatever the answer, the source *)
(* is as it was.  The same destinations are left out.                      *)
(***************************************************************************)
BeginningOf(some, all) ==
  /\ Root \in DOMAIN some /\ DOMAIN some \subseteq DOMAIN all
  /\ \A q \in DOMAIN some :
       some[q].dir = all[q].dir /\ IsPrefix(some[q].data, all[q].data)

CopyWhole ==
  (/\ pc = "answered" /\ req.method = "COPY"
   /\ ~IsPrefix(req.path, req.to) /\ ~IsPrefix(req.to, req.path)) =>
     LET copy == Stored(card, req.to)
         shown == VisiblyStored(before, req.path)
     IN /\ reply = "done" => IF cut THEN BeginningOf(copy, shown) ELSE copy = shown
        /\ Stored(card, req.path) = Stored(before, req.path)

(***************************************************************************)
(* readFileToString returns only bytes that were in the file when it was   *)
(* read, however the worker truncates, replaces or removes the file        *)
(* between the size and the read.                                          *)
(***************************************************************************)
ReadsRealBytes ==
  got.call = "readFileToString" => IsPrefix(got.text, got.last)

(***************************************************************************)
(* HalFile's directory position, for a walk that closes its directory and  *)
(* comes back by seekSet(position()): an entry that was there at the start *)
(* is missed only if the worker removed some entry meanwhile, and one      *)
(* comes twice only if the worker added some.  Every entry can be opened   *)
(* here: one that cannot ends a listing, as it does in a copy.             *)
(***************************************************************************)
WalkAccounts ==
  /\ fw = "walked" /\ ~walk.removed => walk.start \subseteq walk.seen
  /\ walk.again => walk.added

(***************************************************************************)
(* stop() returns: the worker ends its request, sees that it is no longer  *)
(* active and can be joined; the one thing that keeps stop() from          *)
(* returning is an answer that its client never takes.                     *)
(***************************************************************************)
StopReturns == fw = "stopping" ~> (fw = "idle" \/ []Streaming)
=============================================================================
