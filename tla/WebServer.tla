------------------------------ MODULE WebServer ------------------------------
(***************************************************************************)
(* The Arduino WebServer stand-in (src/WebServer.cpp).  begin() starts one *)
(* worker that accepts connections and serves them one after the other, on *)
(* its own thread while the firmware runs on; stop() ends it.  A request's *)
(* body is shown to raw handlers while it arrives, and to the upload       *)
(* handler of its route, part by part, once it is complete.                *)
(*                                                                         *)
(* Lengths are counted in units of a fraction of UPLOAD_CHUNK_SIZE.  The   *)
(* state of the current request is a member of the server, not of the      *)
(* worker's frame, so it outlives a request unless it is reset.            *)
(***************************************************************************)
EXTENDS Integers, SequencesExt

CONSTANTS
  Requests,    \* the requests peers send: see RequestType
  Routes,      \* on(): a sequence of [uri, method, upload]
  Handled,     \* the uris some RequestHandler handles
  RawUris,     \* the uris some RequestHandler takes raw
  Chunk,       \* UPLOAD_CHUNK_SIZE
  Buffer,      \* bytes one recv() returns at most
  MaxBody,     \* MAX_BODY_SIZE
  MaxRequests, \* bound: connections made
  MaxWaiting   \* bound: connections in the backlog

Methods == {"GET", "HEAD", "POST", "ANY"}
\* methodFromString(): a method it does not know is any.
MethodFromString(text) == IF text \in Methods THEN text ELSE "ANY"
Kinds == {"multipart", "form", "other"}

\* What a request says, and the sizes of the parts its body is parsed into:
\* files have a name, fields do not.
RequestType ==
  [uri: STRING, method: STRING, kind: Kinds, query: BOOLEAN, length: Nat,
   files: Seq(Nat), fields: BOOLEAN]

ASSUME WebServerAssumption ==
  /\ \A r \in Requests :
       /\ r.kind \in Kinds /\ r.length \in Nat
       /\ r.files \in Seq(Nat) /\ FoldSeq(+, 0, r.files) <= r.length
  /\ Chunk \in Nat \ {0} /\ Buffer \in Nat \ {0} /\ MaxBody \in Nat
  /\ MaxRequests \in Nat /\ MaxWaiting \in Nat

VARIABLES
  active,      \* Impl::active
  listening,   \* Impl::fd >= 0
  worker,      \* where the worker is
  firmware,    \* where the firmware's thread is
  waiting,     \* connections in the backlog
  arrived,     \* connections made
  request,     \* what the worker has parsed
  client,      \* currentClient: how many connections were taken by then, or -1
  args,        \* currentArgs: pairs of a connection and where it came from
  headersSent, \* Impl::headersSent
  setLength,   \* responseContentLength: the connection a handler set it for, or none
  body,        \* bytes of the body read
  raw,         \* what the raw handler was given for this connection
  upload,      \* what the upload handler was given for this connection
  asked,       \* what the route's handler saw of its request
  lines,       \* status lines sent on this connection
  announced    \* the Content-Length of the answer: whose setting, none or the body's

serverVars == <<active, listening, firmware>>
peerVars == <<waiting, arrived>>
requestVars == <<request, client, args, headersSent, setLength>>
logVars == <<raw, upload, asked, lines, announced>>
vars == <<active, listening, worker, firmware, waiting, arrived, request, client,
          args, headersSent, setLength, body, raw, upload, asked, lines, announced>>

NotSet == 0  \* connections are counted from 1

NoRequest == [uri |-> "/", method |-> "GET", kind |-> "other", query |-> FALSE,
              length |-> 0, files |-> <<>>, fields |-> FALSE]

Working == {"header", "body", "dispatch", "handler", "notFound", "close"}

Init ==
  /\ active = FALSE /\ listening = FALSE /\ worker = "off" /\ firmware = "idle"
  /\ waiting = 0 /\ arrived = 0
  /\ request = NoRequest /\ client = -1 /\ args = {} /\ headersSent = FALSE
  /\ setLength = NotSet
  /\ body = 0
  /\ raw = <<>> /\ upload = <<>> /\ asked = {} /\ lines = 0 /\ announced = NotSet

-----------------------------------------------------------------------------
(* The firmware's thread and the peers.                                    *)

\* begin() with a port it can bind; on an active server it does nothing.
Begin ==
  /\ firmware = "idle" /\ ~active
  /\ active' = TRUE /\ listening' = TRUE
  /\ worker' = "look"
  /\ UNCHANGED <<firmware, peerVars, requestVars, body, logVars>>

StopBegins ==
  /\ firmware = "idle" /\ active
  /\ active' = FALSE
  /\ firmware' = "deaf"
  /\ UNCHANGED <<listening, worker, peerVars, requestVars, body, logVars>>

StopListening ==
  /\ firmware = "deaf"
  /\ listening' = FALSE
  /\ waiting' = 0
  /\ firmware' = "joining"
  /\ UNCHANGED <<active, worker, arrived, requestVars, body, logVars>>

StopJoins ==
  /\ firmware = "joining"
  /\ worker = "off"
  /\ firmware' = "idle"
  /\ UNCHANGED <<active, listening, worker, peerVars, requestVars, body, logVars>>

Arrive ==
  /\ listening
  /\ arrived < MaxRequests /\ waiting < MaxWaiting
  /\ arrived' = arrived + 1
  /\ waiting' = waiting + 1
  /\ UNCHANGED <<serverVars, worker, requestVars, body, logVars>>

-----------------------------------------------------------------------------
(* The worker's loop.                                                      *)

WorkerGo(place) == worker' = place

LookActiveAgain ==
  /\ worker = "look"
  /\ WorkerGo("accept")
  /\ UNCHANGED <<serverVars, peerVars, requestVars, body, logVars>>

LookActive ==
  /\ worker = "look"
  /\ WorkerGo(IF active THEN "accept" ELSE "off")
  /\ UNCHANGED <<serverVars, peerVars, requestVars, body, logVars>>

Accept ==
  /\ worker = "accept"
  /\ waiting > 0
  /\ waiting' = waiting - 1
  /\ raw' = <<>> /\ upload' = <<>> /\ asked' = {} /\ lines' = 0 /\ announced' = NotSet
  /\ WorkerGo("header")
  /\ UNCHANGED <<serverVars, arrived, requestVars, body>>

AcceptFails ==
  /\ worker = "accept"
  /\ ~listening
  /\ WorkerGo("look")
  /\ UNCHANGED <<serverVars, peerVars, requestVars, body, logVars>>

\* The header does not end: the peer is gone, silent or sends too much of it.
HeaderFails ==
  /\ worker = "header"
  /\ WorkerGo("look")
  /\ UNCHANGED <<serverVars, peerVars, requestVars, body, logVars>>

IsRaw(r) == r.uri \in RawUris

ChunksFull(n) == [i \in 1..(n \div Chunk) |-> [event |-> "WRITE", size |-> Chunk]]

\* One callback for each chunk of n bytes, from the first of them on.
Chunks(n) ==
  [i \in 1..((n + Chunk - 1) \div Chunk) |->
     [event |-> "WRITE", size |-> IF i * Chunk <= n THEN Chunk ELSE n % Chunk]]

Marker(event) == <<[event |-> event, size |-> 0]>>

\* sendSimpleResponse(): a whole answer, whatever was sent before.
SimpleResponse == lines' = lines + 1

Parsed(r) == [r EXCEPT !.method = MethodFromString(@)]

TakeRequestOverOld(r) ==
  /\ request' = Parsed(r)
  /\ client' = arrived - waiting
  /\ args' = IF r.query THEN args \cup {<<arrived - waiting, "query">>} ELSE args
  /\ UNCHANGED <<headersSent, setLength>>

\* resetRequest(), but for the request, which is taken over at once.
ResetAnswer == headersSent' = FALSE /\ setLength' = NotSet

\* resetRequest() and the request line, headers and query taken over.
TakeRequest(r) ==
  /\ request' = Parsed(r)
  /\ client' = arrived - waiting
  /\ args' = IF r.query THEN {<<arrived - waiting, "query">>} ELSE {}
  /\ ResetAnswer

\* The header is complete; some of the body came with it, or even more than
\* belongs to it.
ReadHeader(r, extra) ==
  /\ worker = "header"
  /\ TakeRequest(r)
  /\ IF r.length > MaxBody
     THEN /\ body' = 0
          /\ raw' = IF IsRaw(r) THEN Marker("START") \o Marker("ABORTED") ELSE <<>>
          /\ SimpleResponse
          /\ WorkerGo("look")
     ELSE /\ body' = IF extra > r.length THEN r.length ELSE extra
          /\ raw' = IF IsRaw(r) THEN Marker("START") \o Chunks(body') ELSE <<>>
          /\ UNCHANGED lines
          /\ WorkerGo("body")
  /\ UNCHANGED <<serverVars, peerVars, upload, asked, announced>>

\* The rest of the body arrives; what follows it is left out.
ReadBody(got) ==
  /\ worker = "body"
  /\ body < request.length
  /\ LET count == IF got > request.length - body THEN request.length - body ELSE got
     IN /\ body' = body + count
        /\ raw' = IF IsRaw(request) THEN raw \o Chunks(count) ELSE raw
  /\ UNCHANGED <<serverVars, worker, peerVars, requestVars, upload, asked, lines, announced>>

Matches(route, r, headToo) ==
  /\ route.uri = r.uri
  /\ \/ route.method \in {r.method, "ANY"}
     \/ headToo /\ r.method = "HEAD" /\ route.method = "GET"

BodyFailsDispatching ==
  /\ worker = "body"
  /\ raw' = IF IsRaw(request) THEN raw \o Marker("END") ELSE raw
  /\ WorkerGo("dispatch")
  /\ UNCHANGED <<serverVars, peerVars, requestVars, body, upload, asked, lines, announced>>

\* emitMultipartAbort(): the upload handler of the request's route is told,
\* although it was told of no file.
MultipartAbort(r) ==
  IF \E i \in DOMAIN Routes : Routes[i].upload /\ Matches(Routes[i], r, FALSE)
  THEN Marker("ABORTED") ELSE <<>>

\* The peer is gone or silent for five seconds.
BodyFails ==
  /\ worker = "body"
  /\ body < request.length
  /\ raw' = IF IsRaw(request) THEN raw \o Marker("ABORTED") ELSE raw
  /\ upload' = IF request.kind = "multipart" THEN MultipartAbort(request) ELSE <<>>
  /\ SimpleResponse
  /\ WorkerGo("look")
  /\ UNCHANGED <<serverVars, peerVars, requestVars, body, asked, announced>>

BodyComplete ==
  /\ worker = "body"
  /\ body = request.length
  /\ raw' = IF IsRaw(request) THEN raw \o Marker("END") ELSE raw
  /\ args' = IF request.kind = "form" \/ (body > 0 /\ request.kind = "other")
             THEN args \cup {<<client, "body">>} ELSE args
  /\ WorkerGo("dispatch")
  /\ UNCHANGED <<serverVars, peerVars, request, client, headersSent, setLength, body, upload, asked,
                 lines, announced>>

File(size) ==
  <<[event |-> "START", size |-> size]>> \o Chunks(size) \o Marker("END")

\* The first route that matches; its fields become arguments before its
\* files are shown.  Else the first handler that handles it, else not found.
Dispatch ==
  /\ worker = "dispatch"
  /\ LET matching == {i \in DOMAIN Routes : Matches(Routes[i], request, TRUE)}
         route == Routes[CHOOSE i \in matching : \A j \in matching : i <= j]
         parts == matching # {} /\ route.upload /\ request.kind = "multipart"
     IN /\ args' = IF parts /\ request.fields THEN args \cup {<<client, "field">>} ELSE args
        /\ upload' = IF parts
                     THEN FoldLeft(\o, <<>>, [i \in DOMAIN request.files |-> File(request.files[i])])
                     ELSE <<>>
        /\ asked' = args'
        /\ WorkerGo(IF matching # {} \/ request.uri \in Handled THEN "handler" ELSE "notFound")
  /\ UNCHANGED <<serverVars, peerVars, request, client, headersSent, setLength, body, raw, lines,
                 announced>>

\* send(), send_P() and sendContent() put the status line out before the first
\* of them; a body follows unless the request was HEAD.
EmitHeaders ==
  /\ headersSent' = TRUE
  /\ lines' = IF headersSent \/ client < 0 THEN lines ELSE lines + 1
  /\ announced' = IF headersSent \/ client < 0 THEN announced ELSE setLength

\* setContentLength(), before the handler sends.
SetContentLength ==
  /\ worker \in {"handler", "notFound"}
  /\ setLength' = client
  /\ UNCHANGED <<serverVars, worker, peerVars, request, client, args, headersSent, body, logVars>>

\* A handler answers in any number of calls.
HandlerSends ==
  /\ worker \in {"handler", "notFound"}
  /\ EmitHeaders
  /\ WorkerGo("close")
  /\ UNCHANGED <<serverVars, peerVars, request, client, args, setLength, body, raw, upload, asked>>

HandlerSendsMore ==
  /\ worker = "close"
  /\ EmitHeaders
  /\ UNCHANGED <<serverVars, worker, peerVars, request, client, args, setLength, body, raw, upload,
                 asked>>

CloseConnection ==
  /\ worker = "close"
  /\ client' = -1 /\ args' = {} /\ request' = NoRequest
  /\ ResetAnswer
  /\ body' = 0
  /\ WorkerGo("look")
  /\ UNCHANGED <<serverVars, peerVars, logVars>>

WorkerStep ==
  \/ LookActive \/ Accept \/ AcceptFails \/ HeaderFails
  \/ \E r \in Requests, extra \in 0..Buffer : ReadHeader(r, extra)
  \/ \E got \in 1..Buffer : ReadBody(got)
  \/ BodyFails \/ BodyComplete \/ Dispatch \/ HandlerSends \/ CloseConnection

Next ==
  \/ Begin \/ StopBegins \/ StopListening \/ StopJoins \/ Arrive
  \/ WorkerStep \/ SetContentLength \/ HandlerSendsMore

Spec == Init /\ [][Next]_vars

\* The worker runs, a read ends within its five seconds, a handler answers.
Fairness == WF_vars(WorkerStep) /\ WF_vars(StopListening) /\ WF_vars(StopJoins)

FairSpec == Spec /\ Fairness

-----------------------------------------------------------------------------
SumOf(events) == FoldLeft(+, 0, [i \in DOMAIN events |-> events[i].size])
Named(events, event) == SelectSeq(events, LAMBDA e : e.event = event)

TypeOK ==
  /\ active \in BOOLEAN /\ listening \in BOOLEAN /\ headersSent \in BOOLEAN
  /\ worker \in {"off", "look", "accept"} \cup Working
  /\ firmware \in {"idle", "deaf", "joining"}
  /\ waiting \in 0..MaxWaiting /\ arrived \in 0..MaxRequests
  /\ request \in {Parsed(r) : r \in Requests} \cup {NoRequest}
  /\ client \in -1..arrived
  /\ body \in 0..request.length
  /\ lines \in Nat /\ {setLength, announced} \subseteq 0..arrived

Served == worker \in {"look", "close"}

\* A raw handler is told of a start, then of every byte of the body once, and
\* at last of the end; or of what came of the body and of the abort.  Once.
RawBodyWhole ==
  raw # <<>> =>
    /\ raw[1].event = "START"
    /\ \A i \in 2..(Len(raw) - 1) : raw[i].event = "WRITE" /\ raw[i].size \in 1..Chunk
    /\ Served => Last(raw).event \in {"END", "ABORTED"}
    /\ Last(raw).event = "END" /\ worker = "dispatch" => SumOf(raw) = request.length

\* A file is shown to the upload handler only after the whole of the request
\* is there: each start is followed by all the bytes it announced and an end,
\* and an abort by nothing, without a file half written before it.
UploadsWholeOrNone ==
  worker \in {"handler", "notFound", "look"} /\ upload # <<>> =>
    \/ upload = Marker("ABORTED")
    \/ /\ body = request.length
       /\ SumOf(upload) = 2 * SumOf(Named(upload, "START"))
       /\ Len(Named(upload, "START")) = Len(Named(upload, "END"))
       /\ Named(upload, "ABORTED") = <<>>

\* Nothing of an earlier request, refused, broken off or answered, is left for
\* the next: its handler sees its own arguments only, and its answer has a
\* status line of its own, one however often the handler sends, with a length
\* that its own handler set or that of what it sends.
EachAnsweredForItself ==
  /\ lines <= 1
  /\ worker = "close" => lines = 1
  /\ worker \in {"handler", "notFound", "close"} => \A a \in asked : a[1] = client
  /\ worker = "close" => announced \in {NotSet, client}

\* stop() returns, whatever the worker is in the middle of.
StopEnds == firmware \in {"deaf", "joining"} ~> firmware = "idle"

=============================================================================
