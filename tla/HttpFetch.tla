------------------------------ MODULE HttpFetch ------------------------------
(***************************************************************************)
(* Fetching over HTTP: the transport of SimHttpFetch.h (a mock folder, a   *)
(* file: address, then curl, or NSURLSession on iOS) under the clients the *)
(* firmware uses: HTTPClient, SecureHttpClient with fetchResumable over    *)
(* it, and esp_http_client.                                                *)
(*                                                                         *)
(* Every client has the whole body before it hands over the first byte.    *)
(* What is interesting is what becomes of a body that was cut short, of a  *)
(* sink that refuses, of an abort asked for at any time from another       *)
(* thread, and of the same client used again.                              *)
(*                                                                         *)
(* A body is a sequence of blocks <<resource, i>>, Size of them, or the    *)
(* one block of an error page.                                             *)
(***************************************************************************)
EXTENDS Integers, Sequences, SequencesExt

CONSTANTS
  Resources,     \* what is fetched
  Size,          \* blocks of each
  NoResource,    \* not a resource
  MaxAttempts,   \* bound: requests sent in one session
  Uses           \* which clients a session may use

ASSUME FetchAssumption ==
  /\ Size \in Nat \ {0} /\ MaxAttempts \in Nat /\ NoResource \notin Resources
  /\ Uses \subseteq {"download", "HTTPClient", "esp"}

VARIABLES
  use,        \* the client this session uses
  platform,   \* "desktop": curl; "ios": NSURLSession
  canRewind,  \* the sink has a rewind function
  attempts,   \* counter of MaxAttempts
  response,   \* what the last request gave (sim_http_fetch::Response)
  http,       \* HTTPClient
  at,         \* where fetchResumable is
  result,     \* its FetchResult
  secureDone, \* SecureHttpClient::responseComplete_
  cancelled,  \* what shouldAbort() answers: another thread's wish
  sink,       \* what the sink holds
  esp,        \* SimEspHttpClient
  taken       \* history: what was read from it since it was opened

settings == <<use, platform, canRewind>>
download == <<at, result, secureDone, cancelled, sink>>
vars == <<settings, attempts, response, http, download, esp, taken>>

Whole(r) == [i \in 1 .. Size |-> <<r, i>>]
ErrorPage == <<<<NoResource, 404>>>>

(***************************************************************************)
(* fetch().  Answered(r, status, body, exit) is a response of r's server,  *)
(* NoReply a failure; exit is curl's exit code, 0 where curl is not used.  *)
(* From the mock folder and from a file comes the whole body or, for a     *)
(* file, a 404 without one.  curl is asked for the status and leaves the   *)
(* body in a file, which is there to be read: with the status known, or    *)
(* any of the body there, the fetch is a success whatever curl's exit      *)
(* code.  NSURLSession reports an error instead of a body cut short.       *)
(***************************************************************************)
NoConnection == 7
PartialFile == 18
Answered(r, status, body, exit) ==
  [resource |-> r, ok |-> TRUE, status |-> status, body |-> body, curlExitCode |-> exit]
NoReply(r, exit) ==
  [resource |-> r, ok |-> FALSE, status |-> 0, body |-> <<>>, curlExitCode |-> exit]

FromFile(r) == {Answered(r, 200, Whole(r), 0), Answered(r, 404, <<>>, 0)}
FromServer(r) == {Answered(r, 200, Whole(r), 0), Answered(r, 404, ErrorPage, 0)}
CutShort(r) == {Answered(r, 200, SubSeq(Whole(r), 1, n), PartialFile) : n \in 0 .. Size - 1}
Curl(r) == FromServer(r) \cup CutShort(r) \cup {NoReply(r, NoConnection)}
Native(r) == FromServer(r) \cup {NoReply(r, 0)}
Fetch(r) == FromFile(r) \cup IF platform = "ios" THEN Native(r) ELSE Curl(r)

(***************************************************************************)
(* HTTPClient::perform keeps the response; a failure leaves nothing of the *)
(* one before and gives a negative code.                                   *)
(***************************************************************************)
NoStream == <<<<NoResource, 0>>>>
NoHttp == [url |-> NoResource, status |-> 0, body |-> <<>>, stream |-> NoStream]
Perform(client, answer) ==
  IF answer.ok THEN [client EXCEPT !.status = answer.status, !.body = answer.body, !.stream = NoStream]
  ELSE [client EXCEPT !.status = 0, !.body = <<>>, !.stream = NoStream]
StatusOf(answer) == IF answer.ok THEN answer.status ELSE -1

NoResult == [status |-> 0, bytes |-> 0, complete |-> FALSE, stopped |-> FALSE, aborted |-> FALSE]
NoEsp == [opened |-> FALSE, status |-> 0, length |-> -1, body |-> <<>>, offset |-> 0]

Init ==
  /\ use \in Uses /\ platform \in {"desktop", "ios"}
  /\ canRewind \in BOOLEAN /\ (use # "download" => canRewind)
  /\ attempts = 0 /\ response = NoReply(NoResource, 0)
  /\ http = NoHttp
  /\ at = "idle" /\ result = NoResult /\ secureDone = TRUE
  /\ cancelled = FALSE /\ sink = <<>>
  /\ esp = NoEsp /\ taken = <<>>

Sends(r) ==
  /\ attempts < MaxAttempts /\ attempts' = attempts + 1
  /\ response' \in Fetch(r)

-----------------------------------------------------------------------------
(***************************************************************************)
(* fetchResumable(), as often as it takes, into one sink.  The caller asks *)
(* to start after the bytes it already has; the offset is dropped and the  *)
(* sink rewound, if it can be, before everything is fetched again.         *)
(***************************************************************************)
FetchBeginsResuming(r) ==  \* mutant: goes on where the sink is
  /\ use = "download" /\ at = "idle"
  /\ sink = <<>> \/ response.resource = r
  /\ result' = NoResult /\ at' = "send"
  /\ http' = [NoHttp EXCEPT !.url = r]
  /\ secureDone' = TRUE /\ response' = NoReply(r, 0)
  /\ UNCHANGED <<settings, attempts, cancelled, sink, esp, taken>>
FetchBegins(r) ==
  /\ use = "download" /\ at = "idle"
  /\ sink = <<>> \/ response.resource = r
  /\ result' = NoResult
  /\ IF sink # <<>> /\ canRewind THEN at' = "rewind" ELSE at' = "send"
  /\ http' = [NoHttp EXCEPT !.url = r]
  /\ secureDone' = TRUE /\ response' = NoReply(r, 0)
  /\ UNCHANGED <<settings, attempts, cancelled, sink, esp, taken>>

Rewind ==
  /\ at = "rewind"
  /\ \/ at' = "send" /\ sink' = <<>> /\ result' = result
     \/ at' = "returned" /\ sink' = sink /\ result' = [result EXCEPT !.stopped = TRUE]
  /\ UNCHANGED <<settings, attempts, response, http, secureDone, cancelled, esp, taken>>

(***************************************************************************)
(* SecureHttpClient::sendRequest with a callback: the request, then the    *)
(* question whether to abort, then the body in one piece, of any status.   *)
(***************************************************************************)
SendRequest ==
  /\ at = "send" /\ Sends(http.url)
  /\ http' = Perform(http, response')
  /\ secureDone' = FALSE
  /\ result' = [result EXCEPT !.status = StatusOf(response')]
  /\ at' = IF response'.ok THEN "askAbort" ELSE "sent"
  /\ UNCHANGED <<settings, cancelled, sink, esp, taken>>

AskAbort ==
  /\ at = "askAbort"
  /\ at' = IF cancelled THEN "sent" ELSE "deliver"
  /\ UNCHANGED <<settings, attempts, response, http, result, secureDone, cancelled, sink, esp, taken>>

Deliver ==
  /\ at = "deliver" /\ at' = "sent"
  /\ \/ /\ sink' = sink \o http.body /\ secureDone' = TRUE
        /\ result' = [result EXCEPT !.bytes = @ + Len(http.body)]
     \/ /\ http.body # <<>>
        /\ \E n \in 0 .. Len(http.body) - 1 : sink' = sink \o SubSeq(http.body, 1, n)
        /\ result' = [result EXCEPT !.stopped = TRUE]
        /\ secureDone' = secureDone
  /\ UNCHANGED <<settings, attempts, response, http, cancelled, esp, taken>>

FetchReturns ==
  /\ at = "sent" /\ at' = "returned"
  /\ result' = [result EXCEPT
       !.aborted = cancelled,
       !.complete = secureDone /\ result.status = 200 /\ ~result.stopped /\ ~cancelled]
  /\ http' = NoHttp
  /\ UNCHANGED <<settings, attempts, response, secureDone, cancelled, sink, esp, taken>>

(***************************************************************************)
(* A complete download is taken over, any other is tried again with what   *)
(* the sink has.                                                           *)
(***************************************************************************)
CallerGoesOn ==
  /\ at = "returned" /\ at' = "idle"
  /\ result' = NoResult /\ cancelled' = FALSE
  /\ sink' = IF result.complete THEN <<>> ELSE sink
  /\ UNCHANGED <<settings, attempts, response, http, secureDone, esp, taken>>

Cancel ==
  /\ at \notin {"idle", "returned"} /\ ~cancelled
  /\ cancelled' = TRUE
  /\ UNCHANGED <<settings, attempts, response, http, at, result, secureDone, sink, esp, taken>>

-----------------------------------------------------------------------------
(***************************************************************************)
(* HTTPClient by itself: begin, a request, the body read as a stream.      *)
(***************************************************************************)
ClientIdle == use = "HTTPClient" /\ UNCHANGED <<settings, download, esp>>

HttpBegin(r) ==
  /\ ClientIdle
  /\ http' = [NoHttp EXCEPT !.url = r] /\ taken' = <<>>
  /\ UNCHANGED <<attempts, response>>

HttpRequest ==
  /\ ClientIdle /\ http.url # NoResource /\ Sends(http.url)
  /\ http' = Perform(http, response') /\ taken' = <<>>

Streaming == http.stream # NoStream
GetStreamPtr ==
  /\ ClientIdle /\ ~Streaming
  /\ http' = [http EXCEPT !.stream = http.body]
  /\ UNCHANGED <<attempts, response, taken>>

StreamRead ==
  /\ ClientIdle /\ Streaming /\ http.stream # <<>>
  /\ taken' = Append(taken, Head(http.stream))
  /\ http' = [http EXCEPT !.stream = Tail(@)]
  /\ UNCHANGED <<attempts, response>>

HttpEnd ==
  /\ ClientIdle
  /\ http' = NoHttp /\ taken' = <<>>
  /\ UNCHANGED <<attempts, response>>

(***************************************************************************)
(* esp_http_client: open fetches everything, read hands it out in order.   *)
(* A failed open changes nothing, perform leaves the body that an open     *)
(* fetched alone and gives its own to the event handler.                   *)
(***************************************************************************)
EspIdle == use = "esp" /\ UNCHANGED <<settings, http, download>>

EspOpen(r) ==
  /\ EspIdle /\ Sends(r)
  /\ IF response'.ok
     THEN /\ esp' = [opened |-> TRUE, status |-> response'.status,
                     length |-> Len(response'.body), body |-> response'.body, offset |-> 0]
          /\ taken' = <<>>
     ELSE UNCHANGED <<esp, taken>>

EspPerform(r) ==
  /\ EspIdle /\ Sends(r)
  /\ esp' = IF response'.ok
            THEN [esp EXCEPT !.status = response'.status, !.length = Len(response'.body)]
            ELSE esp
  /\ UNCHANGED taken

Least(a, b) == IF a < b THEN a ELSE b
EspRead(n) ==
  /\ EspIdle /\ esp.opened
  /\ LET last == Least(esp.offset + n, Len(esp.body)) IN
       /\ taken' = taken \o SubSeq(esp.body, esp.offset + 1, last)
       /\ esp' = [esp EXCEPT !.offset = last]
  /\ UNCHANGED <<attempts, response>>

EspClose ==
  /\ EspIdle
  /\ esp' = [esp EXCEPT !.opened = FALSE, !.body = <<>>, !.offset = 0]
  /\ taken' = <<>>
  /\ UNCHANGED <<attempts, response>>

IsCompleteDataReceived == esp.opened /\ esp.offset >= Len(esp.body)

Next ==
  \/ \E r \in Resources : FetchBegins(r) \/ HttpBegin(r) \/ EspOpen(r) \/ EspPerform(r)
  \/ Rewind \/ SendRequest \/ AskAbort \/ Deliver \/ FetchReturns \/ CallerGoesOn \/ Cancel
  \/ HttpRequest \/ GetStreamPtr \/ StreamRead \/ HttpEnd
  \/ (\E n \in 1 .. Size : EspRead(n)) \/ EspClose

Spec == Init /\ [][Next]_vars

-----------------------------------------------------------------------------
(***************************************************************************)
(* What a body is made of, and the types of the variables.                 *)
(***************************************************************************)
Blocks == (Resources \X (1 .. Size)) \cup {<<NoResource, 404>>}

Codes == {0, 200, 404}
ExitCodes == {0, NoConnection, PartialFile}
ReturnCodes == Codes \cup {-1}
Lengths == Nat \cup {-1}
Streams == Seq(Blocks) \cup {NoStream}
Responses ==
  [resource : Resources \cup {NoResource}, ok : BOOLEAN, status : Codes, body : Seq(Blocks),
   curlExitCode : ExitCodes]
HttpTypes ==
  [url : Resources \cup {NoResource}, status : Codes, body : Seq(Blocks), stream : Streams]
ResultTypes ==
  [status : ReturnCodes, bytes : Nat, complete : BOOLEAN, stopped : BOOLEAN, aborted : BOOLEAN]
EspTypes == [opened : BOOLEAN, status : Codes, length : Lengths, body : Seq(Blocks), offset : Nat]

TypeOK ==
  /\ use \in Uses /\ platform \in {"desktop", "ios"} /\ canRewind \in BOOLEAN
  /\ attempts \in 0 .. MaxAttempts
  /\ response \in Responses /\ http \in HttpTypes /\ result \in ResultTypes /\ esp \in EspTypes
  /\ at \in {"idle", "rewind", "send", "askAbort", "deliver", "sent", "returned"}
  /\ secureDone \in BOOLEAN /\ cancelled \in BOOLEAN
  /\ sink \in Seq(Blocks) /\ taken \in Seq(Blocks)

(***************************************************************************)
(* fetchResumable says complete only when the sink holds the whole         *)
(* resource, each block once, however many attempts failed, stopped or     *)
(* were aborted before.  The one exception is the code's: ResumableFetch.h *)
(* says that a transfer completes or fails whole, but an exit code of curl *)
(* beside a status is never looked at, so a body that curl reports as cut  *)
(* short counts as complete, and the sink then holds that body.  (For a    *)
(* sink that can be rewound; without rewind() a second attempt is appended *)
(* to the first.)                                                          *)
(***************************************************************************)
CompleteIsExact ==
  (at = "returned" /\ result.complete /\ canRewind) =>
    /\ sink = response.body /\ Len(sink) = result.bytes
    /\ response.curlExitCode = 0 => sink = Whole(response.resource)

(***************************************************************************)
(* What was read of a response, from the stream of HTTPClient or by        *)
(* esp_http_client_read, is the beginning of one body, each block once and *)
(* none of an earlier request's; esp_http_client says that it is complete  *)
(* exactly when all of it was read.                                        *)
(***************************************************************************)
ReadsOneBody ==
  /\ use = "HTTPClient" => IsPrefix(taken, http.body)
  /\ use = "esp" =>
       /\ IsPrefix(taken, esp.body)
       /\ esp.opened => (IsCompleteDataReceived <=> taken = esp.body)

(***************************************************************************)
(* No client hands out anything but the one body it was given.             *)
(***************************************************************************)
BodiesExact == CompleteIsExact /\ ReadsOneBody
=============================================================================
