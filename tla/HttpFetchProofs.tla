-------------------------- MODULE HttpFetchProofs --------------------------
(***************************************************************************)
(* Proofs about HttpFetch, for any resources, any size, any number of      *)
(* attempts and any choice of clients.  Every client hands out only the    *)
(* one body it was given, because of what is true before it does:          *)
(*                                                                         *)
(*   Honest       a status of 200 comes with the whole resource, unless    *)
(*                curl says that the body was cut short;                   *)
(*   Addressed    a request that is about to be sent has an address;      *)
(*   Downloading  how far fetchResumable is, what the sink holds by then;  *)
(*   OneBody      what was read and what is left are the body, in order.   *)
(***************************************************************************)
EXTENDS HttpFetch, SequenceTheorems, TLAPS

Honest ==
  response.status = 200 /\ response.curlExitCode = 0 => response.body = Whole(response.resource)

Fresh == result = NoResult /\ (canRewind => sink = <<>>)
Received == response.ok /\ http.body = response.body /\ ~secureDone
            /\ result = [NoResult EXCEPT !.status = response.status] /\ (canRewind => sink = <<>>)
Delivered == canRewind => sink = response.body /\ Len(sink) = result.bytes
Addressed ==
  /\ at # "idle" => use = "download"
  /\ at \in {"rewind", "send"} => http.url \in Resources

Downloading ==
  /\ at = "rewind" => result = NoResult
  /\ at = "send" => Fresh
  /\ at \in {"askAbort", "deliver"} => Received
  /\ at = "sent" => ~result.complete /\ (secureDone => Delivered /\ result.status = response.status)
  /\ at = "returned" /\ result.complete => Delivered /\ response.status = 200

OneBody ==
  /\ use = "HTTPClient" => IF Streaming THEN taken \o http.stream = http.body ELSE taken = <<>>
  /\ use = "esp" => esp.offset <= Len(esp.body) /\ taken = SubSeq(esp.body, 1, esp.offset)

FetchInv == TypeOK /\ Addressed /\ Honest /\ Downloading /\ OneBody
-----------------------------------------------------------------------------
(***************************************************************************)
(* What a request may give.                                                *)
(***************************************************************************)
LEMMA NoStreamApart == NoStream \notin Seq(Blocks)
  <1> USE FetchAssumption
  <1> SUFFICES ASSUME NoStream \in Seq(Blocks) PROVE FALSE
    OBVIOUS
  <1>1. <<NoResource, 0>> \in Blocks
    <2>1. NoStream[1] \in Blocks
      BY ElementOfSeq, Len(NoStream) = 1 DEF NoStream
    <2> QED BY <2>1 DEF NoStream
  <1> QED BY <1>1 DEF Blocks

LEMMA BodyTypes ==
  /\ <<>> \in Seq(Blocks) /\ ErrorPage \in Seq(Blocks)
  /\ \A r \in Resources : Whole(r) \in Seq(Blocks) /\ Len(Whole(r)) = Size
  /\ \A r \in Resources, n \in 0 .. Size - 1 : SubSeq(Whole(r), 1, n) \in Seq(Blocks)
  <1> USE FetchAssumption
  <1>1. <<>> \in Seq(Blocks)
    OBVIOUS
  <1>2. ErrorPage \in Seq(Blocks)
    <2>1. <<NoResource, 404>> \in Blocks
      BY DEF Blocks
    <2> QED BY <2>1 DEF ErrorPage
  <1>3. ASSUME NEW r \in Resources
        PROVE  Whole(r) \in Seq(Blocks) /\ Len(Whole(r)) = Size
    <2>1. \A i \in 1 .. Size : <<r, i>> \in Blocks
      BY DEF Blocks
    <2>2. Whole(r) \in [1 .. Size -> Blocks]
      BY <2>1 DEF Whole
    <2> QED BY <2>2, IsASeq DEF Whole
  <1>4. ASSUME NEW r \in Resources, NEW n \in 0 .. Size - 1
        PROVE  SubSeq(Whole(r), 1, n) \in Seq(Blocks)
    <2>1. Whole(r) \in Seq(Blocks) /\ Len(Whole(r)) = Size
      BY <1>3
    <2>2. \A i \in 1 .. n : i \in 1 .. Len(Whole(r))
      BY <2>1
    <2> QED BY <2>1, <2>2, SubSeqProperties
  <1> QED BY <1>1, <1>2, <1>3, <1>4

LEMMA FetchTypes ==
  ASSUME NEW r \in Resources, NEW answer \in Fetch(r), platform \in {"desktop", "ios"}
  PROVE  /\ answer \in Responses
         /\ answer.status = 200 /\ answer.curlExitCode = 0 => answer.body = Whole(answer.resource)
  <1>1. \/ answer \in FromFile(r) \cup FromServer(r) \cup CutShort(r)
        \/ answer \in {NoReply(r, 0), NoReply(r, NoConnection)}
    BY DEF Fetch, Native, Curl
  <1>2. {0, NoConnection, PartialFile} = ExitCodes /\ PartialFile # 0
    BY DEF ExitCodes, NoConnection, PartialFile
  <1>3. CASE answer \in FromFile(r) \cup FromServer(r)
    <2>1. answer \in {Answered(r, 200, Whole(r), 0), Answered(r, 404, <<>>, 0),
                      Answered(r, 404, ErrorPage, 0)}
      BY <1>3 DEF FromFile, FromServer
    <2>2. CASE answer = Answered(r, 200, Whole(r), 0)
      BY <1>2, <2>2, BodyTypes DEF Answered, Responses, Codes
    <2>3. CASE answer = Answered(r, 404, <<>>, 0)
      BY <1>2, <2>3, BodyTypes DEF Answered, Responses, Codes
    <2>4. CASE answer = Answered(r, 404, ErrorPage, 0)
      BY <1>2, <2>4, BodyTypes DEF Answered, Responses, Codes
    <2> QED BY <2>1, <2>2, <2>3, <2>4
  <1>4. CASE answer \in CutShort(r)
    <2>1. PICK n \in 0 .. Size - 1 : answer = Answered(r, 200, SubSeq(Whole(r), 1, n), PartialFile)
      BY <1>4 DEF CutShort
    <2>2. answer \in Responses
      BY <1>2, <2>1, BodyTypes DEF Answered, Responses, Codes
    <2>3. answer.curlExitCode = PartialFile
      BY <2>1 DEF Answered
    <2> QED BY <1>2, <2>2, <2>3
  <1>5. CASE answer \in {NoReply(r, 0), NoReply(r, NoConnection)}
    <2>1. PICK exit \in {0, NoConnection} : answer = NoReply(r, exit)
      BY <1>5
    <2>2. answer = [resource |-> r, ok |-> FALSE, status |-> 0, body |-> <<>>, curlExitCode |-> exit]
      BY <2>1 DEF NoReply
    <2>3. exit \in ExitCodes /\ 0 \in Codes /\ <<>> \in Seq(Blocks)
      BY <1>2, <2>1, BodyTypes DEF Codes
    <2> QED BY <2>2, <2>3 DEF Responses
  <1> QED BY <1>1, <1>3, <1>4, <1>5

-----------------------------------------------------------------------------
(***************************************************************************)
(* Every value is of its type: also a block that was read is one of some   *)
(* resource or the error page, and no stream is mistaken for none.         *)
(***************************************************************************)
LEMMA SentTypes ==
  ASSUME TypeOK, NEW r \in Resources, Sends(r)
  PROVE  /\ response' \in Responses /\ attempts' \in 0 .. MaxAttempts
         /\ response'.status = 200 /\ response'.curlExitCode = 0
              => response'.body = Whole(response'.resource)
  <1>1. response' \in Fetch(r) /\ platform \in {"desktop", "ios"}
    BY DEF Sends, TypeOK
  <1>2. attempts' \in 0 .. MaxAttempts
    BY FetchAssumption DEF Sends, TypeOK
  <1> QED BY <1>1, <1>2, FetchTypes

LEMMA InitialTypes == Init => TypeOK
  <1> SUFFICES ASSUME Init PROVE TypeOK
    OBVIOUS
  <1> USE FetchAssumption, BodyTypes
  <1>1. response \in Responses
    BY DEF Init, NoReply, Responses, Codes, ExitCodes
  <1>2. http \in HttpTypes
    BY DEF Init, NoHttp, HttpTypes, Codes, Streams
  <1>3. esp \in EspTypes
    BY DEF Init, NoEsp, EspTypes, Codes, Lengths
  <1>4. result \in ResultTypes
    BY DEF Init, NoResult, ResultTypes, ReturnCodes, Codes
  <1> HIDE BodyTypes
  <1>5. /\ use \in Uses /\ platform \in {"desktop", "ios"} /\ canRewind \in BOOLEAN
        /\ at = "idle" /\ secureDone \in BOOLEAN /\ cancelled \in BOOLEAN
    BY DEF Init
  <1>6. attempts \in 0 .. MaxAttempts /\ sink \in Seq(Blocks) /\ taken \in Seq(Blocks)
    BY BodyTypes DEF Init
  <1> QED BY <1>1, <1>2, <1>3, <1>4, <1>5, <1>6 DEF TypeOK

LEMMA PerformTypes ==
  ASSUME NEW answer \in Responses, NEW client \in HttpTypes
  PROVE  /\ Perform(client, answer) \in HttpTypes
         /\ Perform(client, answer).stream = NoStream
         /\ answer.ok => Perform(client, answer).body = answer.body
         /\ StatusOf(answer) \in ReturnCodes
         /\ answer.ok => StatusOf(answer) = answer.status
  <1>1. 0 \in Codes /\ <<>> \in Seq(Blocks) /\ NoStream \in Streams
    BY BodyTypes DEF Codes, Streams
  <1>2. Codes \subseteq ReturnCodes /\ -1 \in ReturnCodes
    BY DEF ReturnCodes
  <1> QED BY <1>1, <1>2 DEF Perform, StatusOf, HttpTypes, Responses

LEMMA TypesKept == TypeOK /\ Addressed /\ [Next]_vars => TypeOK'
  <1> SUFFICES ASSUME TypeOK, Addressed, [Next]_vars PROVE TypeOK'
    OBVIOUS
  <1> USE FetchAssumption
  <1>0. /\ response \in Responses /\ http \in HttpTypes /\ result \in ResultTypes /\ esp \in EspTypes
        /\ sink \in Seq(Blocks) /\ taken \in Seq(Blocks) /\ attempts \in Nat
    BY DEF TypeOK
  <1>c. /\ 0 \in Codes /\ 0 \in ReturnCodes /\ -1 \in Lengths /\ Nat \subseteq Lengths
        /\ NoStream \in Streams /\ Seq(Blocks) \subseteq Streams /\ <<>> \in Seq(Blocks)
        /\ NoResource \in Resources \cup {NoResource} /\ 0 \in Nat
    BY BodyTypes DEF Codes, ReturnCodes, Lengths, Streams
  <1>1. ASSUME NEW r \in Resources, FetchBegins(r) PROVE TypeOK'
    <2>1. http' \in HttpTypes
      BY <1>1, <1>c DEF FetchBegins, NoHttp, HttpTypes
    <2>2. response' \in Responses
      BY <1>1, <1>c DEF FetchBegins, NoReply, Responses, ExitCodes
    <2>3. result' \in ResultTypes
      BY <1>1, <1>c DEF FetchBegins, NoResult, ResultTypes
    <2> QED BY <1>1, <2>1, <2>2, <2>3
            DEF TypeOK, FetchBegins, settings
  <1>2. ASSUME Rewind PROVE TypeOK'
    <2>1. result' \in ResultTypes
      BY <1>0, <1>2 DEF Rewind, ResultTypes
    <2>2. sink' \in Seq(Blocks) /\ at' \in {"send", "returned"}
      BY <1>0, <1>2, <1>c DEF Rewind
    <2> QED BY <1>2, <2>1, <2>2 DEF TypeOK, Rewind, settings
  <1>3. ASSUME SendRequest PROVE TypeOK'
    <2>0. http.url \in Resources
      BY <1>3 DEF SendRequest, Addressed
    <2>1. response' \in Responses /\ attempts' \in 0 .. MaxAttempts
      BY <1>3, <2>0, SentTypes DEF SendRequest
    <2>2. http' \in HttpTypes /\ StatusOf(response') \in ReturnCodes
      BY <1>0, <1>3, <2>1, PerformTypes DEF SendRequest
    <2>3. result' \in ResultTypes
      BY <1>0, <1>3, <2>2 DEF SendRequest, ResultTypes
    <2>4. at' \in {"askAbort", "sent"} /\ secureDone' \in BOOLEAN
      BY <1>3 DEF SendRequest
    <2> QED BY <1>3, <2>1, <2>2, <2>3, <2>4
            DEF TypeOK, SendRequest, settings
  <1>4. ASSUME AskAbort PROVE TypeOK'
    BY <1>4 DEF TypeOK, AskAbort, settings
  <1>5. ASSUME Deliver PROVE TypeOK'
    <2>1. http.body \in Seq(Blocks)
      BY <1>0 DEF HttpTypes
    <2>2. sink' \in Seq(Blocks) /\ result' \in ResultTypes /\ secureDone' \in BOOLEAN
      <3>1. CASE /\ sink' = sink \o http.body /\ secureDone' = TRUE
                 /\ result' = [result EXCEPT !.bytes = @ + Len(http.body)]
        <4>1. sink' \in Seq(Blocks)
          BY <1>0, <2>1, <3>1
        <4>2. Len(http.body) \in Nat
          BY <2>1
        <4>3. result' \in ResultTypes
          <5>1. result.bytes \in Nat
            BY <1>0 DEF ResultTypes
          <5>2. result.bytes + Len(http.body) \in Nat
            BY <4>2, <5>1
          <5>3. result' = [result EXCEPT !.bytes = result.bytes + Len(http.body)]
            BY <3>1
          <5> HIDE <4>2
          <5> QED BY <1>0, <5>2, <5>3 DEF ResultTypes
        <4> QED BY <3>1, <4>1, <4>3
      <3>2. CASE /\ \E n \in 0 .. Len(http.body) - 1 : sink' = sink \o SubSeq(http.body, 1, n)
                 /\ result' = [result EXCEPT !.stopped = TRUE]
                 /\ secureDone' = secureDone
        <4>1. PICK n \in 0 .. Len(http.body) - 1 : sink' = sink \o SubSeq(http.body, 1, n)
          BY <3>2
        <4>2. SubSeq(http.body, 1, n) \in Seq(Blocks)
          <5>1. \A i \in 1 .. n : http.body[i] \in Blocks
            BY <2>1, ElementOfSeq
          <5> QED BY <5>1, SubSeqProperties
        <4>3. sink' \in Seq(Blocks)
          BY <1>0, <4>1, <4>2
        <4>4. result' \in ResultTypes
          BY <1>0, <3>2 DEF ResultTypes
        <4> QED BY <3>2, <4>3, <4>4 DEF TypeOK
      <3> QED BY <1>5, <3>1, <3>2 DEF Deliver
    <2> QED BY <1>5, <2>2 DEF TypeOK, Deliver, settings
  <1>6. ASSUME FetchReturns PROVE TypeOK'
    <2>1. http' \in HttpTypes
      BY <1>6, <1>c DEF FetchReturns, NoHttp, HttpTypes
    <2>2. cancelled \in BOOLEAN /\ secureDone \in BOOLEAN
      BY DEF TypeOK
    <2>3. result' \in ResultTypes
      BY <1>0, <1>6, <2>2 DEF FetchReturns, ResultTypes
    <2> QED BY <1>6, <2>1, <2>3 DEF TypeOK, FetchReturns, settings
  <1>7. ASSUME CallerGoesOn PROVE TypeOK'
    <2>1. result' \in ResultTypes
      BY <1>7, <1>c DEF CallerGoesOn, NoResult, ResultTypes
    <2>2. sink' \in Seq(Blocks)
      BY <1>0, <1>7, <1>c DEF CallerGoesOn
    <2> QED BY <1>7, <2>1, <2>2 DEF TypeOK, CallerGoesOn, settings
  <1>8. ASSUME Cancel PROVE TypeOK'
    BY <1>8 DEF TypeOK, Cancel, settings
  <1>9. ASSUME NEW r \in Resources, HttpBegin(r) PROVE TypeOK'
    <2>1. http' \in HttpTypes /\ taken' \in Seq(Blocks)
      BY <1>9, <1>c DEF HttpBegin, NoHttp, HttpTypes
    <2> QED BY <1>9, <2>1 DEF TypeOK, HttpBegin, ClientIdle, settings, download
  <1>10. ASSUME HttpRequest PROVE TypeOK'
    <2>1. http.url \in Resources
      BY <1>0, <1>10 DEF HttpRequest, HttpTypes
    <2>2. response' \in Responses /\ attempts' \in 0 .. MaxAttempts
      BY <1>10, <2>1, SentTypes DEF HttpRequest
    <2>3. http' \in HttpTypes /\ taken' \in Seq(Blocks)
      BY <1>0, <1>10, <2>2, PerformTypes, <1>c DEF HttpRequest
    <2> QED BY <1>10, <2>2, <2>3
            DEF TypeOK, HttpRequest, ClientIdle, settings, download
  <1>11. ASSUME GetStreamPtr PROVE TypeOK'
    <2>1. http' \in HttpTypes
      BY <1>0, <1>11, <1>c DEF GetStreamPtr, HttpTypes
    <2> QED BY <1>11, <2>1 DEF TypeOK, GetStreamPtr, ClientIdle, settings, download
  <1>12. ASSUME StreamRead PROVE TypeOK'
    <2>1. http.stream \in Seq(Blocks) /\ http.stream # <<>>
      BY <1>0, <1>12 DEF StreamRead, Streaming, HttpTypes, Streams
    <2>2. Head(http.stream) \in Blocks /\ Tail(http.stream) \in Seq(Blocks)
      BY <2>1, HeadTailProperties
    <2>3. http' \in HttpTypes
      BY <1>0, <1>12, <1>c, <2>2 DEF StreamRead, HttpTypes
    <2>4. taken' \in Seq(Blocks)
      BY <1>0, <1>12, <2>2 DEF StreamRead
    <2> QED BY <1>12, <2>3, <2>4 DEF TypeOK, StreamRead, ClientIdle, settings, download
  <1>13. ASSUME HttpEnd PROVE TypeOK'
    <2>1. http' \in HttpTypes /\ taken' \in Seq(Blocks)
      BY <1>13, <1>c DEF HttpEnd, NoHttp, HttpTypes
    <2> QED BY <1>13, <2>1 DEF TypeOK, HttpEnd, ClientIdle, settings, download
  <1>14. ASSUME NEW r \in Resources, EspOpen(r) PROVE TypeOK'
    <2>1. response' \in Responses /\ attempts' \in 0 .. MaxAttempts
      BY <1>14, SentTypes DEF EspOpen
    <2>2. Len(response'.body) \in Nat
      BY <2>1 DEF Responses
    <2>3. taken' \in Seq(Blocks)
      BY <1>0, <1>14, <1>c DEF EspOpen
    <2>4. esp' \in EspTypes
      <3>1. CASE response'.ok
        <4>1. esp' = [opened |-> TRUE, status |-> response'.status, length |-> Len(response'.body),
                      body |-> response'.body, offset |-> 0]
          BY <1>14, <3>1 DEF EspOpen
        <4>2. response'.status \in Codes /\ response'.body \in Seq(Blocks)
          BY <2>1 DEF Responses
        <4> QED BY <1>c, <2>2, <4>1, <4>2 DEF EspTypes
      <3>2. CASE ~response'.ok
        BY <1>0, <1>14, <3>2 DEF EspOpen
      <3> QED BY <3>1, <3>2
    <2> QED BY <1>14, <2>1, <2>3, <2>4
            DEF TypeOK, EspOpen, EspIdle, settings, download
  <1>15. ASSUME NEW r \in Resources, EspPerform(r) PROVE TypeOK'
    <2>1. response' \in Responses /\ attempts' \in 0 .. MaxAttempts
      BY <1>15, SentTypes DEF EspPerform
    <2>2. Len(response'.body) \in Nat
      BY <2>1 DEF Responses
    <2>3. esp' \in EspTypes
      BY <1>0, <1>15, <1>c, <2>1, <2>2 DEF EspPerform, EspTypes, Responses
    <2> QED BY <1>15, <2>1, <2>3
            DEF TypeOK, EspPerform, EspIdle, settings, download
  <1>16. ASSUME NEW n \in 1 .. Size, EspRead(n) PROVE TypeOK'
    <2>1. PICK last \in Nat : /\ last <= Len(esp.body)
                             /\ taken' = taken \o SubSeq(esp.body, esp.offset + 1, last)
                             /\ esp' = [esp EXCEPT !.offset = last]
      <3>1. esp.offset + n \in Nat /\ Len(esp.body) \in Nat
        BY <1>0 DEF EspTypes
      <3>2. Least(esp.offset + n, Len(esp.body)) \in Nat
            /\ Least(esp.offset + n, Len(esp.body)) <= Len(esp.body)
        BY <3>1 DEF Least
      <3> QED BY <1>16, <3>2 DEF EspRead
    <2>2. SubSeq(esp.body, esp.offset + 1, last) \in Seq(Blocks)
      <3>1. \A i \in esp.offset + 1 .. last : esp.body[i] \in Blocks
        BY <1>0, <2>1, ElementOfSeq DEF EspTypes
      <3> QED BY <1>0, <2>1, <3>1, SubSeqProperties DEF EspTypes
    <2>3. esp' \in EspTypes
      BY <1>0, <2>1 DEF EspTypes
    <2>4. taken' \in Seq(Blocks)
      BY <1>0, <2>1, <2>2
    <2> QED BY <1>16, <2>3, <2>4 DEF TypeOK, EspRead, EspIdle, settings, download
  <1>17. ASSUME EspClose PROVE TypeOK'
    <2>1. esp' \in EspTypes /\ taken' \in Seq(Blocks)
      BY <1>0, <1>17, <1>c DEF EspClose, EspTypes
    <2> QED BY <1>17, <2>1 DEF TypeOK, EspClose, EspIdle, settings, download
  <1>18. CASE UNCHANGED vars
    BY <1>18 DEF TypeOK, vars, settings, download
  <1> QED BY <1>1, <1>2, <1>3, <1>4, <1>5, <1>6, <1>7, <1>8, <1>9, <1>10, <1>11, <1>12, <1>13,
             <1>14, <1>15, <1>16, <1>17, <1>18 DEF Next

(***************************************************************************)
(* A request that is about to be sent has an address: only FetchBegins     *)
(* leads there, and HTTPClient by itself is another session.               *)
(***************************************************************************)
LEMMA AddressedKept == TypeOK /\ Addressed /\ [Next]_vars => Addressed'
  <1> SUFFICES ASSUME TypeOK, Addressed, [Next]_vars PROVE Addressed'
    OBVIOUS
  <1> USE DEF Addressed
  <1>1. ASSUME NEW r \in Resources, FetchBegins(r) PROVE Addressed'
    BY <1>1 DEF FetchBegins, settings, NoHttp
  <1>2. ASSUME Rewind PROVE Addressed'
    BY <1>2 DEF Rewind, settings
  <1>3. ASSUME SendRequest PROVE Addressed'
    BY <1>3 DEF SendRequest, settings
  <1>4. ASSUME AskAbort PROVE Addressed'
    BY <1>4 DEF AskAbort, settings
  <1>5. ASSUME Deliver PROVE Addressed'
    BY <1>5 DEF Deliver, settings
  <1>6. ASSUME FetchReturns PROVE Addressed'
    BY <1>6 DEF FetchReturns, settings
  <1>7. ASSUME CallerGoesOn PROVE Addressed'
    BY <1>7 DEF CallerGoesOn, settings
  <1>8. ASSUME Cancel PROVE Addressed'
    BY <1>8 DEF Cancel, settings
  <1>9. ASSUME ClientIdle PROVE Addressed'
    BY <1>9 DEF ClientIdle, settings, download
  <1>10. ASSUME EspIdle PROVE Addressed'
    BY <1>10 DEF EspIdle, settings, download
  <1>11. CASE UNCHANGED vars
    BY <1>11 DEF vars, settings, download
  <1>12. ASSUME NEW r \in Resources, HttpBegin(r) \/ EspOpen(r) \/ EspPerform(r) PROVE ClientIdle \/ EspIdle
    BY <1>12 DEF HttpBegin, EspOpen, EspPerform
  <1>13. ASSUME HttpRequest \/ GetStreamPtr \/ StreamRead \/ HttpEnd PROVE ClientIdle
    BY <1>13 DEF HttpRequest, GetStreamPtr, StreamRead, HttpEnd
  <1>14. ASSUME EspClose \/ \E n \in 1 .. Size : EspRead(n) PROVE EspIdle
    BY <1>14 DEF EspClose, EspRead
  <1> QED BY <1>1, <1>2, <1>3, <1>4, <1>5, <1>6, <1>7, <1>8, <1>9, <1>10, <1>11, <1>12, <1>13, <1>14
          DEF Next

(***************************************************************************)
(* A response with a status of 200 has all of the resource, or curl said   *)
(* that it has not.                                                        *)
(***************************************************************************)
LEMMA HonestKept == TypeOK /\ Addressed /\ Honest /\ [Next]_vars => Honest'
  <1> SUFFICES ASSUME TypeOK, Addressed, Honest, [Next]_vars PROVE Honest'
    OBVIOUS
  <1>1. ASSUME NEW r \in Resources, Sends(r) PROVE Honest'
    BY <1>1, SentTypes DEF Honest
  <1>2. ASSUME UNCHANGED response PROVE Honest'
    BY <1>2 DEF Honest
  <1>3. ASSUME NEW r \in Resources, FetchBegins(r) PROVE Honest'
    BY <1>3 DEF FetchBegins, settings, NoReply, Honest
  <1>4. ASSUME SendRequest PROVE Honest'
    BY <1>1, <1>4 DEF SendRequest, Addressed, settings
  <1>5. ASSUME HttpRequest PROVE Honest'
    <2>1. http.url \in Resources
      BY <1>5 DEF HttpRequest, TypeOK, HttpTypes
    <2> QED BY <1>1, <1>5, <2>1 DEF HttpRequest, ClientIdle, settings
  <1>6. ASSUME NEW r \in Resources, EspOpen(r) \/ EspPerform(r) PROVE Honest'
    BY <1>1, <1>6 DEF EspOpen, EspPerform, EspIdle, settings
  <1>7. ASSUME \/ Rewind \/ AskAbort \/ Deliver \/ FetchReturns \/ CallerGoesOn \/ Cancel
        PROVE  Honest'
    BY <1>2, <1>7 DEF Rewind, AskAbort, Deliver, FetchReturns, CallerGoesOn, Cancel, settings
  <1>8. ASSUME \/ GetStreamPtr \/ StreamRead \/ HttpEnd \/ \E r \in Resources : HttpBegin(r)
        PROVE  Honest'
    BY <1>2, <1>8 DEF GetStreamPtr, StreamRead, HttpEnd, HttpBegin, ClientIdle, settings
  <1>9. ASSUME EspClose \/ \E n \in 1 .. Size : EspRead(n) PROVE Honest'
    BY <1>2, <1>9 DEF EspClose, EspRead, EspIdle, settings
  <1>10. CASE UNCHANGED vars
    BY <1>2, <1>10 DEF vars, settings
  <1> QED BY <1>3, <1>4, <1>5, <1>6, <1>7, <1>8, <1>9, <1>10 DEF Next

(***************************************************************************)
(* The sink is empty when the body is put into it, if it can be rewound,   *)
(* and what says that the body is complete is only said then.              *)
(***************************************************************************)
LEMMA DownloadingKept ==
  TypeOK /\ Addressed /\ Downloading /\ [Next]_vars => Downloading'
  <1> SUFFICES ASSUME TypeOK, Addressed, Downloading, [Next]_vars PROVE Downloading'
    OBVIOUS
  <1>0. /\ http \in HttpTypes /\ result \in ResultTypes /\ sink \in Seq(Blocks) /\ response \in Responses
        /\ secureDone \in BOOLEAN /\ canRewind \in BOOLEAN /\ cancelled \in BOOLEAN
    BY DEF TypeOK
  <1>1. ASSUME NEW r \in Resources, FetchBegins(r) PROVE Downloading'
    BY <1>1 DEF FetchBegins, Downloading, Fresh, settings
  <1>2. ASSUME Rewind PROVE Downloading'
    BY <1>0, <1>2 DEF Rewind, Downloading, Fresh, NoResult, settings
  <1>3. ASSUME SendRequest PROVE Downloading'
    <2>1. response' \in Responses /\ http.url \in Resources
      BY <1>3, SentTypes DEF SendRequest, Addressed
    <2>2. Fresh /\ secureDone' = FALSE /\ UNCHANGED <<sink, canRewind>>
      BY <1>3 DEF SendRequest, Downloading, settings
    <2>3. CASE response'.ok
      <3>1. http'.body = response'.body /\ StatusOf(response') = response'.status
        BY <1>0, <1>3, <2>1, <2>3, PerformTypes DEF SendRequest
      <3>2. result' = [NoResult EXCEPT !.status = response'.status] /\ at' = "askAbort"
        BY <1>3, <2>2, <2>3, <3>1 DEF SendRequest, Fresh
      <3> QED BY <2>2, <2>3, <3>1, <3>2 DEF Downloading, Received, Fresh, NoResult
    <2>4. CASE ~response'.ok
      <3>1. at' = "sent" /\ ~result'.complete
        BY <1>3, <2>2, <2>4 DEF SendRequest, Fresh, NoResult
      <3> QED BY <2>2, <3>1 DEF Downloading
    <2> QED BY <2>3, <2>4
  <1>4. ASSUME AskAbort PROVE Downloading'
    <2>1. Received /\ UNCHANGED <<response, http, secureDone, result, canRewind, sink>>
      BY <1>4 DEF AskAbort, Downloading, settings
    <2>2. ~result.complete
      BY <2>1 DEF Received, NoResult
    <2> QED BY <1>4, <2>1, <2>2 DEF AskAbort, Downloading, Received
  <1>5. ASSUME Deliver PROVE Downloading'
    <2>1. Received /\ at' = "sent" /\ UNCHANGED <<response, http, canRewind>>
      BY <1>5 DEF Deliver, Downloading, settings
    <2>2. ~result.complete /\ result.bytes = 0 /\ result.status = response.status
      BY <2>1 DEF Received, NoResult
    <2>3. CASE /\ sink' = sink \o http.body /\ secureDone' = TRUE
               /\ result' = [result EXCEPT !.bytes = @ + Len(http.body)]
      <3>1. ~result'.complete /\ result'.status = response.status
        BY <1>0, <2>2, <2>3 DEF ResultTypes
      <3>2. result'.bytes = Len(response.body)
        BY <1>0, <2>1, <2>2, <2>3 DEF ResultTypes, Received, Responses
      <3>3. canRewind => sink' = response.body
        BY <1>0, <2>1, <2>3 DEF Received, Responses
      <3> QED BY <2>1, <3>1, <3>2, <3>3 DEF Downloading, Delivered
    <2>4. CASE /\ result' = [result EXCEPT !.stopped = TRUE]
               /\ secureDone' = secureDone
      <3>1. ~result'.complete /\ ~secureDone'
        BY <1>0, <2>1, <2>2, <2>4 DEF Received, ResultTypes
      <3> QED BY <2>1, <3>1 DEF Downloading
    <2> QED BY <1>5, <2>3, <2>4 DEF Deliver
  <1>6. ASSUME FetchReturns PROVE Downloading'
    <2>1. /\ at = "sent" /\ at' = "returned"
          /\ result'.complete => secureDone /\ result.status = 200
          /\ result'.bytes = result.bytes
          /\ UNCHANGED <<response, sink, canRewind>>
      BY <1>0, <1>6 DEF FetchReturns, ResultTypes, settings
    <2> QED BY <2>1 DEF Downloading, Delivered
  <1>7. ASSUME CallerGoesOn PROVE Downloading'
    BY <1>7 DEF CallerGoesOn, Downloading
  <1>8. ASSUME Cancel PROVE Downloading'
    BY <1>8 DEF Cancel, Downloading, Fresh, Received, Delivered, settings
  <1>9. ASSUME ClientIdle \/ EspIdle PROVE Downloading'
    <2>1. at = "idle" /\ at' = "idle"
      BY <1>9 DEF ClientIdle, EspIdle, download, Addressed
    <2> QED BY <2>1 DEF Downloading
  <1>10. CASE UNCHANGED vars
    BY <1>10 DEF vars, settings, download, Downloading, Fresh, Received, Delivered
  <1>11. ASSUME NEW r \in Resources, HttpBegin(r) \/ EspOpen(r) \/ EspPerform(r) PROVE ClientIdle \/ EspIdle
    BY <1>11 DEF HttpBegin, EspOpen, EspPerform
  <1>12. ASSUME HttpRequest \/ GetStreamPtr \/ StreamRead \/ HttpEnd PROVE ClientIdle
    BY <1>12 DEF HttpRequest, GetStreamPtr, StreamRead, HttpEnd
  <1>13. ASSUME EspClose \/ \E n \in 1 .. Size : EspRead(n) PROVE EspIdle
    BY <1>13 DEF EspClose, EspRead
  <1> QED BY <1>1, <1>2, <1>3, <1>4, <1>5, <1>6, <1>7, <1>8, <1>9, <1>10, <1>11, <1>12, <1>13 DEF Next

(***************************************************************************)
(* What was read and what is left are the body, in order, until the next   *)
(* request, begin or end, which forget both.                               *)
(***************************************************************************)
LEMMA OneBodyKept ==
  TypeOK /\ TypeOK' /\ Addressed /\ OneBody /\ [Next]_vars => OneBody'
  <1> SUFFICES ASSUME TypeOK, TypeOK', Addressed, OneBody, [Next]_vars PROVE OneBody'
    OBVIOUS
  <1>0. http \in HttpTypes /\ esp \in EspTypes /\ taken \in Seq(Blocks) /\ response' \in Responses
    BY DEF TypeOK
  <1>1. ASSUME use \notin {"HTTPClient", "esp"}, use' = use PROVE OneBody'
    BY <1>1 DEF OneBody
  <1>2. ASSUME ClientIdle PROVE use = "HTTPClient" /\ use' = use
    BY <1>2 DEF ClientIdle, settings
  <1>3. ASSUME EspIdle PROVE use = "esp" /\ use' = use
    BY <1>3 DEF EspIdle, settings
  <1>4. ASSUME NEW r \in Resources, HttpBegin(r) PROVE OneBody'
    BY <1>2, <1>4 DEF HttpBegin, OneBody, NoHttp, Streaming
  <1>5. ASSUME HttpRequest PROVE OneBody'
    <2>1. http'.stream = NoStream /\ taken' = <<>>
      BY <1>0, <1>5, PerformTypes DEF HttpRequest
    <2> QED BY <1>2, <1>5, <2>1 DEF HttpRequest, OneBody, Streaming
  <1>6. ASSUME GetStreamPtr PROVE OneBody'
    <2>1. taken = <<>> /\ taken' = taken /\ http'.stream = http.body /\ http'.body = http.body
      BY <1>0, <1>2, <1>6 DEF GetStreamPtr, OneBody, HttpTypes
    <2>2. taken' \o http'.stream = http'.body
      BY <1>0, <2>1 DEF HttpTypes
    <2>3. Streaming'
      BY <1>0, <2>1, NoStreamApart DEF HttpTypes, Streaming
    <2> QED BY <1>2, <1>6, <2>2, <2>3 DEF GetStreamPtr, OneBody
  <1>7. ASSUME StreamRead PROVE OneBody'
    <2>1. http.stream \in Seq(Blocks) /\ http.stream # <<>>
      BY <1>0, <1>7 DEF StreamRead, Streaming, HttpTypes, Streams
    <2>2. /\ Head(http.stream) \in Blocks /\ Tail(http.stream) \in Seq(Blocks)
          /\ http.stream = <<Head(http.stream)>> \o Tail(http.stream)
      BY <2>1
    <2>3. http'.stream = Tail(http.stream) /\ http'.body = http.body
      BY <1>0, <1>7 DEF StreamRead, HttpTypes
    <2>4. taken' \o http'.stream = taken \o http.stream
      <3>1. taken' = taken \o <<Head(http.stream)>>
        BY <1>0, <1>7, <2>2, AppendIsConcat DEF StreamRead
      <3>2. <<Head(http.stream)>> \in Seq(Blocks)
        BY <2>2
      <3>3. (taken \o <<Head(http.stream)>>) \o Tail(http.stream)
              = taken \o (<<Head(http.stream)>> \o Tail(http.stream))
        <4>1. ASSUME NEW a \in Seq(Blocks), NEW b \in Seq(Blocks), NEW c \in Seq(Blocks)
              PROVE  (a \o b) \o c = a \o (b \o c)
          BY ConcatAssociative
        <4>2. taken \in Seq(Blocks) /\ Tail(http.stream) \in Seq(Blocks)
          BY <1>0, <2>2
        <4> QED BY ONLY <3>2, <4>1, <4>2
      <3> QED BY <2>2, <2>3, <3>1, <3>3
    <2>5. Streaming' /\ taken \o http.stream = http.body
      BY <1>2, <1>7, <2>2, <2>3, NoStreamApart DEF StreamRead, Streaming, OneBody
    <2> QED BY <1>2, <1>7, <2>3, <2>4, <2>5 DEF StreamRead, OneBody
  <1>8. ASSUME HttpEnd PROVE OneBody'
    BY <1>2, <1>8 DEF HttpEnd, OneBody, NoHttp, Streaming
  <1>9. ASSUME NEW r \in Resources, EspOpen(r) PROVE OneBody'
    <2>1. CASE response'.ok
      <3>1. esp'.body = response'.body /\ esp'.offset = 0 /\ taken' = <<>>
        BY <1>9, <2>1 DEF EspOpen
      <3>2. SubSeq(response'.body, 1, 0) = <<>> /\ Len(response'.body) \in Nat
        BY <1>0, SubSeqEmpty DEF Responses
      <3> QED BY <1>3, <1>9, <3>1, <3>2 DEF EspOpen, OneBody
    <2>2. CASE ~response'.ok
      BY <1>3, <1>9, <2>2 DEF EspOpen, OneBody
    <2> QED BY <2>1, <2>2
  <1>10. ASSUME NEW r \in Resources, EspPerform(r) PROVE OneBody'
    <2>1. esp'.body = esp.body /\ esp'.offset = esp.offset /\ taken' = taken
      BY <1>0, <1>10 DEF EspPerform, EspTypes
    <2> QED BY <1>3, <1>10, <2>1 DEF EspPerform, OneBody
  <1>11. ASSUME NEW n \in 1 .. Size, EspRead(n) PROVE OneBody'
    <2> DEFINE last == Least(esp.offset + n, Len(esp.body))
    <2>1. esp.offset \in Nat /\ Len(esp.body) \in Nat /\ esp.body \in Seq(Blocks) /\ n \in Nat
      BY <1>0 DEF EspTypes
    <2>2. esp.offset <= Len(esp.body) /\ taken = SubSeq(esp.body, 1, esp.offset)
      BY <1>3, <1>11 DEF EspRead, OneBody
    <2>3. last \in Nat /\ esp.offset <= last /\ last <= Len(esp.body)
      BY <2>1, <2>2 DEF Least
    <2>4. /\ taken' = taken \o SubSeq(esp.body, esp.offset + 1, last)
          /\ esp'.offset = last /\ esp'.body = esp.body
      BY <1>0, <1>11 DEF EspRead, EspTypes
    <2> HIDE DEF last
    <2>5. SubSeq(esp.body, 1, esp.offset) \o SubSeq(esp.body, esp.offset + 1, last) = SubSeq(esp.body, 1, last)
      <3>1. ASSUME NEW s \in Seq(Blocks), NEW k \in 0 .. Len(s), NEW m \in k .. Len(s)
            PROVE  SubSeq(s, 1, k) \o SubSeq(s, k + 1, m) = SubSeq(s, 1, m)
        <4>1. 1 \in 1 .. Len(s) + 1 /\ k \in 1 - 1 .. Len(s)
          OBVIOUS
        <4> QED BY ONLY <4>1, m \in k .. Len(s), s \in Seq(Blocks), ConcatAdjacentSubSeq
      <3>2. esp.offset \in 0 .. Len(esp.body) /\ last \in esp.offset .. Len(esp.body)
        BY <2>1, <2>2, <2>3
      <3>3. esp.body \in Seq(Blocks)
        BY <2>1
      <3> QED BY ONLY <3>1, <3>2, <3>3
    <2> QED BY <1>3, <1>11, <2>2, <2>3, <2>4, <2>5 DEF EspRead, OneBody
  <1>12. ASSUME EspClose PROVE OneBody'
    <2>1. esp'.body = <<>> /\ esp'.offset = 0 /\ taken' = <<>>
      BY <1>0, <1>12 DEF EspClose, EspTypes
    <2> QED BY <1>3, <1>12, <2>1 DEF EspClose, OneBody
  <1>13. ASSUME \E r \in Resources : FetchBegins(r) PROVE OneBody'
    BY <1>1, <1>13 DEF FetchBegins, settings
  <1>14. ASSUME UNCHANGED <<use, http, esp, taken>> PROVE OneBody'
    BY <1>14 DEF OneBody, Streaming
  <1>15. ASSUME at # "idle", use' = use PROVE OneBody'
    BY <1>1, <1>15 DEF Addressed
  <1>16. ASSUME Rewind \/ SendRequest \/ AskAbort \/ Deliver \/ FetchReturns \/ CallerGoesOn \/ Cancel
         PROVE  at # "idle" /\ use' = use
    BY <1>16 DEF Rewind, SendRequest, AskAbort, Deliver, FetchReturns, CallerGoesOn, Cancel, settings
  <1>17. CASE UNCHANGED vars
    BY <1>14, <1>17 DEF vars, settings
  <1> QED BY <1>4, <1>5, <1>6, <1>7, <1>8, <1>9, <1>10, <1>11, <1>12, <1>13, <1>15, <1>16, <1>17 DEF Next

-----------------------------------------------------------------------------
LEMMA Begins ==
  ASSUME NEW s \in Seq(Blocks), NEW n \in 0 .. Len(s)
  PROVE  /\ IsPrefix(SubSeq(s, 1, n), s) /\ Len(SubSeq(s, 1, n)) = n
         /\ SubSeq(s, 1, n) = s <=> n = Len(s)
  <1>1. SubSeq(s, 1, n) \in Seq(Blocks) /\ Len(SubSeq(s, 1, n)) = n
    <2>1. \A i \in 1 .. n : s[i] \in Blocks
      BY ElementOfSeq
    <2> QED BY <2>1, SubSeqProperties
  <1>2. SubSeq(SubSeq(s, 1, n), 1, n) = SubSeq(s, 1, n)
    BY <1>1, SubSeqFull
  <1>3. SubSeq(s, 1, Len(s)) = s
    BY SubSeqFull
  <1>4. IsPrefix(SubSeq(s, 1, n), s)
    <2>1. n <= Len(s)
      OBVIOUS
    <2> QED BY ONLY <1>1, <1>2, <2>1 DEF IsPrefix
  <1>5. SubSeq(s, 1, n) = s <=> n = Len(s)
    BY ONLY <1>1, <1>3
  <1> QED BY <1>1, <1>4, <1>5

LEMMA BeginsBefore ==
  ASSUME NEW s \in Seq(Blocks), NEW rest \in Seq(Blocks)
  PROVE  IsPrefix(s, s \o rest)
  <1>1. Len(s) \in Nat /\ Len(rest) \in Nat /\ Len(s \o rest) = Len(s) + Len(rest)
    OBVIOUS
  <1>2. SubSeq(s \o rest, 1, Len(s)) = s /\ SubSeq(s, 1, Len(s)) = s
    BY <1>1, SubSeqOfConcat1, SubSeqFull
  <1> QED BY <1>1, <1>2 DEF IsPrefix

LEMMA Exact == FetchInv => BodiesExact
  <1> SUFFICES ASSUME FetchInv PROVE BodiesExact
    OBVIOUS
  <1>0. /\ TypeOK /\ Honest /\ Downloading /\ OneBody
        /\ http \in HttpTypes /\ esp \in EspTypes /\ taken \in Seq(Blocks)
    BY DEF FetchInv, TypeOK
  <1>1. CompleteIsExact
    BY <1>0 DEF CompleteIsExact, Downloading, Delivered, Honest
  <1>2. ASSUME use = "HTTPClient" PROVE IsPrefix(taken, http.body)
    <2>1. CASE Streaming
      <3>1. http.stream \in Seq(Blocks)
        BY <1>0, <2>1 DEF HttpTypes, Streams, Streaming
      <3>2. taken \o http.stream = http.body
        BY <1>0, <1>2, <2>1 DEF OneBody
      <3> QED BY <1>0, <3>1, <3>2, BeginsBefore
    <2>2. CASE ~Streaming
      <3>1. taken = <<>> /\ http.body \in Seq(Blocks) /\ <<>> \o http.body = http.body
        BY <1>0, <1>2, <2>2 DEF OneBody, HttpTypes
      <3> QED BY <1>0, <3>1, BeginsBefore
    <2> QED BY <2>1, <2>2
  <1>3. ASSUME use = "esp"
        PROVE  /\ IsPrefix(taken, esp.body)
               /\ esp.opened => (IsCompleteDataReceived <=> taken = esp.body)
    <2>1. /\ esp.body \in Seq(Blocks) /\ esp.offset \in 0 .. Len(esp.body)
          /\ taken = SubSeq(esp.body, 1, esp.offset)
      BY <1>0, <1>3 DEF OneBody, EspTypes
    <2>2. IsPrefix(taken, esp.body) /\ (taken = esp.body <=> esp.offset = Len(esp.body))
      BY <2>1, Begins
    <2> QED BY <2>1, <2>2 DEF IsCompleteDataReceived
  <1> QED BY <1>1, <1>2, <1>3 DEF BodiesExact, ReadsOneBody

LEMMA InitialInv == Init => FetchInv
  <1> SUFFICES ASSUME Init PROVE FetchInv
    OBVIOUS
  <1>1. Honest /\ Addressed /\ Downloading
    BY DEF Init, NoReply, Honest, Addressed, Downloading
  <1>2. OneBody
    <2>1. taken = <<>> /\ http.stream = NoStream /\ esp.offset = 0 /\ esp.body = <<>>
      BY DEF Init, NoHttp, NoEsp
    <2> QED BY <2>1 DEF OneBody, Streaming
  <1> QED BY <1>1, <1>2, InitialTypes DEF FetchInv

LEMMA InvKept == FetchInv /\ [Next]_vars => FetchInv'
  BY TypesKept, AddressedKept, HonestKept, DownloadingKept, OneBodyKept DEF FetchInv

(***************************************************************************)
(* Every variable of the transport and its clients keeps to its type: a    *)
(* block that was read is one of a resource or the error page.             *)
(***************************************************************************)
THEOREM TypeCorrect == Spec => []TypeOK
  <1>1. FetchInv => TypeOK
    BY DEF FetchInv
  <1> QED BY InitialInv, InvKept, <1>1, PTL DEF Spec

(***************************************************************************)
(* No client hands out anything but the one body it was given, for any     *)
(* resources and sizes and any number of attempts: a download that says it *)
(* is complete has exactly the last body in its sink, the whole resource   *)
(* unless curl reported it cut short, and a stream or a read gives each    *)
(* block once and in order.                                                *)
(***************************************************************************)
THEOREM NothingButTheBody == Spec => []BodiesExact
  BY InitialInv, InvKept, Exact, PTL DEF Spec
=============================================================================
