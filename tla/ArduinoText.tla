---------------------------- MODULE ArduinoText ----------------------------
(***************************************************************************)
(* The Arduino String over std::string, and the streams made of it:        *)
(* WString.h, StreamString.h, Stream.h and the writing half of             *)
(* NetworkClient.  A text is the sequence of its bytes; positions count    *)
(* from 0 as in the code, and an int of -1 is none.                        *)
(***************************************************************************)
EXTENDS Integers, Sequences, SequencesExt

None == -1
LeastOf(S) == CHOOSE i \in S : \A j \in S : i <= j
GreatestOf(S) == CHOOSE i \in S : \A j \in S : j <= i

IndexOf(s, t, from) ==
  LET at == {i \in from .. Len(s) - Len(t) : SubSeq(s, i + 1, i + Len(t)) = t}
  IN IF at = {} THEN None ELSE LeastOf(at)
LastIndexOf(s, c) ==
  LET at == {i \in 0 .. Len(s) - 1 : s[i + 1] = c} IN IF at = {} THEN None ELSE GreatestOf(at)

(***************************************************************************)
(* substring: an end before the beginning is, unsigned, a length without   *)
(* end.  No end is the largest unsigned number.                            *)
(***************************************************************************)
NoEnd == None
Substring(s, from, to) ==
  IF from >= Len(s) THEN <<>>
  ELSE IF to = NoEnd \/ to < from \/ to > Len(s) THEN SubSeq(s, from + 1, Len(s))
  ELSE SubSeq(s, from + 1, to)

CharAt(s, i) == IF i < Len(s) THEN s[i + 1] ELSE 0
StartsWith(s, t) == IndexOf(s, t, 0) = 0
EndsWith(s, t) == Len(s) >= Len(t) /\ SubSeq(s, Len(s) - Len(t) + 1, Len(s)) = t
RemoveFrom(s, index, count) ==
  IF index >= Len(s) THEN s
  ELSE SubSeq(s, 1, index) \o SubSeq(s, index + count + 1, Len(s))

White == {9, 10, 13, 32}
TrimText(s) ==
  LET kept == {i \in DOMAIN s : s[i] \notin White}
  IN IF kept = {} THEN <<>> ELSE SubSeq(s, LeastOf(kept), GreatestOf(kept))

Replace(s, find, with) ==  \* an occurrence at a time, each after the last
  LET Once(r) ==
        LET at == IndexOf(r.text, find, r.pos)
        IN IF at = None THEN r
           ELSE [text |-> SubSeq(r.text, 1, at) \o with \o SubSeq(r.text, at + Len(find) + 1, Len(r.text)),
                 pos |-> at + Len(with)]
      replaced[i \in 0 .. Len(s)] == IF i = 0 THEN [text |-> s, pos |-> 0] ELSE Once(replaced[i - 1])
  IN IF find = <<>> THEN s ELSE replaced[Len(s)].text
ReplaceChar(s, find, with) == [i \in DOMAIN s |-> IF s[i] = find THEN with ELSE s[i]]

(***************************************************************************)
(* concat() and write() keep every byte of what they are given; operator+  *)
(* takes its right side as a C string, which a byte of 0 ends.             *)
(***************************************************************************)
Concat(s, t) == s \o t
CStringOf(s) == LET nul == IndexOf(s, <<0>>, 0) IN IF nul = None THEN s ELSE SubSeq(s, 1, nul)
PlusText(lhs, rhs) == lhs \o CStringOf(rhs)

-----------------------------------------------------------------------------
(***************************************************************************)
(* StreamString.  A byte is read as a char, signed on Apple's processors   *)
(* and on x86: from 128 on it comes out negative.                          *)
(***************************************************************************)
EmptyStream == [buffer |-> <<>>, position |-> 0]
Signed(c) == IF c < 128 THEN c ELSE c - 256
StreamWrite(stream, data) == [stream EXCEPT !.buffer = @ \o data]
StreamAvailable(stream) == Len(stream.buffer) - stream.position
StreamPeek(stream) ==
  IF stream.position < Len(stream.buffer) THEN Signed(CharAt(stream.buffer, stream.position)) ELSE -1
StreamRead(stream) ==
  [value |-> StreamPeek(stream),
   stream |-> IF stream.position < Len(stream.buffer) THEN [stream EXCEPT !.position = @ + 1] ELSE stream]
StreamClear == EmptyStream

(***************************************************************************)
(* Stream::readBytes: up to length bytes; a negative one ends it, and is   *)
(* gone.                                                                   *)
(***************************************************************************)
ReadBytes(stream, length) ==
  LET one[i \in 0 .. length] ==
        IF i = 0 THEN [bytes |-> <<>>, stream |-> stream, over |-> FALSE]
        ELSE LET r == one[i - 1]
                 got == StreamRead(r.stream)
             IN IF r.over \/ StreamAvailable(r.stream) <= 0 THEN r
                ELSE IF got.value < 0 THEN [r EXCEPT !.stream = got.stream, !.over = TRUE]
                ELSE [r EXCEPT !.stream = got.stream, !.bytes = Append(@, got.value)]
  IN one[length]

-----------------------------------------------------------------------------
(***************************************************************************)
(* NetworkClient::connect.  A host stands for addresses, some of which     *)
(* have no socket here or do not answer; "open" are the descriptors of the *)
(* process with what they are connected to, of which a new one is the      *)
(* lowest that is free.                                                    *)
(***************************************************************************)
NoFd == -1
Disconnected == [fd |-> NoFd, open |-> <<>>]
Without(open, fd) == [f \in DOMAIN open \ {fd} |-> open[f]]
ClientStop(client) == [fd |-> NoFd, open |-> Without(client.open, client.fd)]
ClientConnected(client) == client.fd # NoFd
ClientConnect(client, addresses) ==
  LET Free(open) == CHOOSE f \in 3 .. 9 : f \notin DOMAIN open /\ \A g \in 3 .. f - 1 : g \in DOMAIN open
      Try(t, a) == IF t.fd # NoFd \/ ~a.socket \/ ~a.answers THEN t  \* no socket, or closed again
                   ELSE [fd |-> Free(t.open), open |-> t.open @@ (Free(t.open) :> a.name)]
      tried == FoldLeft(Try, [client EXCEPT !.fd = NoFd], addresses)
  IN IF tried.fd = NoFd THEN [ok |-> FALSE, client |-> client]
     ELSE [ok |-> TRUE, client |-> [fd |-> tried.fd, open |-> Without(tried.open, client.fd)]]

(***************************************************************************)
(* NetworkClient::write: the system takes a part at a time, its answers    *)
(* are the list sends; an answer of nothing or an error ends the writing.  *)
(***************************************************************************)
ClientWrite(data, sends) ==
  LET done == FoldLeft(LAMBDA r, n :
                         IF r.over \/ r.written >= Len(data) \/ n <= 0 THEN [r EXCEPT !.over = TRUE]
                         ELSE [r EXCEPT !.written = IF @ + n < Len(data) THEN @ + n ELSE Len(data),
                                        !.used = @ + 1],
                       [written |-> 0, used |-> 0, over |-> FALSE], sends)
  IN [written |-> done.written, sent |-> SubSeq(data, 1, done.written),
      rest |-> SubSeq(sends, done.used + 1, Len(sends))]

ClientWriteStream(stream, chunk, sends) ==  \* write(Stream&): a buffer's worth at a time
  LET Loop(r) ==
        LET got == ReadBytes(r.stream, chunk)
            put == ClientWrite(got.bytes, r.sends)
        IN IF r.over \/ StreamAvailable(r.stream) <= 0 THEN r
           ELSE IF got.bytes = <<>> THEN [r EXCEPT !.stream = got.stream, !.over = TRUE]
           ELSE [stream |-> got.stream, sent |-> r.sent \o put.sent, sends |-> put.rest,
                 over |-> put.written # Len(got.bytes)]
      run[i \in 0 .. Len(stream.buffer)] ==
        IF i = 0 THEN [stream |-> stream, sent |-> <<>>, sends |-> sends, over |-> FALSE]
        ELSE Loop(run[i - 1])
  IN [total |-> Len(run[Len(stream.buffer)].sent), sent |-> run[Len(stream.buffer)].sent]
=============================================================================
