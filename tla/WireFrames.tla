----------------------------- MODULE WireFrames -----------------------------
(***************************************************************************)
(* The frames WebSocketsServer.cpp reads and writes, the proof of its      *)
(* handshake with the SHA-1 that takes, and the base64 of                  *)
(* WebSocketsServer.cpp, base64.h and mbedtls/base64.h.  A stream is the   *)
(* sequence of its bytes, as far as it ever comes.  Numbers stay within    *)
(* the 31 bits of TLC's integers, lengths beyond them included.            *)
(***************************************************************************)
EXTENDS Integers, Sequences, SequencesExt, Bitwise

CONSTANT MaxPayload  \* MAX_WS_PAYLOAD

ASSUME PayloadAssumption == MaxPayload \in 0 .. 2147483646

TextOpcode == 1
PongOpcode == 10
Fin == 128

BigEndian(bytes) == FoldLeft(LAMBDA n, byte : 256 * n + byte, 0, bytes)
Bytes(n, count) == [i \in 1 .. count |-> IF count - i > 3 THEN 0 ELSE (n \div 256 ^ (count - i)) % 256]

(***************************************************************************)
(* sendWsTextFrame and sendWsPongFrame: never masked, never fragmented.  A *)
(* pong that would need a longer length is not sent.                       *)
(***************************************************************************)
LengthBytesNarrow(n) ==  \* mutant: 65536 in two bytes
  IF n < 126 THEN <<n>> ELSE IF n <= 65536 THEN <<126>> \o Bytes(n, 2) ELSE <<127>> \o Bytes(n, 8)
LengthBytes(n) ==
  IF n < 126 THEN <<n>> ELSE IF n <= 65535 THEN <<126>> \o Bytes(n, 2) ELSE <<127>> \o Bytes(n, 8)

TextFrame(message) == <<Fin + TextOpcode>> \o LengthBytes(Len(message)) \o message
PongFrame(payload) ==
  IF Len(payload) < 126 THEN <<Fin + PongOpcode, Len(payload)>> \o payload ELSE <<>>

(***************************************************************************)
(* readWsFrame: the opcode and the payload, unmasked; ok is its result and *)
(* rest what is still to be read.  Neither FIN nor a reserved bit is       *)
(* looked at, and a frame without a mask is taken as it is.                *)
(***************************************************************************)
NoFrame == [ok |-> FALSE, opcode |-> 0, payload |-> <<>>, rest |-> <<>>]
Extended(length) == CASE length = 126 -> 2 [] length = 127 -> 8 [] OTHER -> 0

\* The 7, 16 or 64 bits of the length.  One of 2^31 and more, which the reader
\* refuses whatever it is, stands as the first that it refuses.
WsLength(bytes) ==
  IF Len(bytes) = 8 /\ (bytes[5] >= 128 \/ \E i \in 1 .. 4 : bytes[i] # 0)
  THEN MaxPayload + 1 ELSE BigEndian(bytes)

ReadWsFrame(s) ==
  LET masked == s[2] >= 128
      ext == Extended(s[2] % 128)
      length == IF ext = 0 THEN s[2] % 128 ELSE WsLength(SubSeq(s, 3, 2 + ext))
      dataAt == 3 + ext + IF masked THEN 4 ELSE 0
      mask == SubSeq(s, 3 + ext, dataAt - 1)
      data == SubSeq(s, dataAt, dataAt + length - 1)
  IN IF Len(s) < 2 THEN NoFrame
     ELSE IF Len(s) < 2 + ext THEN NoFrame
     ELSE IF length > MaxPayload \/ Len(s) < dataAt + length - 1 THEN NoFrame
     ELSE [ok |-> TRUE, opcode |-> s[1] % 16,
           payload |-> IF masked THEN [i \in 1 .. length |-> data[i] ^^ mask[1 + ((i - 1) % 4)]]
                       ELSE data,
           rest |-> SubSeq(s, dataAt + length, Len(s))]

-----------------------------------------------------------------------------
(***************************************************************************)
(* base64.  A symbol is its value, -1 another character, -2 the padding.   *)
(***************************************************************************)
Pad == -2

Base64Encode(data) ==
  LET At(i) == IF i <= Len(data) THEN data[i] ELSE 0
      Group(k) ==
        LET first == 3 * k - 2
            triple == At(first) * 65536 + At(first + 1) * 256 + At(first + 2)
        IN <<triple \div 262144, (triple \div 4096) % 64,
             IF first + 1 <= Len(data) THEN (triple \div 64) % 64 ELSE Pad,
             IF first + 2 <= Len(data) THEN triple % 64 ELSE Pad>>
  IN FlattenSeq([k \in 1 .. (Len(data) + 2) \div 3 |-> Group(k)])

(***************************************************************************)
(* mbedtls_base64_decode: what a destination of dlen bytes gets.  The size *)
(* asked for counts the padding; characters left over after the last group *)
(* of four are passed over.                                                *)
(***************************************************************************)
Padding(src) ==
  LET data == {i \in DOMAIN src : src[i] # Pad}
  IN IF data = {} THEN Len(src) ELSE Len(src) - CHOOSE i \in data : \A j \in data : j <= i
NeededOf(src) == 3 * (Len(src) \div 4) - Padding(src)

DecodeGroup(g) ==
  <<(4 * g[1] + g[2] \div 16) % 256>>
    \o (IF g[3] = Pad THEN <<>> ELSE <<(16 * g[2] + g[3] \div 4) % 256>>)
    \o (IF g[4] = Pad THEN <<>> ELSE <<(64 * g[3] + g[4]) % 256>>)

BadGroup(g) ==
  \/ g[1] < 0 \/ g[2] < 0
  \/ g[3] # Pad /\ g[3] < 0
  \/ g[4] # Pad /\ g[4] < 0

MbedtlsBase64Decode(src, dlen) ==
  LET groups == [k \in 1 .. Len(src) \div 4 |-> SubSeq(src, 4 * k - 3, 4 * k)]
  IN IF NeededOf(src) < 0 \/ dlen < NeededOf(src)  \* below zero it wraps
     THEN [result |-> "too small", olen |-> NeededOf(src), dst |-> <<>>]
     ELSE IF \E k \in DOMAIN groups : BadGroup(groups[k])
     THEN [result |-> "invalid", olen |-> 0, dst |-> <<>>]
     ELSE LET dst == FlattenSeq([k \in DOMAIN groups |-> DecodeGroup(groups[k])])
          IN [result |-> "ok", olen |-> Len(dst), dst |-> dst]

-----------------------------------------------------------------------------
(***************************************************************************)
(* sha1Digest.  A word of 32 bits is the pair of its halves, a message the *)
(* sequence of its bytes, shorter than 2^28 of them.                       *)
(***************************************************************************)
Half == 65536
WordOf(b) == <<256 * b[1] + b[2], 256 * b[3] + b[4]>>
BytesOf(w) == <<w[1] \div 256, w[1] % 256, w[2] \div 256, w[2] % 256>>
AddWords(x, y) ==
  LET low == x[2] + y[2] IN <<(x[1] + y[1] + low \div Half) % Half, low % Half>>
Sum4(w, x, y, z) == AddWords(AddWords(w, x), AddWords(y, z))
Rol32(x, shift) ==
  LET y == IF shift < 16 THEN x ELSE <<x[2], x[1]>>
      k == shift % 16
      Turned(high, low) == (high * 2 ^ k + low \div 2 ^ (16 - k)) % Half
  IN <<Turned(y[1], y[2]), Turned(y[2], y[1])>>
AndWords(x, y) == <<x[1] & y[1], x[2] & y[2]>>
OrWords(x, y) == <<x[1] | y[1], x[2] | y[2]>>
XorWords(x, y) == <<x[1] ^^ y[1], x[2] ^^ y[2]>>
NotWord(x) == <<Half - 1 - x[1], Half - 1 - x[2]>>

PaddedBytes(message) ==
  LET zeros == (64 - ((Len(message) + 9) % 64)) % 64
  IN message \o <<128>> \o [i \in 1 .. zeros |-> 0] \o Bytes(8 * Len(message), 8)

Schedule(block) ==
  LET words[n \in 16 .. 80] ==
        IF n = 16 THEN [i \in 1 .. 16 |-> WordOf(SubSeq(block, 4 * i - 3, 4 * i))]
        ELSE LET w == words[n - 1]
             IN Append(w, Rol32(XorWords(XorWords(w[n - 3], w[n - 8]), XorWords(w[n - 14], w[n - 16])), 1))
  IN words[80]

RoundConstant(i) ==
  CASE i <= 20 -> <<23170, 31129>> [] i \in 21 .. 40 -> <<28377, 60321>>
    [] i \in 41 .. 60 -> <<36635, 48348>> [] i > 60 -> <<51810, 49622>>
RoundFunction(i, b, c, d) ==
  CASE i <= 20 -> OrWords(AndWords(b, c), AndWords(NotWord(b), d))
    [] i \in 41 .. 60 -> OrWords(OrWords(AndWords(b, c), AndWords(b, d)), AndWords(c, d))
    [] OTHER -> XorWords(XorWords(b, c), d)
Round(h, i, word) ==  \* h is <<e, d, c, b, a>>
  <<h[2], h[3], Rol32(h[4], 30), h[5],
    AddWords(Sum4(Rol32(h[5], 5), RoundFunction(i, h[4], h[3], h[2]), h[1], RoundConstant(i)), word)>>
Compress(h, block) ==
  LET words == Schedule(block)
      turned[i \in 0 .. Len(words)] == IF i = 0 THEN h ELSE Round(turned[i - 1], i, words[i])
      last == turned[Len(words)]
  IN <<AddWords(h[1], last[1]), AddWords(h[2], last[2]), AddWords(h[3], last[3]),
       AddWords(h[4], last[4]), AddWords(h[5], last[5])>>

Sha1Start ==
  <<<<50130, 57840>>, <<4146, 21622>>, <<39098, 56574>>, <<61389, 43913>>, <<26437, 8961>>>>
Sha1Digest(message) ==
  LET padded == PaddedBytes(message)
      h == FoldLeft(LAMBDA r, k : Compress(r, SubSeq(padded, 64 * k - 63, 64 * k)), Sha1Start,
                    [k \in 1 .. Len(padded) \div 64 |-> k])
  IN FlattenSeq([k \in 1 .. 5 |-> BytesOf(h[6 - k])])

(***************************************************************************)
(* websocketAcceptValue: how the server proves that it read the client's   *)
(* key.                                                                    *)
(***************************************************************************)
Guid ==  \* 258EAFA5-E914-47DA-95CA-C5AB0DC85B11
  <<50, 53, 56, 69, 65, 70, 65, 53, 45, 69, 57, 49, 52, 45, 52, 55, 68, 65, 45,
    57, 53, 67, 65, 45, 67, 53, 65, 66, 48, 68, 67, 56, 53, 66, 49, 49>>
WebsocketAcceptValue(key) == Base64Encode(Sha1Digest(key \o Guid))
=============================================================================
