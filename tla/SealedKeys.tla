----------------------------- MODULE SealedKeys -----------------------------
(***************************************************************************)
(* The stand-in for AES-GCM that wraps the firmware's keys: wolfcrypt/aes.h*)
(* A text is the sequence of its bytes.  The digest of the host is told by *)
(* the text it is of, and a byte of it, where it is used as a pad, by some *)
(* function of the text.                                                   *)
(***************************************************************************)
EXTENDS Integers, Sequences, SequencesExt, Bitwise

Zeros(n) == [i \in 1 .. n |-> 0]
Filled(text, n) == SubSeq(text \o Zeros(n), 1, n)

NoAes == [key |-> Zeros(32), keyLen |-> 0]
AesSetKey(aes, key) ==  \* 0 is success
  IF Len(key) \in {16, 24, 32}
  THEN [result |-> 0, aes |-> [key |-> key \o SubSeq(aes.key, Len(key) + 1, 32), keyLen |-> Len(key)]]
  ELSE [result |-> -1, aes |-> aes]

Sha256(text) == [sha256 |-> text]
PadByte(digest, i) ==
  FoldLeft(LAMBDA sum, c : (17 * sum + c + 1) % 251, i, digest.sha256) % 256

Keystream(aes, iv, counter) == Sha256(aes.key \o Filled(iv, 16) \o Filled(<<counter>>, 4))
XorStream(aes, in, iv) ==
  [i \in DOMAIN in |-> in[i] ^^ PadByte(Keystream(aes, iv, (i - 1) \div 32), (i - 1) % 32)]
Tag(aes, data, aad) == Sha256(aes.key \o aad \o data)
SameTag(a, b, size) == size = 0 \/ a = b

GcmEncrypt(aes, in, iv, aad) ==
  LET out == XorStream(aes, in, iv) IN [out |-> out, tag |-> Tag(aes, out, aad)]
GcmDecrypt(aes, in, iv, tag, size, aad) ==
  IF ~SameTag(Tag(aes, in, aad), tag, size) THEN [result |-> -1, out |-> <<>>]
  ELSE [result |-> 0, out |-> XorStream(aes, in, iv)]
=============================================================================
