------------------------------ MODULE Multipart ------------------------------
(***************************************************************************)
(* The multipart/form-data readers of the two web servers: parseMultipart  *)
(* of WebServer.cpp and parseMultipartFile of CrossPointWebServer.cpp.     *)
(*                                                                         *)
(* A text is a sequence of pieces: CRLF, "--", the boundary's text, the    *)
(* keys and the quote of a part's header, or a byte of a value or of data. *)
(***************************************************************************)
EXTENDS Naturals, Sequences, FiniteSets, SequencesExt

CONSTANTS
  Boundary,  \* the piece that is the boundary's text
  Slashed    \* the pieces that are slashes

CRLF == "\r\n"
Dashes == "--"
NameIs == "name="
FilenameIs == "filename="
QuoteMark == "quote"
BlankLine == <<CRLF, CRLF>>

LeastAt(S) == CHOOSE i \in S : \A j \in S : i <= j
FindText(s, t, from) ==  \* std::string::find: 0 where that is npos
  LET at == {i \in from .. Len(s) + 1 - Len(t) : SubSeq(s, i, i + Len(t) - 1) = t}
  IN IF at = {} THEN 0 ELSE LeastAt(at)
StartsAt(s, t, at) == SubSeq(s, at, at + Len(t) - 1) = t

(***************************************************************************)
(* The boundary out of the content type: quoted, or up to a semicolon, in  *)
(* the firmware's server; the rest of the header, as it is, in the file    *)
(* server.                                                                 *)
(***************************************************************************)
ContentTypes == [quoted : BOOLEAN, more : BOOLEAN]
ParsedBoundary(type) == <<Dashes, Boundary>>
MultipartBoundary(type) ==
  <<Dashes>> \o (IF type.quoted THEN <<QuoteMark, Boundary, QuoteMark>> ELSE <<Boundary>>)
             \o (IF type.more THEN <<";">> ELSE <<>>)

(***************************************************************************)
(* headerParam: the text between the quotes after the first key=".  The    *)
(* key name=" is found at the end of filename=" too, which comes after it  *)
(* in every part a browser sends.                                          *)
(***************************************************************************)
Needles(key) == IF key = NameIs THEN {NameIs, FilenameIs} ELSE {key}
HeaderParam(header, key) ==
  LET at == {i \in DOMAIN header : /\ header[i] \in Needles(key)
                                   /\ StartsAt(header, <<QuoteMark>>, i + 1)}
      start == LeastAt(at) + 2
      end == FindText(header, <<QuoteMark>>, start)
  IN IF at = {} THEN <<>>
     ELSE IF end = 0 THEN <<>>
     ELSE SubSeq(header, start, end - 1)

-----------------------------------------------------------------------------
(***************************************************************************)
(* parseMultipart: the parts that have a name.  The data ends at the next  *)
(* boundary text, with or without a CRLF before it; a CRLF before it that  *)
(* ends the header makes the length of the data wrap, and the data is the  *)
(* rest of the body.                                                       *)
(***************************************************************************)
AfterBoundary(body, at, boundary) ==
  LET past == at + Len(boundary)
  IN IF StartsAt(body, <<CRLF>>, past) THEN past + 1 ELSE past

DataOfKeepingCRLF(body, start, next) == SubSeq(body, start, next - 1)  \* mutant: keeps the CRLF
DataOf(body, start, next) ==
  LET end == IF StartsAt(body, <<CRLF>>, next - 1) THEN next - 1 ELSE next
  IN SubSeq(body, start, IF end < start THEN Len(body) ELSE end - 1)

ParseMultipart(type, body) ==
  LET boundary == ParsedBoundary(type)
      parts[at \in 0 .. Len(body) + 1] ==
        IF at = 0 \/ StartsAt(body, <<Dashes>>, at + Len(boundary)) THEN <<>>
        ELSE LET start == AfterBoundary(body, at, boundary)
                 headersEnd == FindText(body, BlankLine, start)
                 next == FindText(body, boundary, headersEnd + 2)
                 header == SubSeq(body, start, headersEnd - 1)
                 part == [name |-> HeaderParam(header, NameIs),
                          filename |-> HeaderParam(header, FilenameIs),
                          data |-> DataOf(body, headersEnd + 2, next)]
             IN IF headersEnd = 0 \/ next = 0 THEN <<>>
                ELSE (IF part.name = <<>> THEN <<>> ELSE <<part>>) \o parts[next]
  IN parts[FindText(body, boundary, 1)]

(***************************************************************************)
(* parseMultipartFile: the first part with a filename, whose data ends at  *)
(* CRLF and boundary; the name is what follows its last slash.             *)
(***************************************************************************)
NoFile == [ok |-> FALSE, filename |-> <<>>, bytes |-> <<>>]
Basename(name) ==
  LET slashes == {i \in DOMAIN name : name[i] \in Slashed}
  IN SubSeq(name, IF slashes = {} THEN 1 ELSE 1 + CHOOSE i \in slashes : \A j \in slashes : j <= i,
            Len(name))

ParseMultipartFile(type, body) ==
  LET boundary == MultipartBoundary(type)
      file[at \in 0 .. Len(body) + 1] ==
        IF at = 0 \/ StartsAt(body, <<Dashes>>, at + Len(boundary)) THEN NoFile
        ELSE LET start == AfterBoundary(body, at, boundary)
                 headerEnd == FindText(body, BlankLine, start)
                 next == FindText(body, <<CRLF>> \o boundary, headerEnd + 2)
                 header == SubSeq(body, start, headerEnd - 1)
                 name == FindText(header, <<FilenameIs, QuoteMark>>, 1)
                 nameEnd == FindText(header, <<QuoteMark>>, name + 2)
             IN IF headerEnd = 0 \/ next = 0 \/ (name # 0 /\ nameEnd = 0) THEN NoFile
                ELSE IF name = 0 THEN file[FindText(body, boundary, next)]
                ELSE [ok |-> TRUE, filename |-> Basename(SubSeq(header, name + 2, nameEnd - 1)),
                      bytes |-> SubSeq(body, headerEnd + 2, next - 1)]
  IN file[FindText(body, boundary, 1)]
=============================================================================
