----------------------------- MODULE RequestText -----------------------------
(***************************************************************************)
(* How names and paths travel between a browser or a WebDAV client and the *)
(* two web servers: percent encoding, queries, paths, and the escapes of   *)
(* the listings.  CrossPointWebServer.cpp, with the page it serves, and    *)
(* the query part of WebServer.cpp.                                        *)
(*                                                                         *)
(* A text is the sequence of its bytes.                                    *)
(***************************************************************************)
EXTENDS Naturals, Sequences, FiniteSets, SequencesExt

CONSTANT Reserved  \* the protected names that do not begin with a dot

ASSUME ReservedAssumption == Reserved \subseteq Seq(0 .. 255)

Tab == 9
LF == 10
CR == 13
Space == 32
Quote == 34
Percent == 37
Amp == 38
Apostrophe == 39
Plus == 43
Minus == 45
Dot == 46
Slash == 47
Colon == 58
Less == 60
Equal == 61
Greater == 62
Question == 63
Backslash == 92

Digits == 48 .. 57
UpperCase == 65 .. 90
LowerCase == 97 .. 122
Blanks == Tab .. CR \cup {Space}

-----------------------------------------------------------------------------
(***************************************************************************)
(* Searching and cutting.                                                  *)
(***************************************************************************)
Least(S) == CHOOSE i \in S : \A j \in S : i <= j
Find(s, t, from) ==  \* std::string::find: 0 where that is npos
  LET at == {i \in from .. Len(s) + 1 - Len(t) : SubSeq(s, i, i + Len(t) - 1) = t}
  IN IF at = {} THEN 0 ELSE Least(at)
Before(s, at) == IF at = 0 THEN s ELSE SubSeq(s, 1, at - 1)
After(s, at) == SubSeq(s, at + 1, Len(s))

Split(s, c) ==
  FoldLeft(LAMBDA parts, x : IF x = c THEN Append(parts, <<>>)
                             ELSE [parts EXCEPT ![Len(parts)] = Append(@, x)],
           <<<<>>>>, s)

Lower(s) == [i \in DOMAIN s |-> IF s[i] \in UpperCase THEN s[i] + 32 ELSE s[i]]
Trim(s) ==
  LET kept == {i \in DOMAIN s : s[i] \notin Blanks}
  IN IF kept = {} THEN <<>>
     ELSE SubSeq(s, Least(kept), CHOOSE i \in kept : \A j \in kept : j <= i)

(***************************************************************************)
(* A header line: everything up to the first colon names it.               *)
(***************************************************************************)
Header(line) ==
  LET colon == Find(line, <<Colon>>, 1)
  IN [name |-> Lower(Before(line, colon)), value |-> Trim(After(line, colon))]

-----------------------------------------------------------------------------
(***************************************************************************)
(* Percent decoding.  WebServer.cpp takes two hexadecimal digits, the file *)
(* server whatever strtol() reads to the end: a blank or a sign may stand  *)
(* in place of the first one.  An escape that is not one stays.            *)
(***************************************************************************)
IsHex(c) == c \in Digits \cup 65 .. 70 \cup 97 .. 102
HexValue(c) == IF c \in Digits THEN c - 48 ELSE (c % 32) + 9

Decode(s, Reads(_, _), Value(_, _), Plain(_)) ==
  LET decoded[i \in 1 .. Len(s) + 3] ==
        IF i > Len(s) THEN <<>>
        ELSE IF s[i] = Percent /\ i + 2 <= Len(s) /\ Reads(s[i + 1], s[i + 2])
        THEN <<Value(s[i + 1], s[i + 2])>> \o decoded[i + 3]
        ELSE <<Plain(s[i])>> \o decoded[i + 1]
  IN decoded[1]
PlusIsSpace(c) == IF c = Plus THEN Space ELSE c

TwoHex(a, b) == IsHex(a) /\ IsHex(b)
TwoHexValue(a, b) == 16 * HexValue(a) + HexValue(b)
UrlDecodeStd(s) == Decode(s, TwoHex, TwoHexValue, PlusIsSpace)

StrtolReads(a, b) == IsHex(b) /\ (IsHex(a) \/ a \in Blanks \cup {Plus, Minus})
StrtolValue(a, b) ==
  IF IsHex(a) THEN TwoHexValue(a, b)
  ELSE IF a = Minus THEN (256 - HexValue(b)) % 256 ELSE HexValue(b)
UrlDecodeKeepingLast(s) ==  \* mutant: an escape that ends the text is not seen
  IF s = <<>> THEN s ELSE Decode(Front(s), StrtolReads, StrtolValue, PlusIsSpace) \o <<Last(s)>>
UrlDecode(s) == Decode(s, StrtolReads, StrtolValue, PlusIsSpace)

(***************************************************************************)
(* Queries and forms.  The firmware's server keeps the arguments in order  *)
(* and drops empty items; the file server keeps a map, the last one of a   *)
(* name wins and an empty item is the empty name.                          *)
(***************************************************************************)
ParseArgs(s) ==
  LET items == SelectSeq(Split(s, Amp), LAMBDA item : item # <<>>)
      At(item) == Find(item, <<Equal>>, 1)
  IN [i \in DOMAIN items |->
        [name |-> UrlDecodeStd(Before(items[i], At(items[i]))),
         value |-> IF At(items[i]) = 0 THEN <<>> ELSE UrlDecodeStd(After(items[i], At(items[i])))]]

ParseQuery(s) ==
  LET items == Split(s, Amp)
      At(item) == Find(item, <<Equal>>, 1)
      Name(item) == UrlDecode(Before(item, At(item)))
      Value(item) == IF At(item) = 0 THEN <<>> ELSE UrlDecode(After(item, At(item)))
      LastOf(name) == CHOOSE i \in DOMAIN items :
                        /\ Name(items[i]) = name
                        /\ \A j \in i + 1 .. Len(items) : Name(items[j]) # name
  IN [name \in {Name(items[i]) : i \in DOMAIN items} |-> Value(items[LastOf(name)])]

(***************************************************************************)
(* What a handler of the firmware's server asks for: the first of a name,  *)
(* headers whatever their case, or the i-th, from 0 on.                    *)
(***************************************************************************)
Matching(entries, Matches(_)) == {i \in DOMAIN entries : Matches(entries[i].name)}
FirstOf(entries, at) == IF at = {} THEN <<>> ELSE entries[Least(at)].value
ArgNamed(args, name) == Matching(args, LAMBDA n : n = name)
HeaderNamed(headers, name) == Matching(headers, LAMBDA n : Lower(n) = Lower(name))
HasArgName(args, name) == ArgNamed(args, name) # {}
ArgByName(args, name) == FirstOf(args, ArgNamed(args, name))
HasHeaderName(headers, name) == HeaderNamed(headers, name) # {}
HeaderByName(headers, name) == FirstOf(headers, HeaderNamed(headers, name))
NthName(entries, i) == IF i \in 0 .. Len(entries) - 1 THEN entries[i + 1].name ELSE <<>>
NthValue(entries, i) == IF i \in 0 .. Len(entries) - 1 THEN entries[i + 1].value ELSE <<>>

QueryValue(query, key, fallback) == IF key \in DOMAIN query THEN query[key] ELSE fallback
ReadFormValue(body, key) == QueryValue(ParseQuery(body), key, <<>>)

-----------------------------------------------------------------------------
(***************************************************************************)
(* Paths.  normalizePath decodes first and gives the empty text for a path *)
(* with "..".                                                              *)
(***************************************************************************)
Collapse(s) ==
  FoldLeft(LAMBDA t, c : IF c = Slash /\ t # <<>> /\ Last(t) = Slash THEN t ELSE Append(t, c),
           <<>>, s)
NormalizePath(s) ==
  LET decoded == UrlDecode(s)
      path == Collapse(<<Slash>> \o decoded)
  IN IF <<Dot, Dot>> \in Range(Split(path, Slash)) THEN <<>>
     ELSE IF Len(path) > 1 /\ Last(path) = Slash THEN Front(path) ELSE path

IsProtectedName(name) == name = <<>> \/ name[1] = Dot \/ name \in Reserved
IsProtectedPath(path) ==
  \/ path = <<>>
  \/ \E part \in Range(Split(path, Slash)) : part # <<>> /\ IsProtectedName(part)

LastSlash(path) ==
  IF Slash \in Range(path) THEN CHOOSE i \in DOMAIN path : path[i] = Slash /\ Slash \notin Range(After(path, i))
  ELSE 0
BasenameOf(path) == After(path, LastSlash(path))
ParentOf(path) == IF LastSlash(path) <= 1 THEN <<Slash>> ELSE Before(path, LastSlash(path))
ChildOf(dir, name) == (IF dir = <<Slash>> THEN dir ELSE Append(dir, Slash)) \o name

(***************************************************************************)
(* What the handlers take for the path of a request.  parseRequest         *)
(* normalizes the target, and all but DELETE do it once more; a query's    *)
(* or a form's path was decoded with its item before that.                 *)
(***************************************************************************)
RequestPath(target) == NormalizePath(Before(target, Find(target, <<Question>>, 1)))
WebDavPath(target) == NormalizePath(RequestPath(target))
DeletePath(target) == RequestPath(target)
QueryPath(target, key, fallback) ==
  LET mark == Find(target, <<Question>>, 1)
  IN NormalizePath(QueryValue(ParseQuery(After(target, mark)), key, fallback))
FormPath(body, key) == NormalizePath(ReadFormValue(body, key))

DestinationPath(header) ==
  LET scheme == Find(header, <<Colon, Slash, Slash>>, 1)
      pathStart == Find(header, <<Slash>>, scheme + 3)
      path == IF scheme = 0 THEN header
              ELSE IF pathStart = 0 THEN <<Slash>> ELSE After(header, pathStart - 1)
  IN NormalizePath(Before(path, Find(path, <<Question>>, 1)))

(***************************************************************************)
(* HalStorage's resolveStoragePath: the path on the host, below the card's *)
(* root; a path with ".." is refused.                                      *)
(***************************************************************************)
ContainsUnsafeSegment(path) == <<Dot, Dot>> \in Range(Split(path, Slash))
Stripped(path) ==
  LET other == {i \in DOMAIN path : path[i] # Slash}
  IN IF other = {} THEN <<>> ELSE SubSeq(path, Least(other), Len(path))
ResolveStoragePath(root, path) ==
  IF ContainsUnsafeSegment(path) THEN <<>>
  ELSE IF Stripped(path) = <<>> THEN root
  ELSE root \o <<Slash>> \o Stripped(path)

-----------------------------------------------------------------------------
(***************************************************************************)
(* What listings and answers write.                                        *)
(***************************************************************************)
Each(s, Write(_)) == FoldLeft(LAMBDA t, c : t \o Write(c), <<>>, s)

JsonChar(c) ==
  CASE c \in {Backslash, Quote} -> <<Backslash, c>>
    [] c = LF -> <<Backslash, 110>>
    [] c = CR -> <<Backslash, 114>>
    [] c = Tab -> <<Backslash, 116>>
    [] c < 32 /\ c \notin {LF, CR, Tab} ->
         <<Backslash, 117, 48, 48, 48 + (c \div 16),
           IF c % 16 < 10 THEN 48 + (c % 16) ELSE 87 + (c % 16)>>
    [] OTHER -> <<c>>
JsonEscape(s) == Each(s, JsonChar)

XmlChar(c) ==
  CASE c = Amp -> <<Amp, 97, 109, 112, 59>>
    [] c = Less -> <<Amp, 108, 116, 59>>
    [] c = Greater -> <<Amp, 103, 116, 59>>
    [] c = Quote -> <<Amp, 113, 117, 111, 116, 59>>
    [] c = Apostrophe -> <<Amp, 97, 112, 111, 115, 59>>
    [] OTHER -> <<c>>
XmlEscape(s) == Each(s, XmlChar)

(***************************************************************************)
(* appendPropEntry: the href is the path as it is, not percent-encoded.    *)
(***************************************************************************)
Href(path, isDirectory) ==
  LET href == IF path = <<>> THEN <<Slash>> ELSE path
  IN XmlEscape(IF isDirectory /\ Last(href) # Slash THEN Append(href, Slash) ELSE href)

HeaderSafeFilename(name) ==
  LET kept == SelectSeq(name, LAMBDA c : c \notin {CR, LF})
      safe == [i \in DOMAIN kept |-> IF kept[i] \in {Quote, Backslash} THEN 95 ELSE kept[i]]
  IN IF safe = <<>> THEN <<100, 111, 119, 110, 108, 111, 97, 100>> ELSE safe

-----------------------------------------------------------------------------
(***************************************************************************)
(* The page: enc is the browser's encodeURIComponent.                      *)
(***************************************************************************)
Unreserved == Digits \cup UpperCase \cup LowerCase \cup {33, 39, 40, 41, 42, 45, 46, 95, 126}
HexDigit(n) == IF n < 10 THEN 48 + n ELSE 55 + n
EncChar(c) == IF c \in Unreserved THEN <<c>> ELSE <<Percent, HexDigit(c \div 16), HexDigit(c % 16)>>
Enc(s) == Each(s, EncChar)

Join(dir, name) == (IF dir = <<Slash>> THEN <<>> ELSE dir) \o <<Slash>> \o name
Up(path) ==
  LET parts == Front(Split(path, Slash))
      joined == Tail(FoldLeft(LAMBDA t, part : t \o <<Slash>> \o part, <<>>, parts))
  IN IF path = <<Slash>> \/ joined = <<>> THEN <<Slash>> ELSE joined

PathKey == <<112, 97, 116, 104>>
NameKey == <<110, 97, 109, 101>>
DownloadTarget(dir, name) ==
  <<Slash, 100, Question>> \o PathKey \o <<Equal>> \o Enc(Join(dir, name))
RenameBody(dir, name, next) ==
  PathKey \o <<Equal>> \o Enc(Join(dir, name)) \o <<Amp>> \o NameKey \o <<Equal>> \o Enc(next)

(***************************************************************************)
(* The argument of the buttons' onclick: js() escapes for the script, and  *)
(* nothing for the attribute it stands in.                                 *)
(***************************************************************************)
JsChar(c) == IF c \in {Backslash, Apostrophe} THEN <<Backslash, c>> ELSE <<c>>
Js(s) == Each(s, JsChar)
-----------------------------------------------------------------------------
(***************************************************************************)
(* The addresses that are fetched (SimHttpFetch.h, SecureHttpClient.h): as *)
(* a word of the shell, the name that a mock folder is searched for, where *)
(* "+" stays, and an address that a page gives relative to its own.        *)
(***************************************************************************)
ShellQuote(s) ==
  LET InQuotes(c) == IF c = Apostrophe THEN <<Apostrophe, Backslash, Apostrophe, Apostrophe>> ELSE <<c>>
  IN <<Apostrophe>> \o Each(s, InQuotes) \o <<Apostrophe>>

Hash == 35
FetchDecode(s) == Decode(s, TwoHex, TwoHexValue, LAMBDA c : c)
BasenameFromUrl(url) ==
  LET marks == {i \in DOMAIN url : url[i] \in {Question, Hash}}
  IN FetchDecode(BasenameOf(Before(url, IF marks = {} THEN 0 ELSE Least(marks))))

SchemeMark == <<Colon, Slash, Slash>>
ResolveUrl(base, location) ==
  LET scheme == Find(base, SchemeMark, 1)
      pathStart == Find(base, <<Slash>>, scheme + 3)
      origin == Before(base, pathStart)
      path == IF pathStart = 0 THEN <<Slash>> ELSE After(base, pathStart - 1)
  IN IF Find(location, SchemeMark, 1) # 0 THEN [ok |-> TRUE, url |-> location]
     ELSE IF scheme = 0 THEN [ok |-> FALSE, url |-> <<>>]
     ELSE IF location # <<>> /\ location[1] = Slash THEN [ok |-> TRUE, url |-> origin \o location]
     ELSE [ok |-> TRUE, url |-> origin \o SubSeq(path, 1, LastSlash(path)) \o location]
=============================================================================
