----------------------------- MODULE MCWebServer -----------------------------
(***************************************************************************)
(* WebServer with a page, an upload form and a raw handler; bodies up to   *)
(* two chunks, one body too large, and parts that fill a chunk or not.     *)
(***************************************************************************)
EXTENDS WebServer

Req(uri, method, kind, length, files) ==
  [uri |-> uri, method |-> method, kind |-> kind, query |-> uri = "page",
   length |-> length, files |-> files, fields |-> Len(files) = 1]

SomeRequests ==
  {Req("page", "GET", "other", 0, <<>>), Req("page", "HEAD", "form", 1, <<>>),
   Req("upload", "POST", "multipart", 4, <<3>>),
   Req("upload", "POST", "multipart", 4, <<2, 0>>),
   Req("upload", "POST", "other", 2, <<>>),
   Req("dav", "POST", "other", 4, <<>>), Req("dav", "POST", "other", 5, <<>>),
   Req("page", "BREW", "other", 1, <<>>),
   Req("gone", "GET", "multipart", 1, <<>>)}

SomeRoutes ==
  <<[uri |-> "page", method |-> "GET", upload |-> FALSE],
    [uri |-> "upload", method |-> "POST", upload |-> TRUE],
    [uri |-> "page", method |-> "ANY", upload |-> TRUE]>>

Dav == {"dav"}

=============================================================================
