--------------------------- MODULE MCFileTransfer ---------------------------
(***************************************************************************)
(* Paths have at most two names.  One request that may change the card,    *)
(* with any number before and after it that only read, on each of four     *)
(* cards: an empty one; a directory "s" with two files beside a file "f"   *)
(* and the protected ".d"; the same with a dot entry in "s", so that it    *)
(* cannot be removed whole; and two directories, so that one can be put    *)
(* over the other.  The cards make up for the requests that would have led *)
(* there.                                                                  *)
(***************************************************************************)
EXTENDS FileTransfer

MCOrder == <<"f", ".d", "s">>
MCBlocks == {"n", "o", "p", "q", "h", "r"}
MCDotted == {".d"}
MCProtected == {".d"}
MCNamed == {<<"s">>, <<"f">>, <<"s", "f">>, <<"s", "s">>, <<".d">>}
MCWalkDir == <<"s">>
MCBodies == {<<"n">>}
MCHidden == {"q", "h"}

Plain == (<<>> :> DirNode) @@ (<<"s">> :> DirNode) @@ (<<"f">> :> FileNode(<<"o", "o">>))
           @@ (<<"s", "f">> :> FileNode(<<"p">>)) @@ (<<"s", "s">> :> FileNode(<<>>))
           @@ (<<".d">> :> FileNode(<<"q">>))
MCCards == {Root :> DirNode,
            Plain,
            Plain @@ (<<"s", ".d">> :> FileNode(<<"h">>)),
            (<<>> :> DirNode) @@ (<<"s">> :> DirNode) @@ (<<"s", "f">> :> FileNode(<<"p">>))
              @@ (<<"f">> :> DirNode) @@ (<<"f", "s">> :> FileNode(<<"r">>))}
=============================================================================
