------------------------------- MODULE Storage -------------------------------
(***************************************************************************)
(* The simulated SD card: HalStorage.cpp over the host's file system.      *)
(*                                                                         *)
(* A card is a function from the paths that exist to what is there: a      *)
(* directory, or a file with its blocks.  A path is the sequence of its    *)
(* names, <<>> the card's root, so "..", doubled slashes and the like,     *)
(* which normalizePath and resolveStoragePath take out of a string, cannot *)
(* be written.  Every operation is a pair: what becomes of the card        *)
(* (Mkdir, Rename, ...), and whether the call returns true (MkdirOk, ...). *)
(* The operations change the card even when they fail, as the code does.   *)
(*                                                                         *)
(* A file carries one mark, "open": the firmware holds a descriptor on it. *)
(* The mark belongs to the file and not to its path: it goes along with a  *)
(* rename, stays through a truncation and is gone once the file is         *)
(* unlinked.                                                               *)
(***************************************************************************)
EXTENDS Naturals, Sequences, FiniteSets, SequencesExt

CONSTANTS
  Order,     \* the names, in the order readdir() lists them
  Dotted,    \* those that begin with a dot
  Blocks,    \* what files consist of
  MaxDepth   \* bound: names in a path, the host's limit on a path's length

Names == Range(Order)

ASSUME NamesAssumption ==
  Order \in Seq(Names) /\ IsInjective(Order) /\ Dotted \subseteq Names /\ MaxDepth \in Nat

Paths == BoundedSeq(Names, MaxDepth)
Root == <<>>

DirNode == [dir |-> TRUE, open |-> FALSE, data |-> <<>>]
FileNode(data) == [dir |-> FALSE, open |-> FALSE, data |-> data]

Has(c, p) == p \in DOMAIN c
IsDir(c, p) == Has(c, p) /\ c[p].dir
Child(p, name) == Append(p, name)
Under(c, p) == {q \in DOMAIN c : IsPrefix(p, q)}
Rebase(q, p, to) == to \o SubSeq(q, Len(p) + 1, Len(q))
Set(c, p, node) == [q \in DOMAIN c \cup {p} |-> IF q = p THEN node ELSE c[q]]
Without(c, gone) == [q \in DOMAIN c \ gone |-> c[q]]

(***************************************************************************)
(* What a host's file system holds: paths no longer than it allows, every  *)
(* entry but the root in a directory, and nothing written to a directory.  *)
(***************************************************************************)
Nodes == [dir : BOOLEAN, open : BOOLEAN, data : Seq(Blocks)]
IsCard(c) ==
  /\ DOMAIN c \subseteq Paths /\ c \in [DOMAIN c -> Nodes]
  /\ IsDir(c, Root) /\ \A p \in DOMAIN c \ {Root} : IsDir(c, Front(p))
  /\ \A p \in DOMAIN c : c[p].dir => c[p].data = <<>>

(***************************************************************************)
(* The entries of a directory, in readdir() order.                         *)
(***************************************************************************)
Places(c, p) == {i \in DOMAIN Order : Has(c, Child(p, Order[i]))}
Rank(i, S) == Cardinality({j \in S : j <= i})
Ordered(S) == [n \in 1 .. Cardinality(S) |-> Order[CHOOSE i \in S : Rank(i, S) = n]]
Entries(c, p) == Ordered(Places(c, p))

(***************************************************************************)
(* HalStorage::mkdir: every missing directory on the way, as far as no     *)
(* file is in it.  True when the last one was made or its name exists, be  *)
(* it a file's.                                                            *)
(***************************************************************************)
Blocked(c, p) == \E q \in Under(c, Root) : IsStrictPrefix(q, p) /\ ~c[q].dir
Mkdir(c, p) ==
  LET made == {q \in Prefixes(p) : q \in Paths /\ ~Has(c, q) /\ ~Blocked(c, q)}
  IN [q \in DOMAIN c \cup made |-> IF q \in made THEN DirNode ELSE c[q]]
MkdirOk(c, p) == p \in Paths /\ ~Blocked(c, p)

EnsureParents(c, p) == Mkdir(c, Front(p))

(***************************************************************************)
(* openFileForWrite: creates or truncates a file.  A directory is opened   *)
(* as one, and every write to it then writes nothing.                      *)
(***************************************************************************)
OpenWriteOk(c, p) == p \in Paths /\ IsDir(EnsureParents(c, p), Front(p))
OpenWrite(c, p) ==
  LET parents == EnsureParents(c, p) IN
  IF ~OpenWriteOk(c, p) \/ IsDir(parents, p) THEN parents
  ELSE Set(parents, p, [FileNode(<<>>) EXCEPT
                          !.open = Has(parents, p) /\ parents[p].open])

WriteTo(c, p, blocks) == [c EXCEPT ![p].data = @ \o blocks]

(***************************************************************************)
(* remove: a file, or an empty directory.                                  *)
(***************************************************************************)
UnlinkOk(c, p) == p # Root /\ Under(c, p) = {p}
Unlink(c, p) == IF UnlinkOk(c, p) THEN Without(c, {p}) ELSE c

(***************************************************************************)
(* removeDirRecursive passes over the entries whose name begins with a dot *)
(* and goes on after a failure, so what stays is these entries and the     *)
(* directories that lead to them.  True when the directory itself went.    *)
(***************************************************************************)
SurvivorsNone(c, p) == {}  \* mutant: only "." and ".." are passed over
Survivors(c, p) ==
  {q \in Under(c, p) : \E r \in Under(c, q) : \E i \in Len(p) + 1 .. Len(r) : r[i] \in Dotted}
RemoveTree(c, p) ==
  IF IsDir(c, p) THEN Without(c, Under(c, p) \ Survivors(c, p)) ELSE Unlink(c, p)
RemoveTreeOk(c, p) == Has(c, p) /\ Survivors(c, p) = {}

(***************************************************************************)
(* rename: the new path's parents are made first, whatever comes of it.    *)
(***************************************************************************)
RenameOk(c, from, to) ==
  LET parents == EnsureParents(c, to) IN
  /\ to \in Paths /\ Has(parents, from) /\ IsDir(parents, Front(to))
  /\ \/ from = to
     \/ /\ ~IsStrictPrefix(from, to)
        /\ ~Has(parents, to) \/ Under(parents, to) = {to}
        /\ Has(parents, to) => (parents[from].dir <=> parents[to].dir)
RenameVisible(c, from, to) ==  \* mutant: copies what it sees, then removes the source
  LET parents == EnsureParents(c, to)
      moved == {q \in Under(parents, from) : Range(q) \cap Dotted = {}}
      stays == DOMAIN parents \ (Under(parents, from) \cup {to})
      arrives == {Rebase(q, from, to) : q \in moved}
  IN IF ~RenameOk(c, from, to) THEN parents
     ELSE [q \in stays \cup arrives |->
             IF q \in arrives THEN parents[Rebase(q, to, from)] ELSE parents[q]]
Rename(c, from, to) ==
  LET parents == EnsureParents(c, to)
      moved == Under(parents, from)
      stays == DOMAIN parents \ (moved \cup {to})
      arrives == {Rebase(q, from, to) : q \in moved}
  IN IF ~RenameOk(c, from, to) THEN parents
     ELSE [q \in stays \cup arrives |->
             IF q \in arrives THEN parents[Rebase(q, to, from)] ELSE parents[q]]
=============================================================================
