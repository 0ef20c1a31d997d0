---------------------------- MODULE LibraryFolder ----------------------------
(***************************************************************************)
(* The card on iOS: the app's Documents or a folder that the user picked   *)
(* (ios/sim_ios_platform.m), the folder on it in which the firmware keeps  *)
(* its state (SdSystemDir.cpp), and the window and keys that the picker    *)
(* is reached by (NativeControls.swift).  The firmware, UIKit and the      *)
(* picker run on the main thread; the app may be ended at any moment.      *)
(***************************************************************************)
EXTENDS Naturals, Sequences, FiniteSets

CONSTANTS
  Folders,      \* the folders that can be picked
  Documents,    \* the app's own directory
  Scenes,       \* the scenes that the system connects
  None,
  MaxLaunches,  \* bound on the times the app is started
  MaxPicks,     \* bound on the answers of the picker
  MaxBlocks     \* bound on the blocks that wait when a scene connects

ASSUME CardsAssumption == Documents \notin Folders /\ None \notin Folders \cup {Documents} \cup Scenes

Cards == Folders \cup {Documents}
Spellings == {"hidden", "visible"}  \* /.system and /system

VARIABLES
  card,      \* by spelling: which exist on a card, hold the firmware's state, hold the user's file
  attached,  \* the cards that can be reached
  bookmark,  \* kept in the app's defaults
  app,       \* the process: the root, the folder whose scope is open, the scopes, g_resolved
  ui,        \* the process: the scene, the window, the main queue, the pickers, the keys
  history    \* what was chosen to last, where g_resolved is from, where state went astray

vars == <<card, attached, bookmark, app, ui, history>>

Stopped ==
  [running |-> FALSE, root |-> None, scoped |-> None, scopes |-> [c \in Cards |-> 0], resolved |-> None]
NoUi ==
  [scene |-> None, window |-> FALSE, windowScene |-> None, blocks |-> <<>>, pickers |-> 0,
   controls |-> FALSE]

TypeOK ==
  /\ card \in [Cards -> [dirs : SUBSET Spellings, state : SUBSET Spellings, file : SUBSET Spellings]]
  /\ attached \in SUBSET Cards /\ Documents \in attached
  /\ bookmark \in Cards \cup {None}
  /\ app \in [running : BOOLEAN, root : Cards \cup {None}, scoped : Cards \cup {None},
              scopes : [Cards -> Nat], resolved : Spellings \cup {None}]
  /\ ui \in [scene : Scenes \cup {None}, window : BOOLEAN, windowScene : Scenes \cup {None},
             blocks : Seq({"install", "pick"}), pickers : Nat, controls : BOOLEAN]
  /\ history \in [chosen : Cards \cup {None}, resolvedOn : Cards \cup {None}, strayed : SUBSET Cards,
                  launches : Nat, picks : Nat]

Init ==
  /\ card \in [Cards -> [dirs : SUBSET Spellings, state : {{}}, file : SUBSET Spellings]]
  /\ \A c \in Cards : card[c].file \subseteq card[c].dirs
  /\ card[Documents].dirs = {}
  /\ attached = Cards /\ bookmark = None
  /\ app = Stopped /\ ui = NoUi
  /\ history = [chosen |-> None, resolvedOn |-> None, strayed |-> {}, launches |-> 0, picks |-> 0]

-----------------------------------------------------------------------------
(***************************************************************************)
(* The process and the world around it.                                    *)
(***************************************************************************)
Launch ==
  /\ ~app.running /\ history.launches < MaxLaunches
  /\ app' = [Stopped EXCEPT !.running = TRUE] /\ ui' = NoUi
  /\ history' = [history EXCEPT !.launches = @ + 1, !.resolvedOn = None]
  /\ UNCHANGED <<card, attached, bookmark>>

Killed ==  \* by the system, the user or a crash: scopes and everything in memory go with it
  /\ app.running
  /\ app' = Stopped /\ ui' = NoUi
  /\ UNCHANGED <<card, attached, bookmark, history>>

Detach(f) ==  \* deleted, or on a drive that is unplugged
  /\ f \in attached /\ attached' = attached \ {f}
  /\ UNCHANGED <<card, bookmark, app, ui, history>>
Reattach(f) ==
  /\ f \notin attached /\ attached' = attached \cup {f}
  /\ UNCHANGED <<card, bookmark, app, ui, history>>

UserPutsFile(c) ==  \* into /system, as the screen says
  /\ c \in attached
  /\ card' = [card EXCEPT ![c].dirs = @ \cup {"visible"}, ![c].file = {"visible"}]
  /\ UNCHANGED <<attached, bookmark, app, ui, history>>

-----------------------------------------------------------------------------
(***************************************************************************)
(* simPlatformDocumentsPath(), at each resolution of a path: the root is   *)
(* looked for once.  A stale bookmark is written anew and points to the    *)
(* same folder; one that does not resolve, or may not be read, is dropped. *)
(***************************************************************************)
ResolveStoredBookmark == IF bookmark \in attached THEN bookmark ELSE None

DocumentsPath ==
  IF app.root # None THEN [app |-> app, bookmark |-> bookmark]
  ELSE IF ResolveStoredBookmark # None
  THEN [app |-> [app EXCEPT !.root = bookmark, !.scoped = bookmark, !.scopes[bookmark] = @ + 1],
        bookmark |-> bookmark]
  ELSE [app |-> [app EXCEPT !.root = Documents], bookmark |-> None]

StillChosen ==  \* for ChoiceSurvives: a choice that a process did not find is over
  IF app.root = None /\ history.chosen \notin attached THEN None ELSE history.chosen

(***************************************************************************)
(* dir(): looked for once in a process.  It settles on the dotted spelling *)
(* where neither exists, whether or not that could be made.                *)
(***************************************************************************)
PreferredVisible(dirs) ==  \* mutant: the wrong one is asked for first
  IF "visible" \in dirs THEN "visible" ELSE "hidden"
Preferred(dirs) ==
  IF "hidden" \in dirs THEN "hidden" ELSE IF "visible" \in dirs THEN "visible" ELSE "hidden"

DirsSeen(c) == IF c \in attached THEN card[c].dirs ELSE {}
Dir(a) == IF a.resolved # None THEN a.resolved ELSE Preferred(DirsSeen(a.root))

Touched(a, before) ==  \* what dir() leaves on the card
  IF a.resolved = None /\ DirsSeen(a.root) = {} /\ a.root \in attached
  THEN [before EXCEPT ![a.root].dirs = {"hidden"}] ELSE before

(***************************************************************************)
(* The firmware reads its state, or writes it: the file is made with its   *)
(* directories, if the card is there.                                      *)
(***************************************************************************)
UseState(writes) ==
  LET path == DocumentsPath
      a == path.app
      s == Dir(a)
      from == IF app.resolved # None THEN history.resolvedOn
              ELSE IF a.root \in attached THEN a.root ELSE None
      written == writes /\ a.root \in attached
  IN /\ app.running
     /\ app' = [a EXCEPT !.resolved = s]
     /\ bookmark' = path.bookmark
     /\ card' = IF written
                THEN [card EXCEPT ![a.root].dirs = @ \cup {s}, ![a.root].state = @ \cup {s}]
                ELSE Touched(a, card)
     /\ history' = [history EXCEPT !.chosen = StillChosen, !.resolvedOn = from,
                      !.strayed = @ \cup IF written /\ from # a.root THEN {a.root} ELSE {}]
     /\ UNCHANGED <<attached, ui>>

OtherSpelling(s) == IF s = "hidden" THEN "visible" ELSE "hidden"
FindIn(first, fallback, file) ==
  IF first \in file THEN first
  ELSE IF OtherSpelling(first) \in file THEN OtherSpelling(first) ELSE fallback
FindUserFile(s, file) == FindIn(s, s, file)
FindExistingUserFile(resolved, file) ==
  FindIn(IF resolved # None THEN resolved ELSE "hidden", None, file)

LookForFile ==  \* findExistingUserFile(), and every other use of the card
  /\ app.running
  /\ app' = DocumentsPath.app /\ bookmark' = DocumentsPath.bookmark
  /\ history' = [history EXCEPT !.chosen = StillChosen]
  /\ UNCHANGED <<card, attached, ui>>

-----------------------------------------------------------------------------
(***************************************************************************)
(* The window, its scene and the keys.  Whichever of the scene and the     *)
(* window comes second brings them together; the keys are put in by a      *)
(* block on the main queue, if there is a key window then and no keys yet. *)
(***************************************************************************)
AttachedSilently(u) ==  \* mutant: the keys are not asked for again
  IF u.scene = None \/ ~u.window THEN u ELSE [u EXCEPT !.windowScene = u.scene]
Attached(u) ==
  IF u.scene = None \/ ~u.window \/ u.windowScene = u.scene THEN u
  ELSE [u EXCEPT !.windowScene = u.scene, !.blocks = Append(@, "install")]

SceneConnects(s) ==
  /\ app.running /\ ui.scene # s /\ Len(ui.blocks) < MaxBlocks
  /\ ui' = Attached([ui EXCEPT !.scene = s])
  /\ UNCHANGED <<card, attached, bookmark, app, history>>

CreateWindow ==  \* HalDisplay::begin: attaches the window, then asks for the keys
  /\ app.running /\ ~ui.window
  /\ LET u == Attached([ui EXCEPT !.window = TRUE])
     IN ui' = [u EXCEPT !.blocks = Append(@, "install")]
  /\ UNCHANGED <<card, attached, bookmark, app, history>>

PressFolderKey ==
  /\ app.running /\ ui.controls /\ ui.blocks = <<>> /\ ui.pickers = 0 /\ history.picks < MaxPicks
  /\ ui' = [ui EXCEPT !.blocks = Append(@, "pick")]
  /\ UNCHANGED <<card, attached, bookmark, app, history>>

InstallOnce(u) == IF ~u.controls /\ u.windowScene # None THEN [u EXCEPT !.controls = TRUE] ELSE u
PresentPicker(u) == IF u.windowScene # None THEN [u EXCEPT !.pickers = @ + 1] ELSE u

RunBlock ==  \* the main queue, between two of SDL's polls
  /\ app.running /\ ui.blocks # <<>> /\ ui.window
  /\ LET u == [ui EXCEPT !.blocks = Tail(@)]
     IN ui' = IF Head(ui.blocks) = "install" THEN InstallOnce(u) ELSE PresentPicker(u)
  /\ UNCHANGED <<card, attached, bookmark, app, history>>

CancelPicker ==
  /\ app.running /\ ui.pickers > 0
  /\ ui' = [ui EXCEPT !.pickers = @ - 1]
  /\ UNCHANGED <<card, attached, bookmark, app, history>>

(***************************************************************************)
(* didPickDocuments: a bookmark may not be had; the folder is used anyway. *)
(***************************************************************************)
DidPickFolder(f, bookmarked) ==
  /\ app.running /\ ui.pickers > 0 /\ history.picks < MaxPicks
  /\ ui' = [ui EXCEPT !.pickers = @ - 1]
  /\ IF f \notin attached THEN
       history' = [history EXCEPT !.picks = @ + 1] /\ UNCHANGED <<app, bookmark>>
     ELSE
       /\ bookmark' = IF bookmarked THEN f ELSE bookmark
       /\ app' = [app EXCEPT !.root = f, !.scoped = f,
                    !.scopes = [c \in Cards |->
                      @[c] + (IF c = f THEN 1 ELSE 0)
                           - (IF c = app.scoped /\ c # f THEN 1 ELSE 0)]]
       /\ history' = [history EXCEPT !.picks = @ + 1, !.chosen = IF bookmarked THEN f ELSE None]
  /\ UNCHANGED <<card, attached>>

-----------------------------------------------------------------------------
Next ==
  \/ Launch
  \/ Killed
  \/ \E f \in Folders : Detach(f)
  \/ \E f \in Folders : Reattach(f)
  \/ \E c \in Cards : UserPutsFile(c)
  \/ \E writes \in BOOLEAN : UseState(writes)
  \/ LookForFile
  \/ \E s \in Scenes : SceneConnects(s)
  \/ CreateWindow
  \/ PressFolderKey
  \/ RunBlock
  \/ CancelPicker
  \/ \E f \in Cards, bookmarked \in BOOLEAN : DidPickFolder(f, bookmarked)

Fairness == WF_vars(RunBlock)
Spec == Init /\ [][Next]_vars /\ Fairness

-----------------------------------------------------------------------------
(***************************************************************************)
(* The scope that is open is the root's, but for Documents, which needs    *)
(* none (sim_ios_platform.m:27-29, 141-145).                               *)
(***************************************************************************)
ScopeFollowsRoot ==
  /\ \A c \in Cards : app.scopes[c] > 0 => c = app.root
  /\ app.root \in Folders => app.scopes[app.root] > 0

(***************************************************************************)
(* The folder that was picked to last is the card, across every relaunch   *)
(* that found it (README.md:216-220).                                      *)
(***************************************************************************)
ChoiceSurvives == app.root # None /\ history.chosen # None => app.root = history.chosen

(***************************************************************************)
(* On a card that the firmware's folder was looked for on, its state stays *)
(* in one folder, the one that the next process will find, though the user *)
(* may add the other (SdSystemDir.cpp:17-33).  A card that was picked, or  *)
(* came back, after the folder was looked for elsewhere is left out: there *)
(* the state is put under the other card's spelling.                       *)
(***************************************************************************)
StateStaysTogether ==
  \A c \in Cards \ history.strayed :
    card[c].state \subseteq {Preferred(card[c].dirs)}

(***************************************************************************)
(* The user's file is found on every card, under either spelling, whatever *)
(* g_resolved says (SdSystemDir.cpp:43-66).                                *)
(***************************************************************************)
UserFileFound ==
  app.root \in attached =>
    LET file == card[app.root].file
    IN /\ FindUserFile(Dir(app), file) \in file <=> file # {}
       /\ FindExistingUserFile(app.resolved, file) \in file <=> file # {}

(***************************************************************************)
(* The card keeps: its scope, its choice, its state and its user's file.   *)
(***************************************************************************)
CardKept == ScopeFollowsRoot /\ ChoiceSurvives /\ StateStaysTogether /\ UserFileFound

(***************************************************************************)
(* Once the window and a scene are there the keys appear, in whichever     *)
(* order they came (sim_ios_platform.m:195-209), or the app ends.          *)
(***************************************************************************)
KeysAppear == ui.window /\ ui.scene # None ~> ui.controls \/ ~app.running
=============================================================================
