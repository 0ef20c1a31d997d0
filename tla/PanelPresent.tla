---------------------------- MODULE PanelPresent ----------------------------
(***************************************************************************)
(* The path of a drawn frame to the window (src/HalDisplay.cpp).           *)
(*                                                                         *)
(* Firmware tasks convert the frame buffer to pixels under pixelBufMutex   *)
(* and raise pendingPresent.  Only the main thread may call SDL, so it     *)
(* takes the flag once per frame, copies the pixels to the texture under   *)
(* the same mutex, and shows the texture.  A grayscale picture is a B/W    *)
(* base and two planes laid over it, kept outside the mutex.               *)
(*                                                                         *)
(* A frame is a number, growing with every drawing; an image is the frames *)
(* its base and its planes were drawn in.  Pixels are written and copied   *)
(* in two halves, so that a copy can be seen to be torn.                   *)
(*                                                                         *)
(* CROSSPOINT_SIM_SCREENSHOTS asks for pictures at given times: of the     *)
(* window, read back from the renderer before the key strip is drawn, or   *)
(* of the panel's pixels.                                                  *)
(***************************************************************************)
EXTENDS Naturals

CONSTANTS
  Render,   \* the firmware's tasks that draw
  Main,     \* the main thread, which may draw as well
  NoThread, \* nobody
  Combined, \* combinesGrayscaleBase(): the base is shown with its planes only
  MaxFrame, \* bound: drawings
  MaxShots  \* bound: screenshots due at one present

ASSUME PanelAssumption ==
  /\ Main \notin Render
  /\ NoThread \notin Render \cup {Main}
  /\ Combined \in BOOLEAN
  /\ MaxFrame \in Nat /\ MaxShots \in Nat

Thread == Render \cup {Main}

VARIABLES
  drawer,  \* the firmware's render lock: at most one task draws at a time
  fb,      \* frameBufferStorage: the frame last drawn
  gray,    \* grayscalePreviewState; 0 stands for an invalid base or plane
  mutex,   \* pixelBufMutex
  pixels,  \* pixelBuf, in two halves
  pending, \* pendingPresent
  at,      \* where each thread is in the drawing calls
  show,    \* where the main thread is in presentIfNeeded()
  texture, \* the SDL texture, in two halves
  window,  \* what SDL_RenderPresent() showed last
  opened,  \* texture and sdl_renderer: "no", "open", or "failed" in begin()
  left,    \* how many due screenshots are still to be saved
  shot     \* the last screenshot that the present under way has saved

shots == <<left, shot>>
panel == <<drawer, fb, gray>>
buffer == <<mutex, pixels, pending>>
screen == <<show, texture, window, opened, shots>>
vars == <<panel, buffer, at, screen>>

-----------------------------------------------------------------------------

Frames == 0 .. MaxFrame

Image == [base : Frames, lsb : Frames, msb : Frames]

BwImage == [base |-> fb, lsb |-> 0, msb |-> 0]

\* composeGrayscalePreview(): without a valid base, the frame buffer is it.
GrayImage == [gray EXCEPT !.base = IF @ = 0 THEN fb ELSE @]

Halves(i) == [top |-> i, bottom |-> i]

Whole(h) == h.top = h.bottom

Blank == [base |-> 0, lsb |-> 0, msb |-> 0]

Init ==
  /\ drawer = NoThread /\ fb = 0 /\ gray = Blank
  /\ mutex = NoThread /\ pixels = Halves(Blank) /\ pending = FALSE
  /\ at = [t \in Thread |-> "idle"]
  /\ show = "idle" /\ texture = Halves(Blank) /\ window = Halves(Blank) /\ opened = "no"
  /\ left = 0 /\ shot = Halves(Blank)

\* The main thread draws inside loop(), never in the middle of a present.
CanRun(t) == t = Main => show = "idle"

Goto(t, place) == at' = [at EXCEPT ![t] = place]

At(t, place) == at[t] = place /\ CanRun(t)

-----------------------------------------------------------------------------
(* begin(), in setup(), before anything is drawn.                          *)

Begin ==
  /\ opened = "no"
  /\ opened' \in {"open", "failed"}
  /\ UNCHANGED <<panel, buffer, at, show, texture, window, shots>>

-----------------------------------------------------------------------------
(* Drawing.                                                                *)

\* The firmware takes its render lock and draws into the frame buffer.
Draw(t) ==
  /\ At(t, "idle") /\ opened # "no"
  /\ drawer = NoThread /\ fb < MaxFrame
  /\ drawer' = t /\ fb' = fb + 1
  /\ Goto(t, "refresh")
  /\ UNCHANGED <<gray, buffer, screen>>

\* Variant: the planes of the frame before are left over the new base.
SnapshotKeepingPlanes == gray' = [gray EXCEPT !.base = fb]

\* snapshotBwBase(): the new base has no planes yet.
Snapshot == gray' = BwImage

\* refreshDisplay() as far as the mutex, also from displayGrayscaleBase() on a
\* panel that shows the base by itself.
Refresh(t) ==
  /\ At(t, "refresh")
  /\ Snapshot
  /\ Goto(t, "writeBw")
  /\ UNCHANGED <<drawer, fb, buffer, screen>>

\* displayGrayscaleBase() on a panel that combines the base with its planes.
DisplayGrayscaleBase(t) ==
  /\ At(t, "refresh") /\ Combined
  /\ Snapshot
  /\ Goto(t, "drawn")
  /\ UNCHANGED <<drawer, fb, buffer, screen>>

\* copyGrayscaleBuffers() and its halves: a plane of this picture, or none.
CopyPlane(t) ==
  /\ At(t, "drawn")
  /\ \E f \in {0, fb} :
       gray' \in {[gray EXCEPT !.lsb = f], [gray EXCEPT !.msb = f]}
  /\ UNCHANGED <<drawer, fb, buffer, at, screen>>

\* writeGrayscalePlaneStrip(): some rows of a plane; the others keep what they
\* had, and are empty since the last base.
WriteStrip(t) ==
  /\ At(t, "drawn")
  /\ gray' \in {[gray EXCEPT !.lsb = fb], [gray EXCEPT !.msb = fb]}
  /\ UNCHANGED <<drawer, fb, buffer, at, screen>>

\* displayGrayBuffer()
DisplayGray(t) ==
  /\ At(t, "drawn")
  /\ Goto(t, "writeGray")
  /\ UNCHANGED <<panel, buffer, screen>>

\* cleanupGrayscaleBuffers(), with the B/W frame or without.
Cleanup(t) ==
  /\ At(t, "drawn")
  /\ Snapshot \/ gray' = Blank
  /\ UNCHANGED <<drawer, fb, buffer, at, screen>>

Drawn(t) == IF at[t] \in {"writeBw", "writingBw"} THEN BwImage ELSE GrayImage
Writing(t) == Goto(t, IF at[t] = "writeBw" THEN "writingBw" ELSE "writingGray")

\* Variant: the pixels are written without the mutex.
WriteTopUnlocked(t) ==
  /\ at[t] \in {"writeBw", "writeGray"} /\ CanRun(t)
  /\ pixels' = [pixels EXCEPT !.top = Drawn(t)]
  /\ Writing(t)
  /\ UNCHANGED <<panel, mutex, pending, screen>>

\* renderBwPixels() and composeGrayscalePreview()
WriteTop(t) ==
  /\ at[t] \in {"writeBw", "writeGray"} /\ CanRun(t)
  /\ mutex = NoThread
  /\ mutex' = t
  /\ pixels' = [pixels EXCEPT !.top = Drawn(t)]
  /\ Writing(t)
  /\ UNCHANGED <<panel, pending, screen>>

\* Variant: the pixels are written and nobody is told.
WriteBottomQuietly(t) ==
  /\ at[t] \in {"writingBw", "writingGray"}
  /\ pixels' = [pixels EXCEPT !.bottom = Drawn(t)]
  /\ mutex' = NoThread
  /\ Goto(t, "drawn")
  /\ UNCHANGED <<panel, pending, screen>>

\* displayBuffer() goes on to present when the main thread called it.
WriteBottom(t) ==
  /\ at[t] \in {"writingBw", "writingGray"}
  /\ pixels' = [pixels EXCEPT !.bottom = Drawn(t)]
  /\ pending' = TRUE
  /\ mutex' = NoThread
  /\ \/ Goto(t, "drawn")
     \/ t = Main /\ at[t] = "writingBw" /\ Goto(t, "present")
  /\ UNCHANGED <<panel, screen>>

EndDraw(t) ==
  /\ At(t, "drawn")
  /\ drawer' = NoThread
  /\ Goto(t, "idle")
  /\ UNCHANGED <<fb, gray, buffer, screen>>

\* requestPresent(): the frontlight or the on-screen keys changed.
RequestPresent ==
  /\ opened # "no"
  /\ pending' = TRUE
  /\ UNCHANGED <<panel, mutex, pixels, at, screen>>

-----------------------------------------------------------------------------
(* presentIfNeeded(), on the main thread, from the loop, from              *)
(* displayBuffer() and from deepSleep().                                   *)

\* The flag is taken before the copy, and also when there is no window.
TakePending ==
  /\ show = "idle" /\ at[Main] \in {"idle", "present"} /\ opened # "no"
  /\ pending' = FALSE
  /\ \E hasDue \in BOOLEAN :
       /\ show' = IF opened = "open" /\ (pending \/ hasDue) THEN "copy" ELSE "idle"
       /\ left' \in IF show' = "copy" /\ hasDue THEN 1 .. MaxShots ELSE {0}
  /\ at' = [at EXCEPT ![Main] = IF show' = "idle" /\ @ = "present" THEN "drawn"
                                ELSE @]
  /\ UNCHANGED <<panel, mutex, pixels, texture, window, opened, shot>>

CopyTop ==
  /\ show = "copy"
  /\ mutex = NoThread
  /\ mutex' = Main
  /\ texture' = [texture EXCEPT !.top = pixels.top]
  /\ show' = "copying"
  /\ UNCHANGED <<panel, pixels, pending, at, window, opened, shots>>

CopyBottom ==
  /\ show = "copying"
  /\ texture' = [texture EXCEPT !.bottom = pixels.bottom]
  /\ mutex' = NoThread
  /\ show' = "flip"
  /\ UNCHANGED <<panel, pixels, pending, at, window, opened, shots>>

\* saveRendererBmp(): what has been drawn for the window.
SaveRenderer == shot' = texture

\* savePanelBmp(): the pixels as they are now, which may be newer.
SavePanel == mutex = NoThread /\ shot' = pixels

\* captureDueScreenshots()
CaptureDue ==
  /\ show = "flip" /\ left > 0
  /\ SaveRenderer \/ SavePanel
  /\ left' = left - 1
  /\ UNCHANGED <<panel, buffer, at, show, texture, window, opened>>

\* SDL_RenderPresent()
Flip ==
  /\ show = "flip" /\ left = 0
  /\ window' = texture
  /\ show' = "idle" /\ shot' = Halves(Blank)
  /\ at' = [at EXCEPT ![Main] = IF @ = "present" THEN "drawn" ELSE @]
  /\ UNCHANGED <<panel, buffer, texture, opened, left>>

-----------------------------------------------------------------------------

Drawing(t) ==
  \/ Draw(t) \/ Refresh(t) \/ DisplayGrayscaleBase(t) \/ CopyPlane(t) \/ WriteStrip(t)
  \/ DisplayGray(t) \/ Cleanup(t)
  \/ WriteTop(t) \/ WriteBottom(t) \/ EndDraw(t)

Present == TakePending \/ CopyTop \/ CopyBottom \/ CaptureDue \/ Flip

Next ==
  \/ Begin \/ (\E t \in Thread : Drawing(t)) \/ RequestPresent \/ Present

Spec == Init /\ [][Next]_vars

\* A task that has begun writing pixels finishes; the main loop keeps coming
\* round to presentIfNeeded(), and gets the mutex it waits for.
Fairness ==
  /\ \A t \in Thread : WF_vars(WriteBottom(t))
  /\ SF_vars(pending /\ TakePending)
  /\ SF_vars(CopyTop)
  /\ WF_vars(CopyBottom)
  /\ WF_vars(CaptureDue)
  /\ WF_vars(Flip)

FairSpec == Spec /\ Fairness

-----------------------------------------------------------------------------
(* Properties.                                                             *)

Places == {"idle", "refresh", "writeBw", "writingBw", "writeGray",
           "writingGray", "drawn", "present"}

TypeOK ==
  /\ drawer \in Thread \cup {NoThread}
  /\ fb \in Frames /\ gray \in Image
  /\ mutex \in Thread \cup {NoThread}
  /\ {pixels, texture, window, shot} \subseteq [top : Image, bottom : Image]
  /\ pending \in BOOLEAN
  /\ at \in [Thread -> Places]
  /\ show \in {"idle", "copy", "copying", "flip"}
  /\ opened \in {"no", "open", "failed"}
  /\ left \in 0 .. MaxShots

\* Neither the window nor a screenshot ever mixes two frames, however drawing
\* and presenting overlap.
NeverTorn == Whole(window) /\ Whole(shot)

\* A grayscale picture shown is laid over the frame it was drawn for: no plane
\* of an earlier frame is left in it.
PlanesMatchBase ==
  /\ window.top.lsb \in {0, window.top.base}
  /\ window.top.msb \in {0, window.top.base}

\* The last frame drawn is shown in the end, unless another one follows or
\* there is no window.
LastFrameShown ==
  (opened = "open" /\ drawer = NoThread /\ window # pixels)
     ~> (window = pixels \/ drawer # NoThread)

=============================================================================
