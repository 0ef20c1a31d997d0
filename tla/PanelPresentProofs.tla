------------------------- MODULE PanelPresentProofs -------------------------
(***************************************************************************)
(* Proofs about PanelPresent: type correctness, that no frame is shown or  *)
(* saved torn, and that no plane is shown over another frame's base, for   *)
(* any number of tasks that draw and any number of drawings.               *)
(***************************************************************************)
EXTENDS PanelPresent, TLAPS

-----------------------------------------------------------------------------
(* The inductive invariant.                                                *)

InPixels == {"writingBw", "writingGray"}

\* The planes of an image are of the frame of its base, or there are none.
Fits(i) == i.lsb \in {0, i.base} /\ i.msb \in {0, i.base}

\* Whoever is in the middle of a drawing has the render lock.
RenderLock == \A t \in Thread : at[t] # "idle" => drawer = t

\* The main thread does not draw while it presents.
MainPresents == show # "idle" => at[Main] \in {"idle", "present"}

\* pixelBufMutex is held by whoever is half way through the pixels.
PixelLock ==
  /\ \A t \in Thread : at[t] \in InPixels => mutex = t
  /\ show = "copying" => mutex = Main
  /\ \A t \in Thread : mutex = t => at[t] \in InPixels \/ (t = Main /\ show = "copying")

\* The pixels are whole unless somebody writes them, who goes on with the image
\* it began with.
PixelsWhole ==
  /\ (\A t \in Thread : at[t] \notin InPixels) => Whole(pixels)
  /\ \A t \in Thread : at[t] \in InPixels => pixels.top = Drawn(t)

\* The texture is whole unless it is being copied to, from whole pixels.
TextureWhole ==
  IF show = "copying" THEN texture.top = pixels.top ELSE Whole(texture)

\* Past its base, a drawing has nothing in the planes but its own frame.
PlanesOfThisDrawing ==
  \A t \in Thread :
    at[t] \notin {"idle", "refresh"} =>
      {gray.base, gray.lsb, gray.msb} \subseteq {0, fb}

AllFit ==
  \A i \in {pixels.top, pixels.bottom, texture.top, texture.bottom,
            window.top, window.bottom} : Fits(i)

IInv ==
  /\ TypeOK
  /\ RenderLock /\ MainPresents /\ PixelLock /\ PixelsWhole /\ TextureWhole
  /\ PlanesOfThisDrawing /\ AllFit /\ NeverTorn

-----------------------------------------------------------------------------
(* Type correctness.                                                       *)

LEMMA ImageTyping ==
  ASSUME TypeOK
  PROVE  /\ BwImage \in Image /\ GrayImage \in Image /\ Blank \in Image
         /\ \A t \in Thread : Drawn(t) \in Image
BY PanelAssumption DEF TypeOK, BwImage, GrayImage, Drawn, Blank, Image, Frames

LEMMA TypeStep == TypeOK /\ [Next]_vars => TypeOK'
<1> SUFFICES ASSUME TypeOK, [Next]_vars PROVE TypeOK'
  OBVIOUS
<1> USE DEF panel, buffer, screen, shots, Goto, Places
<1>0. /\ BwImage \in Image /\ Blank \in Image
      /\ \A t \in Thread : Drawn(t) \in Image
      /\ Halves(Blank) \in [top : Image, bottom : Image]
  BY ImageTyping DEF Halves
<1>m. Main \in Thread /\ NoThread \notin Thread
  BY PanelAssumption DEF Thread
<1>1. ASSUME Begin PROVE TypeOK'
  BY <1>1 DEF Begin, TypeOK
<1>2. ASSUME NEW t \in Thread, Draw(t) PROVE TypeOK'
  BY <1>2, PanelAssumption DEF Draw, TypeOK, Frames
<1>3. ASSUME NEW t \in Thread, Refresh(t) PROVE TypeOK'
  BY <1>0, <1>3 DEF Refresh, Snapshot, TypeOK
<1>4. ASSUME NEW t \in Thread, DisplayGrayscaleBase(t) PROVE TypeOK'
  BY <1>0, <1>4 DEF DisplayGrayscaleBase, Snapshot, TypeOK
<1>5. ASSUME NEW t \in Thread, CopyPlane(t) PROVE TypeOK'
  BY <1>5, PanelAssumption DEF CopyPlane, TypeOK, Image, Frames
<1>6. ASSUME NEW t \in Thread, WriteStrip(t) PROVE TypeOK'
  BY <1>6 DEF WriteStrip, TypeOK, Image
<1>7. ASSUME NEW t \in Thread, DisplayGray(t) PROVE TypeOK'
  BY <1>7 DEF DisplayGray, TypeOK
<1>8. ASSUME NEW t \in Thread, Cleanup(t) PROVE TypeOK'
  BY <1>0, <1>8 DEF Cleanup, Snapshot, TypeOK
<1>9. ASSUME NEW t \in Thread, WriteTop(t) PROVE TypeOK'
  BY <1>0, <1>9 DEF WriteTop, Writing, TypeOK
<1>10. ASSUME NEW t \in Thread, WriteBottom(t) PROVE TypeOK'
  BY <1>0, <1>10 DEF WriteBottom, TypeOK
<1>11. ASSUME NEW t \in Thread, EndDraw(t) PROVE TypeOK'
  BY <1>11 DEF EndDraw, TypeOK
<1>12. ASSUME RequestPresent PROVE TypeOK'
  BY <1>12 DEF RequestPresent, TypeOK
<1>13. ASSUME TakePending PROVE TypeOK'
  <2>1. show' \in {"idle", "copy"} /\ left' \in 0 .. MaxShots
    BY <1>13, PanelAssumption DEF TakePending
  <2>2. at' \in [Thread -> Places]
    BY <1>13, <1>m DEF TakePending, TypeOK
  <2> QED BY <1>13, <2>1, <2>2 DEF TakePending, TypeOK
<1>14. ASSUME CopyTop PROVE TypeOK'
  BY <1>14, <1>m DEF CopyTop, TypeOK
<1>15. ASSUME CopyBottom PROVE TypeOK'
  BY <1>15 DEF CopyBottom, TypeOK
<1>16. ASSUME CaptureDue PROVE TypeOK'
  BY <1>16, PanelAssumption DEF CaptureDue, SaveRenderer, SavePanel, TypeOK
<1>17. ASSUME Flip PROVE TypeOK'
  BY <1>0, <1>17, <1>m DEF Flip, TypeOK
<1>18. ASSUME UNCHANGED vars PROVE TypeOK'
  BY <1>18 DEF vars, TypeOK
<1> QED
  BY <1>1, <1>2, <1>3, <1>4, <1>5, <1>6, <1>7, <1>8, <1>9, <1>10, <1>11, <1>12,
     <1>13, <1>14, <1>15, <1>16, <1>17, <1>18 DEF Next, Drawing, Present

LEMMA TypeInit == Init => TypeOK
<1> SUFFICES ASSUME Init PROVE TypeOK
  OBVIOUS
<1>1. Blank \in Image /\ Halves(Blank) \in [top : Image, bottom : Image]
  BY PanelAssumption DEF Blank, Image, Frames, Halves
<1>2. fb \in Frames /\ left \in 0 .. MaxShots
  BY PanelAssumption DEF Init, Frames
<1> QED BY <1>1, <1>2 DEF Init, TypeOK, Places

\* TypeCorrect: whatever is drawn, presented and saved, every variable keeps its
\* type.
THEOREM TypeCorrect == Spec => []TypeOK
BY TypeInit, TypeStep, PTL DEF Spec

-----------------------------------------------------------------------------
(* The invariant is inductive.                                             *)

\* DrawnFits: what a drawing past its base turns into pixels fits.
LEMMA DrawnFits ==
  ASSUME IInv, NEW t \in Thread, at[t] \notin {"idle", "refresh"}
  PROVE  Fits(Drawn(t))
<1>1. {gray.base, gray.lsb, gray.msb} \subseteq {0, fb} /\ gray \in Image
  BY DEF IInv, PlanesOfThisDrawing, TypeOK
<1>2. Fits(GrayImage)
  BY <1>1 DEF Fits, GrayImage, Image
<1>3. Fits(BwImage)
  BY DEF Fits, BwImage
<1> QED BY <1>2, <1>3 DEF Drawn

LEMMA InvInit == Init => IInv
<1> SUFFICES ASSUME Init PROVE IInv
  OBVIOUS
<1>1. Main \in Thread /\ NoThread \notin Thread
  BY PanelAssumption DEF Thread
<1>2. Fits(Blank) /\ Whole(Halves(Blank))
  BY DEF Fits, Blank, Whole, Halves
<1>3. RenderLock /\ MainPresents /\ PixelLock /\ PlanesOfThisDrawing
  BY <1>1 DEF Init, RenderLock, MainPresents, PixelLock, PlanesOfThisDrawing, InPixels
<1>4. PixelsWhole /\ TextureWhole /\ NeverTorn /\ AllFit
  BY <1>1, <1>2 DEF Init, PixelsWhole, TextureWhole, NeverTorn, AllFit, InPixels, Halves
<1> QED BY <1>3, <1>4, TypeInit DEF IInv

\* Each step keeps the locks, and what the locks protect.
LEMMA InvStep == IInv /\ TypeOK' /\ [Next]_vars => IInv'
<1> SUFFICES ASSUME IInv, TypeOK', [Next]_vars PROVE IInv'
  OBVIOUS
<1> USE DEF panel, buffer, screen, shots, Goto, At, CanRun, InPixels, Places
<1> USE DEF TypeOK, IInv, RenderLock, MainPresents, PixelLock, PixelsWhole,
            TextureWhole, PlanesOfThisDrawing, AllFit, NeverTorn, Drawn, BwImage, GrayImage
<1>m. Main \in Thread /\ NoThread \notin Thread
  BY PanelAssumption DEF Thread
<1>1. ASSUME Begin PROVE IInv'
  BY <1>1 DEF Begin
<1>2. ASSUME NEW t \in Thread, Draw(t) PROVE IInv'
  BY <1>2, <1>m DEF Draw
<1>3. ASSUME NEW t \in Thread, Refresh(t) PROVE IInv'
  BY <1>3, <1>m DEF Refresh, Snapshot
<1>4. ASSUME NEW t \in Thread, DisplayGrayscaleBase(t) PROVE IInv'
  BY <1>4, <1>m DEF DisplayGrayscaleBase, Snapshot
<1>5. ASSUME NEW t \in Thread, CopyPlane(t) PROVE IInv'
  BY <1>5, <1>m DEF CopyPlane, Image
<1>6. ASSUME NEW t \in Thread, WriteStrip(t) PROVE IInv'
  BY <1>6, <1>m DEF WriteStrip, Image
<1>7. ASSUME NEW t \in Thread, DisplayGray(t) PROVE IInv'
  BY <1>7, <1>m DEF DisplayGray
<1>8. ASSUME NEW t \in Thread, Cleanup(t) PROVE IInv'
  BY <1>8, <1>m DEF Cleanup, Snapshot, Blank
<1>9. ASSUME NEW t \in Thread, WriteTop(t) PROVE IInv'
  <2>1. show # "copying"  \* the mutex is free
    BY <1>9, <1>m DEF WriteTop
  <2>2. PixelLock' /\ RenderLock' /\ MainPresents' /\ PlanesOfThisDrawing'
    BY <1>9, <1>m, <2>1 DEF WriteTop, Writing
  <2>3. PixelsWhole' /\ TextureWhole' /\ NeverTorn'
    BY <1>9, <1>m, <2>1 DEF WriteTop, Writing
  <2>4. AllFit'
    BY <1>9, DrawnFits DEF WriteTop
  <2> QED BY <2>2, <2>3, <2>4
<1>10. ASSUME NEW t \in Thread, WriteBottom(t) PROVE IInv'
  <2>1. show # "copying" /\ \A u \in Thread : at[u] \in InPixels => u = t
    BY <1>10, <1>m DEF WriteBottom
  <2>2. PixelLock' /\ RenderLock' /\ MainPresents' /\ PlanesOfThisDrawing'
    BY <1>10, <1>m, <2>1 DEF WriteBottom
  <2>3. PixelsWhole' /\ TextureWhole' /\ NeverTorn'
    BY <1>10, <2>1 DEF WriteBottom, Whole
  <2>4. AllFit'
    BY <1>10, DrawnFits DEF WriteBottom
  <2> QED BY <2>2, <2>3, <2>4
<1>11. ASSUME NEW t \in Thread, EndDraw(t) PROVE IInv'
  BY <1>11, <1>m DEF EndDraw
<1>12. ASSUME RequestPresent PROVE IInv'
  BY <1>12 DEF RequestPresent
<1>13. ASSUME TakePending PROVE IInv'
  BY <1>13, <1>m DEF TakePending
<1>14. ASSUME CopyTop PROVE IInv'
  BY <1>14, <1>m DEF CopyTop
<1>15. ASSUME CopyBottom PROVE IInv'
  <2>1. Whole(pixels)  \* the main thread has the mutex: nobody is writing
    BY <1>15, <1>m DEF CopyBottom
  <2> QED BY <1>15, <1>m, <2>1 DEF CopyBottom, Whole
<1>16. ASSUME CaptureDue PROVE IInv'
  <2>1. Whole(shot')  \* of the texture, or of the pixels under the mutex
    BY <1>16, <1>m DEF CaptureDue, SaveRenderer, SavePanel
  <2> QED BY <1>16, <2>1 DEF CaptureDue
<1>17. ASSUME Flip PROVE IInv'
  BY <1>17, <1>m DEF Flip, Halves, Whole
<1>18. ASSUME UNCHANGED vars PROVE IInv'
  BY <1>18 DEF vars
<1> QED
  BY <1>1, <1>2, <1>3, <1>4, <1>5, <1>6, <1>7, <1>8, <1>9, <1>10, <1>11, <1>12,
     <1>13, <1>14, <1>15, <1>16, <1>17, <1>18 DEF Next, Drawing, Present

LEMMA Inductive == Spec => []IInv
BY InvInit, InvStep, TypeCorrect, PTL DEF Spec

-----------------------------------------------------------------------------
(* What follows from it.                                                   *)

\* ShownWhole: neither the window nor a screenshot mixes two frames, however
\* drawing and presenting overlap.
THEOREM ShownWhole == Spec => []NeverTorn
<1>1. IInv => NeverTorn
  BY DEF IInv
<1> QED BY <1>1, Inductive, PTL

\* ShownPlanesFit: the planes of a grayscale picture are shown over the base of
\* their own frame only.
THEOREM ShownPlanesFit == Spec => []PlanesMatchBase
<1>1. IInv => PlanesMatchBase
  BY DEF IInv, AllFit, Fits, PlanesMatchBase
<1> QED BY <1>1, Inductive, PTL

\* PixelsGuarded: pixelBufMutex does what it is for.  No two threads are in the
\* pixels at once, and the main thread copies them only while nobody writes.
THEOREM PixelsGuarded ==
  Spec => []( /\ \A t, u \in Thread : {at[t], at[u]} \subseteq InPixels => t = u
              /\ show = "copying" => \A t \in Thread : at[t] \notin InPixels)
<1>1. IInv => /\ \A t, u \in Thread : {at[t], at[u]} \subseteq InPixels => t = u
              /\ show = "copying" => \A t \in Thread : at[t] \notin InPixels
  BY PanelAssumption DEF IInv, PixelLock, MainPresents, Thread, InPixels
<1> QED BY <1>1, Inductive, PTL

=============================================================================
