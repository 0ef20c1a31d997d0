--------------------------- MODULE ScreenGeometry ---------------------------
(***************************************************************************)
(* Where a pixel of the panel is shown and which pixel a touch there is:   *)
(* HalDisplay::presentIfNeeded and drawImage, the mapping of touches in    *)
(* HalGPIO.cpp, and the layout of SimulatorOnScreenControls.cpp.           *)
(*                                                                         *)
(* The panel is Width by Height, landscape.  Pixels are whole numbers from *)
(* 0; the rotation works on their centres, in half pixels.  A coordinate   *)
(* between 0.0 and 1.0 is held as its numerator over the extent less one.  *)
(***************************************************************************)
EXTENDS Integers, Sequences, FiniteSets

CONSTANTS
  Width, Height,  \* DISPLAY_WIDTH and DISPLAY_HEIGHT
  KeyArea         \* KEY_AREA_HEIGHT

ASSUME PanelAssumption ==
  /\ Width \in Nat /\ Height \in Nat /\ Width % 8 = 0 /\ Height % 2 = 0
  /\ Height > 0 /\ Height < Width /\ KeyArea \in Nat

Orientations == {"Portrait", "PortraitInverted", "LandscapeClockwise", "LandscapeCounterClockwise"}
IsPortrait(o) == o \in {"Portrait", "PortraitInverted"}

Pixel(x, y) == [x |-> x, y |-> y]
Minimum(a, b) == IF a < b THEN a ELSE b
Clamp(n, most) == IF n < 0 THEN 0 ELSE Minimum(n, most)

(***************************************************************************)
(* The screen the firmware draws for, and the window: the strip is below.  *)
(***************************************************************************)
ScreenWidth(o) == IF IsPortrait(o) THEN Height ELSE Width
ScreenHeight(o) == IF IsPortrait(o) THEN Width ELSE Height
LogicalWindowSize(o, strip) == [w |-> ScreenWidth(o), h |-> ScreenHeight(o) + strip]

(***************************************************************************)
(* applyWindowGeometryIfNeeded: only a size that differs is applied.       *)
(***************************************************************************)
WindowAfterPresent(window, o, strip) ==
  LET size == LogicalWindowSize(o, strip) IN IF window = size THEN window ELSE size

-----------------------------------------------------------------------------
(***************************************************************************)
(* presentIfNeeded: the texture is copied to dst and turned about dst's    *)
(* centre, clockwise, y growing downwards.                                 *)
(***************************************************************************)
Dst(o) ==
  IF IsPortrait(o)
  THEN [x |-> (Height - Width) \div 2, y |-> Width \div 2 - Height \div 2]
  ELSE [x |-> 0, y |-> 0]
Turn(o, dx, dy) ==
  CASE o = "Portrait" -> Pixel(-dy, dx)
    [] o = "PortraitInverted" -> Pixel(dy, -dx)
    [] o = "LandscapeClockwise" -> Pixel(-dx, -dy)
    [] OTHER -> Pixel(dx, dy)
ShownAt(o, px, py) ==
  LET cx == 2 * Dst(o).x + Width
      cy == 2 * Dst(o).y + Height
      turned == Turn(o, 2 * (Dst(o).x + px) + 1 - cx, 2 * (Dst(o).y + py) + 1 - cy)
  IN Pixel((cx + turned.x - 1) \div 2, (cy + turned.y - 1) \div 2)

(***************************************************************************)
(* fingerToLogicalNormalized: a touch at a pixel of the window.  The rows  *)
(* of the strip are outside, and what is outside is on the edge; no caller *)
(* asks for it to be inside.  The result is the numerators.                *)
(***************************************************************************)
Inside(o, x, y) == x \in 0 .. ScreenWidth(o) - 1 /\ y \in 0 .. ScreenHeight(o) - 1
FingerToLogical(o, x, y, requireInside) ==
  [ok |-> Inside(o, x, y) \/ ~requireInside,
   at |-> Pixel(Clamp(x, ScreenWidth(o) - 1), Clamp(y, ScreenHeight(o) - 1))]

(***************************************************************************)
(* logicalToPanelNormalized.  The product of a normalized coordinate with  *)
(* the extent less one may come out just below the pixel it was made from, *)
(* and is truncated: down is 1 then, else 0.                               *)
(***************************************************************************)
Truncated(n, down) == IF n = 0 THEN 0 ELSE n - down
LogicalToPanelSwapped(o, at, down) ==  \* mutant: the two portraits are one
  LET lx == Truncated(at.x, down.x)
      ly == Truncated(at.y, down.y)
  IN IF IsPortrait(o) THEN Pixel(ly, Height - 1 - lx)
     ELSE IF o = "LandscapeClockwise" THEN Pixel(Width - 1 - lx, Height - 1 - ly) ELSE Pixel(lx, ly)
LogicalToPanel(o, at, down) ==
  LET lx == Truncated(at.x, down.x)
      ly == Truncated(at.y, down.y)
  IN CASE o = "Portrait" -> Pixel(ly, Height - 1 - lx)
       [] o = "PortraitInverted" -> Pixel(Width - 1 - ly, lx)
       [] o = "LandscapeClockwise" -> Pixel(Width - 1 - lx, Height - 1 - ly)
       [] OTHER -> Pixel(lx, ly)

(***************************************************************************)
(* parseTouchSpec: a script's coordinate in pixels, the numerator of what  *)
(* it is taken for.  0 and 1 are taken for 0.0 and 1.0.                    *)
(***************************************************************************)
ScriptCoordinate(value, extent) ==
  IF value \in {0, 1} THEN value * (extent - 1) ELSE Clamp(value, extent - 1)

-----------------------------------------------------------------------------
(***************************************************************************)
(* HalDisplay::drawImage: which column and row of an image comes to a      *)
(* pixel of the frame buffer, in whole bytes of eight pixels.  x is cut to *)
(* a byte, and a width that is not whole bytes loses its last pixels.      *)
(***************************************************************************)
WidthBytes == Width \div 8
DrawnBytes(x, y, w, h) ==
  [at \in {[byte |-> x \div 8 + col, row |-> y + row] :
             col \in 0 .. w \div 8 - 1, row \in 0 .. h - 1}
            \cap [byte : 0 .. WidthBytes - 1, row : 0 .. Height - 1] |->
     [col |-> at.byte - x \div 8, row |-> at.row - y]]

(***************************************************************************)
(* The strip's keys, left to right, and where render() puts them.          *)
(***************************************************************************)
Boards == [hasTouch : BOOLEAN, hasHomeKey : BOOLEAN, picksFolder : BOOLEAN]
MaxControls == 8
Added(wanted) == SubSeq(wanted, 1, Minimum(Len(wanted), MaxControls))  \* add(): a full strip takes no more
StripControls(board) == Added(
  (IF board.picksFolder THEN <<"PICK_FOLDER">> ELSE <<>>)
    \o IF board.hasTouch
       THEN <<"UP">> \o (IF board.hasHomeKey THEN <<"HOME_KEY">> ELSE <<>>) \o <<"POWER", "DOWN">>
       ELSE <<"BACK", "LEFT", "UP", "CONFIRM", "DOWN", "RIGHT", "POWER">>)

(***************************************************************************)
(* On a phone a gutter below the keys clears what the system draws there.  *)
(***************************************************************************)
Gutter(phone) == IF phone THEN 40 ELSE 0
StripHeight(enabled, controls, phone) ==
  IF enabled /\ controls # <<>> THEN KeyArea + Gutter(phone) ELSE 0

Layout(controls, logicalWidth, logicalHeight, strip) ==
  LET stripY == logicalHeight - strip
      keyAreaHeight == Minimum(strip, KeyArea)
      slotW == logicalWidth \div Len(controls)
      size == Minimum(slotW - 12, keyAreaHeight - 20)
  IN [i \in DOMAIN controls |->
        [x |-> slotW * (i - 1) + slotW \div 2 - size \div 2,
         y |-> stripY + keyAreaHeight \div 2 - size \div 2, size |-> size]]

(***************************************************************************)
(* What is drawn on a key: thick lines, and arcs about a point.  A line is *)
(* widened along its normal, an arc both ways from its radius, so neither  *)
(* leaves the Box: th \div 2 of C and the half that lround rounds up.      *)
(***************************************************************************)
ThickLine(x1, y1, x2, y2, th) ==  \* a line from a point to itself is not drawn
  IF Pixel(x1, y1) = Pixel(x2, y2) THEN {} ELSE {[from |-> Pixel(x1, y1), to |-> Pixel(x2, y2), th |-> th]}
Arc(cx, cy, radius, fromDeg, toDeg, th) ==
  {[centre |-> Pixel(cx, cy), radius |-> radius, degrees |-> <<fromDeg, toDeg>>, th |-> th]}
Box(stroke) ==
  IF "centre" \in DOMAIN stroke
  THEN LET reach == stroke.radius + (stroke.th + 1) \div 2 IN
       [left |-> stroke.centre.x - reach, right |-> stroke.centre.x + reach,
        top |-> stroke.centre.y - reach, bottom |-> stroke.centre.y + reach]
  ELSE LET half == stroke.th \div 2 IN
       [left |-> Minimum(stroke.from.x, stroke.to.x) - half, top |-> Minimum(stroke.from.y, stroke.to.y) - half,
        right |-> -Minimum(-stroke.from.x, -stroke.to.x) + half,
        bottom |-> -Minimum(-stroke.from.y, -stroke.to.y) + half]

GlyphOf ==
  [PICK_FOLDER |-> "Folder", UP |-> "ChevronUp", HOME_KEY |-> "Home", POWER |-> "Power", DOWN |-> "ChevronDown",
   BACK |-> "Back", LEFT |-> "ChevronLeft", RIGHT |-> "ChevronRight", CONFIRM |-> "Confirm"]
Strokes(glyph, rect) ==
  LET cx == rect.x + rect.size \div 2
      cy == rect.y + rect.size \div 2
      s == -Minimum(-4, -(rect.size \div 4))
      th == -Minimum(-2, -(rect.size \div 14))
      thirds == (s * 2) \div 3
      Line(x1, y1, x2, y2) == ThickLine(cx + x1, cy + y1, cx + x2, cy + y2, th)
  IN CASE glyph = "ChevronUp" -> Line(-s, s \div 2, 0, -(s \div 2)) \cup Line(0, -(s \div 2), s, s \div 2)
       [] glyph = "ChevronDown" -> Line(-s, -(s \div 2), 0, s \div 2) \cup Line(0, s \div 2, s, -(s \div 2))
       [] glyph = "ChevronLeft" -> Line(s \div 2, -s, -(s \div 2), 0) \cup Line(-(s \div 2), 0, s \div 2, s)
       [] glyph = "ChevronRight" -> Line(-(s \div 2), -s, s \div 2, 0) \cup Line(s \div 2, 0, -(s \div 2), s)
       [] glyph = "Confirm" -> Line(-s, 0, -(s \div 3), thirds) \cup Line(-(s \div 3), thirds, s, -thirds)
       [] glyph = "Back" -> Line(-s, 0, s, 0) \cup Line(-s, 0, -(s \div 4), -((s * 3) \div 4))
                              \cup Line(-s, 0, -(s \div 4), (s * 3) \div 4)
       [] glyph = "Power" -> Arc(cx, cy, s, -60, 240, th) \cup Line(0, -s - th, 0, -(s \div 3))
       [] glyph = "Home" -> Arc(cx, cy, s, 0, 360, th)
       [] OTHER ->  \* the folder, around its outline
            LET at == <<Pixel(-s, thirds), Pixel(-s, -thirds), Pixel(-(s \div 6), -thirds),
                        Pixel(s \div 6, -(s \div 3)), Pixel(s, -(s \div 3)), Pixel(s, thirds), Pixel(-s, thirds)>>
            IN UNION {Line(at[i].x, at[i].y, at[i + 1].x, at[i + 1].y) : i \in 1 .. 6}

(***************************************************************************)
(* render(): a key that is down is filled.  captured is the place of the   *)
(* key under the finger, 0 for none; pressed the buttons that HalGPIO says *)
(* are pressed.                                                            *)
(***************************************************************************)
IsDown(controls, i, captured, pressed) ==
  IF controls[i] \in {"HOME_KEY", "PICK_FOLDER"} THEN captured # 0 /\ controls[captured] = controls[i]
  ELSE controls[i] \in pressed
Render(controls, rects, captured, pressed) ==
  [i \in DOMAIN controls |->
     [filled |-> IsDown(controls, i, captured, pressed), strokes |-> Strokes(GlyphOf[controls[i]], rects[i])]]

(***************************************************************************)
(* handlePress: the first key whose rectangle holds the point, 0 for none. *)
(***************************************************************************)
Covers(rect, x, y) ==
  rect.size # 0 /\ x \in rect.x .. rect.x + rect.size - 1 /\ y \in rect.y .. rect.y + rect.size - 1
PressedControl(rects, x, y) ==
  LET hit == {i \in DOMAIN rects : Covers(rects[i], x, y)}
  IN IF hit = {} THEN 0 ELSE CHOOSE i \in hit : \A j \in hit : i <= j
=============================================================================
