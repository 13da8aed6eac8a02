------------------------------- MODULE Geometry -------------------------------
(***************************************************************************)
(* Where the overlay lands on an output: at the pointer                    *)
(* (src/src/core/cursor_overlay_geometry.h), at the text caret             *)
(* (caret_overlay_geometry.h) or on a grid of seven columns and three rows *)
(* (anchorsFor and applyGridAnchors in src/src/overlay/main.cpp,           *)
(* progress_overlay_geometry.h).                                           *)
(*                                                                         *)
(* Lengths are pixels.  An int division of a negative number rounds up in  *)
(* the code and down here; such a result is clamped to the edge in both.   *)
(***************************************************************************)
EXTENDS Integers

CONSTANTS
  Screens,      \* [x, y, w, h]: outputs in the coordinates of the desktop
  Surfaces,     \* [w, h, frameW, frameH]: the overlay and the panel within it; the
                \* rest is the progress bar, above it and to its right
  Points,       \* [x, y]: places of the pointer and of carets
  LineHeights,  \* of carets, 0 or less when unusable
  kEdgeMargin

ASSUME GeometryAssumption ==
  /\ Screens \subseteq [x: Int, y: Int, w: Nat, h: Nat]
  /\ Surfaces \subseteq [w: Nat, h: Nat, frameW: Nat, frameH: Nat]
  /\ \A s \in Surfaces : s.frameW <= s.w /\ s.frameH <= s.h
  /\ Points \subseteq [x: Int, y: Int]
  /\ LineHeights \subseteq Int
  /\ kEdgeMargin \in Nat

VARIABLES
  request,   \* what the last placement was for
  rect       \* the surface on the output: [left, top, w, h]

geometryVars == <<request, rect>>

\* std::clamp and std::max(0, .).
AtLeast(low, n) == IF n < low THEN low ELSE n
Clamp(n, low, high) == IF n < low THEN low ELSE IF n > high THEN high ELSE n
At(left, top, s) == [left |-> left, top |-> top, w |-> s.w, h |-> s.h]

\* cursorMargins: the lower left corner at the pointer.
CursorMargins(p, o, s) ==
  At(Clamp(p.x - o.x, 0, AtLeast(0, o.w - s.w)),
     Clamp(p.y - o.y - s.h, 0, AtLeast(0, o.h - s.h)), s)

kCaretFallbackLineHeight == 24
kCaretGap == 4
LineHeight(h) == IF h > 0 THEN h ELSE kCaretFallbackLineHeight

\* Mutant: never above the line.
CaretTopMutant(y, line, o, s) == y + line + kCaretGap

\* Below the line, or above it where it would spill past the bottom.
CaretTop(y, line, o, s) ==
  IF y + line + kCaretGap + s.h > o.h THEN y - s.h - kCaretGap
                                      ELSE y + line + kCaretGap

\* caretMargins: the left edge at the caret.
CaretMargins(p, height, o, s) ==
  At(Clamp(p.x - o.x, 0, AtLeast(0, o.w - s.w)),
     Clamp(CaretTop(p.y - o.y, LineHeight(height), o, s), 0, AtLeast(0, o.h - s.h)), s)

Rows == {"Top", "Center", "Bottom"}
Columns == 0 .. 6

\* gridColumnCenter.
ColumnCenter(col, width) == (width * (col + 1)) \div 8

\* anchorsFor: anchored at the left, centred by the compositor, or anchored at the
\* right, which mirrors the left.
GridLeft(col, o, s) ==
  IF col < 3 THEN AtLeast(kEdgeMargin, ColumnCenter(col, o.w) - s.w \div 2)
  ELSE IF col = 3 THEN (o.w - s.w) \div 2
  ELSE o.w - s.w - AtLeast(kEdgeMargin, ColumnCenter(6 - col, o.w) - s.w \div 2)

GridTop(row, o, s) ==
  IF row = "Top" THEN kEdgeMargin
  ELSE IF row = "Center" THEN (o.h - s.h) \div 2
  ELSE o.h - s.h - kEdgeMargin

\* gridPanelLeftMargin and gridPanelTopMargin, while the bar is up.
PanelLeft(col, o, s) ==
  Clamp(ColumnCenter(col, o.w) - s.frameW \div 2, kEdgeMargin,
        AtLeast(kEdgeMargin, o.w - s.w - kEdgeMargin))

PanelTop(o, s) ==
  Clamp((o.h - s.frameH) \div 2 - (s.h - s.frameH), kEdgeMargin,
        AtLeast(kEdgeMargin, o.h - s.h - kEdgeMargin))

\* applyGridAnchors once the output is known.
GridRect(row, col, bar, o, s) ==
  At(IF bar /\ s.frameW > 0 THEN PanelLeft(col, o, s) ELSE GridLeft(col, o, s),
     IF bar /\ s.frameH > 0 /\ row = "Center" THEN PanelTop(o, s) ELSE GridTop(row, o, s),
     s)

\* --- Placements ---

Nowhere == [how |-> "none"]
GeometryInit == request = Nowhere /\ rect = At(0, 0, [w |-> 0, h |-> 0])

PlaceAtCursor(p, o, s) ==
  /\ request' = [how |-> "cursor", point |-> p, screen |-> o]
  /\ rect' = CursorMargins(p, o, s)

PlaceAtCaret(p, height, o, s) ==
  /\ request' = [how |-> "caret", point |-> p, line |-> LineHeight(height), screen |-> o]
  /\ rect' = CaretMargins(p, height, o, s)

PlaceOnGrid(row, col, bar, o, s) ==
  /\ request' = [how |-> "grid", col |-> col, screen |-> o]
  /\ rect' = GridRect(row, col, bar, o, s)

GeometryNext ==
  \/ \E p \in Points, o \in Screens, s \in Surfaces : PlaceAtCursor(p, o, s)
  \/ \E p \in Points, height \in LineHeights, o \in Screens, s \in Surfaces :
       PlaceAtCaret(p, height, o, s)
  \/ \E row \in Rows, col \in Columns, bar \in BOOLEAN, o \in Screens, s \in Surfaces :
       PlaceOnGrid(row, col, bar, o, s)

GeometrySpec == GeometryInit /\ [][GeometryNext]_geometryVars

\* --- Properties ---

\* A surface that fits an output, in the grid with a margin at every edge, is shown
\* whole (anchorsFor, gridPanelLeftMargin, cursorMargins, caretMargins).
Edge(how) == IF how = "grid" THEN kEdgeMargin ELSE 0
Fits(r, o, edge) == r.w + 2 * edge <= o.w /\ r.h + 2 * edge <= o.h
Within(r, o) ==
  /\ 0 <= r.left /\ r.left + r.w <= o.w
  /\ 0 <= r.top /\ r.top + r.h <= o.h
ShownWhole ==
  request.how # "none" /\ Fits(rect, request.screen, Edge(request.how))
    => Within(rect, request.screen)

\* The overlay leaves the caret's line free wherever there is room below or above
\* it (caretMargins).
CaretY == request.point.y - request.screen.y
RoomForCaret ==
  \/ CaretY + request.line + kCaretGap + rect.h <= request.screen.h
  \/ rect.h + kCaretGap <= CaretY
LineIsFree ==
  request.how = "caret" /\ CaretY \in 0 .. request.screen.h /\ RoomForCaret
    => \/ rect.top >= CaretY + request.line
       \/ rect.top + rect.h <= CaretY

PlacementIsSound == ShownWhole /\ LineIsFree
=============================================================================
