----------------------------- MODULE DisplayProofs -----------------------------
(***************************************************************************)
(* What is proved about what the user sees: the panel is placed where it   *)
(* fits (Geometry), the window follows the last message of the engine      *)
(* (OverlayDaemon), and the tray tells the truth about the engine (Tray).  *)
(* Last, the instance of MCDesktop, which runs all parts of the desktop:   *)
(* each of its behaviours is one of every part.                            *)
(***************************************************************************)
EXTENDS MCDesktop, DesktopProofs, FiniteSetTheorems, SequenceTheorems,
        WellFoundedInduction, TLAPS

-----------------------------------------------------------------------------
\* The geometry.
Output == [x: Int, y: Int, w: Nat, h: Nat]
Surface == [w: Nat, h: Nat, frameW: Nat, frameH: Nat]
Point == [x: Int, y: Int]

\* Halves and eighths.
LEMMA HalfBounds ==
  ASSUME NEW n \in Int
  PROVE  n \div 2 \in Int /\ 2 * (n \div 2) <= n /\ n < 2 * (n \div 2) + 2
  OBVIOUS

LEMMA EighthBounds ==
  ASSUME NEW n \in Int
  PROVE  n \div 8 \in Int /\ 8 * (n \div 8) <= n /\ n < 8 * (n \div 8) + 8
  OBVIOUS

\* A column of the left half is centred left of the middle by an eighth at least,
\* every column within the output.
LEMMA ColumnBounds ==
  ASSUME NEW width \in Nat, NEW col \in Columns
  PROVE  /\ ColumnCenter(col, width) \in Nat
         /\ ColumnCenter(col, width) <= width
         /\ col < 3 => 2 * ColumnCenter(col, width) <= width
<1>1. width * (col + 1) \in Int /\ 0 <= width * (col + 1)
  BY DEF Columns
<1>2. width * (col + 1) <= 7 * width
  BY DEF Columns
<1>3. col < 3 => width * (col + 1) <= 3 * width
  BY DEF Columns
<1>4. QED
  BY <1>1, <1>2, <1>3, EighthBounds DEF ColumnCenter

\* A surface that fits is shown whole at the pointer.
LEMMA CursorWithin ==
  ASSUME NEW p \in Point, NEW o \in Output, NEW s \in Surface,
         Fits(s, o, 0)
  PROVE  Within(CursorMargins(p, o, s), o)
  BY DEF Point, Output, Surface, Fits, Within, CursorMargins, At, Clamp, AtLeast

\* And at the caret.
LEMMA CaretWithin ==
  ASSUME NEW p \in Point, NEW height \in Int, NEW o \in Output, NEW s \in Surface,
         Fits(s, o, 0)
  PROVE  Within(CaretMargins(p, height, o, s), o)
<1>1. CaretTop(p.y - o.y, LineHeight(height), o, s) \in Int
  BY DEF Point, Output, Surface, CaretTop, LineHeight, kCaretGap,
         kCaretFallbackLineHeight
<1>2. QED
  BY <1>1 DEF Point, Output, Surface, Fits, Within, CaretMargins, At, Clamp, AtLeast

\* With room below the line or above it the overlay leaves it free.
LEMMA CaretFree ==
  ASSUME NEW p \in Point, NEW height \in Int, NEW o \in Output, NEW s \in Surface,
         p.y - o.y \in 0 .. o.h,
         \/ p.y - o.y + LineHeight(height) + kCaretGap + s.h <= o.h
         \/ s.h + kCaretGap <= p.y - o.y
  PROVE  LET top == CaretMargins(p, height, o, s).top
         IN  top >= p.y - o.y + LineHeight(height) \/ top + s.h <= p.y - o.y
<1>1. LineHeight(height) \in Nat \ {0}
  BY DEF LineHeight, kCaretFallbackLineHeight
<1>2. p.y - o.y \in Nat /\ s.h \in Nat /\ o.h \in Nat
  BY DEF Point, Output, Surface
<1>3. QED
  BY <1>1, <1>2 DEF CaretMargins, CaretTop, At, Clamp, AtLeast, kCaretGap

\* A surface that fits with its margins is shown whole on the grid.
LEMMA GridWithin ==
  ASSUME NEW row \in Rows, NEW col \in Columns, NEW bar \in BOOLEAN,
         NEW o \in Output, NEW s \in Surface, Fits(s, o, kEdgeMargin)
  PROVE  Within(GridRect(row, col, bar, o, s), o)
<1> DEFINE r == GridRect(row, col, bar, o, s)
<1>a. /\ o.w \in Nat /\ o.h \in Nat /\ kEdgeMargin \in Nat
      /\ s.w \in Nat /\ s.h \in Nat /\ s.frameW \in Nat /\ s.frameH \in Nat
      /\ s.w + 2 * kEdgeMargin <= o.w /\ s.h + 2 * kEdgeMargin <= o.h
  BY GeometryAssumption DEF Output, Surface, Fits
<1>b. /\ s.w \div 2 \in Nat /\ 2 * (s.w \div 2) <= s.w /\ s.w < 2 * (s.w \div 2) + 2
      /\ s.frameW \div 2 \in Nat
      /\ (o.w - s.w) \div 2 \in Nat /\ 2 * ((o.w - s.w) \div 2) <= o.w - s.w
      /\ (o.h - s.h) \div 2 \in Nat /\ 2 * ((o.h - s.h) \div 2) <= o.h - s.h
      /\ (o.h - s.frameH) \div 2 \in Int
  BY <1>a, HalfBounds
<1>1. 0 <= GridLeft(col, o, s) /\ GridLeft(col, o, s) + s.w <= o.w
  <2>1. CASE col < 3
    <3>1. ColumnCenter(col, o.w) \in Nat /\ 2 * ColumnCenter(col, o.w) <= o.w
      BY <2>1, <1>a, ColumnBounds
    <3>2. GridLeft(col, o, s) = AtLeast(kEdgeMargin, ColumnCenter(col, o.w) - s.w \div 2)
      BY <2>1 DEF GridLeft
    <3>3. QED
      BY <1>a, <1>b, <3>1, <3>2 DEF AtLeast
  <2>2. CASE col = 3
    BY <1>a, <1>b, <2>2 DEF GridLeft
  <2>3. CASE col > 3
    <3>1. 6 - col \in Columns /\ 6 - col < 3
      BY <2>3 DEF Columns
    <3>2. /\ ColumnCenter(6 - col, o.w) \in Nat
          /\ 2 * ColumnCenter(6 - col, o.w) <= o.w
      BY <3>1, <1>a, ColumnBounds
    <3>3. QED
      BY <1>a, <1>b, <2>3, <3>2 DEF GridLeft, AtLeast, Columns
  <2>4. QED
    BY <2>1, <2>2, <2>3 DEF Columns
<1>2. 0 <= PanelLeft(col, o, s) /\ PanelLeft(col, o, s) + s.w <= o.w
  BY <1>a, <1>b, ColumnBounds DEF PanelLeft, Clamp, AtLeast
<1>3. 0 <= GridTop(row, o, s) /\ GridTop(row, o, s) + s.h <= o.h
  <2>1. CASE row = "Top"
    BY <1>a, <2>1 DEF GridTop
  <2>2. CASE row = "Center"
    BY <1>a, <1>b, <2>2 DEF GridTop
  <2>3. CASE row = "Bottom"
    BY <1>a, <2>3 DEF GridTop
  <2>4. QED
    BY <2>1, <2>2, <2>3 DEF Rows
<1>4. 0 <= PanelTop(o, s) /\ PanelTop(o, s) + s.h <= o.h
  <2> DEFINE top == (o.h - s.frameH) \div 2 - (s.h - s.frameH)
  <2>1. top \in Int
    BY <1>a, <1>b
  <2> HIDE DEF top
  <2>2. Clamp(top, kEdgeMargin, AtLeast(kEdgeMargin, o.h - s.h - kEdgeMargin))
          \in 0 .. o.h - s.h
    BY <1>a, <2>1 DEF Clamp, AtLeast
  <2>3. QED
    BY <1>a, <2>2 DEF PanelTop, top
<1>5. QED
  BY <1>1, <1>2, <1>3, <1>4 DEF Within, GridRect, At

\* Every placement of a surface that fits is whole, and leaves the caret's line
\* free where there is room: anchorsFor, applyGridAnchors, cursorMargins and
\* caretMargins, for all outputs, surfaces and places.
THEOREM PlacementSoundness == GeometrySpec => []PlacementIsSound
<1>1. GeometryInit => PlacementIsSound
  BY DEF GeometryInit, PlacementIsSound, ShownWhole, LineIsFree, Nowhere
<1>2. PlacementIsSound /\ [GeometryNext]_geometryVars => PlacementIsSound'
  <2> SUFFICES ASSUME PlacementIsSound, [GeometryNext]_geometryVars
               PROVE  PlacementIsSound'
    OBVIOUS
  <2>1. ASSUME NEW p \in Points, NEW o \in Screens, NEW s \in Surfaces,
               PlaceAtCursor(p, o, s)
        PROVE  PlacementIsSound'
    <3>1. p \in Point /\ o \in Output /\ s \in Surface
      BY GeometryAssumption DEF Point, Output, Surface
    <3>2. Fits(rect', o, 0) => Within(rect', o)
      <4>1. rect' = CursorMargins(p, o, s) /\ rect'.w = s.w /\ rect'.h = s.h
        BY <2>1 DEF PlaceAtCursor, CursorMargins, At
      <4>2. QED
        BY <4>1, <3>1, CursorWithin DEF Fits
    <3>3. QED
      BY <2>1, <3>2 DEF PlaceAtCursor, PlacementIsSound, ShownWhole, LineIsFree, Edge
  <2>2. ASSUME NEW p \in Points, NEW height \in LineHeights, NEW o \in Screens,
               NEW s \in Surfaces, PlaceAtCaret(p, height, o, s)
        PROVE  PlacementIsSound'
    <3>1. p \in Point /\ o \in Output /\ s \in Surface /\ height \in Int
      BY GeometryAssumption DEF Point, Output, Surface
    <3>2. rect' = CaretMargins(p, height, o, s) /\ rect'.w = s.w /\ rect'.h = s.h
      BY <2>2 DEF PlaceAtCaret, CaretMargins, At
    <3>3. Fits(rect', o, 0) => Within(rect', o)
      BY <3>2, <3>1, CaretWithin DEF Fits
    <3>4. /\ request'.how = "caret" /\ request'.screen = o /\ request'.point = p
          /\ request'.line = LineHeight(height)
      BY <2>2 DEF PlaceAtCaret
    <3>5. CaretY' = p.y - o.y
      BY <3>4 DEF CaretY
    <3>6. (CaretY' \in 0 .. o.h) /\ RoomForCaret'
          => rect'.top >= p.y - o.y + LineHeight(height) \/ rect'.top + s.h <= p.y - o.y
      BY <3>1, <3>2, <3>4, <3>5, CaretFree DEF RoomForCaret
    <3>7. ShownWhole'
      BY <3>3, <3>4 DEF ShownWhole, Edge
    <3>8. LineIsFree'
      BY <3>2, <3>4, <3>5, <3>6 DEF LineIsFree
    <3>9. QED
      BY <3>7, <3>8 DEF PlacementIsSound
  <2>3. ASSUME NEW row \in Rows, NEW col \in Columns, NEW bar \in BOOLEAN,
               NEW o \in Screens, NEW s \in Surfaces, PlaceOnGrid(row, col, bar, o, s)
        PROVE  PlacementIsSound'
    <3>1. o \in Output /\ s \in Surface
      BY GeometryAssumption DEF Output, Surface
    <3>2. rect' = GridRect(row, col, bar, o, s) /\ rect'.w = s.w /\ rect'.h = s.h
      BY <2>3 DEF PlaceOnGrid, GridRect, At
    <3>3. Fits(rect', o, kEdgeMargin) => Within(rect', o)
      BY <3>2, <3>1, GridWithin DEF Fits
    <3>4. QED
      BY <2>3, <3>3 DEF PlaceOnGrid, PlacementIsSound, ShownWhole, LineIsFree, Edge
  <2>4. CASE UNCHANGED geometryVars
    BY <2>4 DEF geometryVars, PlacementIsSound, ShownWhole, LineIsFree, CaretY,
                RoomForCaret
  <2>5. QED
    BY <2>1, <2>2, <2>3, <2>4 DEF GeometryNext
<1>3. QED
  BY <1>1, <1>2, PTL DEF GeometrySpec

-----------------------------------------------------------------------------
\* The overlay process.  What the engine sends.
Messages ==
  [kind: {"Show"}, variants: Variants \cup {TheName}, index: {kNoHighlightIndex, 1},
   position: Positions, label: BOOLEAN] \cup [kind: {"Hide", "SetProgress"}]

OverlayTyped ==
  /\ OverlayTypeOK
  /\ mail \in Seq(Messages)
  /\ activeOutput \in Outputs

\* The window, the overlay on it and the query for its place are of one epoch: what
\* is active is what the controller shows.
SamePlacement ==
  /\ rend.active => /\ ctrl.visible /\ rend.loaded
                    /\ ctrl.position = rend.position /\ ctrl.label = rend.label
  /\ win.visible => /\ rend.active /\ win.epoch = rend.epoch
                    /\ win.spot \in {rend.position, Gr(rend.position)}
  /\ rend.gridActive => rend.lastGrid = Gr(rend.position)
  /\ \A ask \in asks :
       /\ ask.epoch <= rend.epoch
       /\ ask.epoch = rend.epoch =>
            /\ rend.active
            /\ ask.position = rend.position /\ rend.position.kind = "cursor"

\* The call of the newest connection is posted.
CallIsPosted == \E i \in 1 .. Len(posted) : posted[i] = rend.generation

\* No posted call is newer than the newest connection; once its call is posted, the
\* window has drawn.
Connected ==
  /\ \A i \in 1 .. Len(posted) : posted[i] \in 1 .. rend.generation
  /\ rend.restore # NoConnection => rend.restore = rend.generation
  /\ win.visible /\ CallIsPosted => win.drawn
  /\ win.visible /\ rend.position.kind # "cursor" /\ ctrl.placed => win.drawn /\ ~win.provisional

\* The margin is that of the window's screen; a provisional one has a frame or a call
\* coming that will mend it, and a window that owns its output knows it.
MarginIsTended ==
  win.visible =>
    /\ win.margin = win.screen
    /\ ~rend.gridActive => win.screen = win.output
    /\ win.provisional =>
         /\ rend.gridActive /\ rend.pendingRealMargin
         /\ CallIsPosted \/ (frameDue /\ rend.restore # NoConnection)

OverlayInv == OverlayTyped /\ SamePlacement /\ Connected /\ MarginIsTended

LEMMA OverlayInvSuffices == OverlayInv => WindowIsCurrent
<1> SUFFICES ASSUME OverlayInv PROVE WindowIsCurrent
  OBVIOUS
<1>1. PlacementIsCurrent
  BY DEF OverlayInv, SamePlacement, PlacementIsCurrent
<1>2. SyncRevealIsFinal
  BY DEF OverlayInv, SamePlacement, Connected, SyncRevealIsFinal, RevealedAtFinalMargin
<1>3. MarginSettles
  <2> SUFFICES ASSUME win.visible, ~frameDue, posted = <<>>, win.screen = win.output
               PROVE  win.margin = win.output /\ ~win.provisional
    BY DEF MarginSettles
  <2>1. ~CallIsPosted
    BY DEF CallIsPosted
  <2>2. QED
    BY <2>1 DEF OverlayInv, MarginIsTended
<1>4. QED
  BY <1>1, <1>2, <1>3 DEF WindowIsCurrent

LEMMA OverlayStarts == OverlayInit => OverlayInv
<1> SUFFICES ASSUME OverlayInit PROVE OverlayInv
  OBVIOUS
<1>1. OverlayTyped
  <2>1. mail \in Seq(Messages) /\ posted \in Seq(Nat)
    BY EmptySeq DEF OverlayInit
  <2>2. PICK p \in Positions :
          /\ ctrl = [variants |-> NoVariants, index |-> 0, position |-> p, label |-> FALSE,
                     visible |-> FALSE, animate |-> TRUE, placed |-> TRUE]
          /\ activeOutput \in Outputs
          /\ rend = [loaded |-> FALSE, active |-> FALSE, epoch |-> 1, position |-> p,
                     label |-> FALSE, gridActive |-> FALSE, lastGrid |-> p,
                     pendingRealMargin |-> FALSE, generation |-> 0,
                     restore |-> NoConnection]
          /\ win = [visible |-> FALSE, spot |-> p, epoch |-> 1, screen |-> activeOutput,
                    output |-> activeOutput, margin |-> activeOutput, provisional |-> FALSE,
                    drawn |-> FALSE]
    BY DEF OverlayInit
  <2>3. QED
    BY <2>1, <2>2 DEF OverlayInit, OverlayTyped, OverlayTypeOK, PositionSet, NoConnection
<1>2. SamePlacement
  BY DEF OverlayInit, SamePlacement
<1>3. Connected
  BY DEF OverlayInit, Connected, NoConnection
<1>4. MarginIsTended
  BY DEF OverlayInit, MarginIsTended
<1>5. QED
  BY <1>1, <1>2, <1>3, <1>4 DEF OverlayInv

CtrlRecords ==
  [variants: Variants \cup {NoVariants, TheName}, index: {kNoHighlightIndex, 0, 1},
   position: Positions, label: BOOLEAN, visible: BOOLEAN, animate: BOOLEAN, placed: BOOLEAN]
RendRecords ==
  [loaded: BOOLEAN, active: BOOLEAN, epoch: Nat, position: Positions, label: BOOLEAN,
   gridActive: BOOLEAN, lastGrid: PositionSet, pendingRealMargin: BOOLEAN,
   generation: Nat, restore: Nat]
WinRecords ==
  [visible: BOOLEAN, spot: PositionSet, epoch: Nat, screen: Outputs, output: Outputs,
   margin: Outputs, provisional: BOOLEAN, drawn: BOOLEAN]

\* A new connection: the calls posted so far are older.
Reconnected(r) ==
  /\ rend'.generation = r.generation + 1 /\ rend'.restore = r.generation + 1
  /\ rend'.loaded = r.loaded /\ rend'.active = r.active /\ rend'.epoch = r.epoch
  /\ rend'.position = r.position /\ rend'.label = r.label

\* What both ways to place a window do.
Revealed(r, w, position) ==
  /\ rend' \in RendRecords /\ win' \in WinRecords
  /\ Reconnected(r)
  /\ win'.visible /\ win'.epoch = r.epoch /\ win'.spot \in {position, Gr(position)}
  /\ win'.margin = win'.screen
  /\ ~rend'.gridActive => win'.screen = win'.output
  /\ rend'.gridActive => rend'.lastGrid = Gr(position)
  /\ win'.provisional => rend'.gridActive /\ rend'.pendingRealMargin
  /\ frameDue' = TRUE

LEMMA GridReveals ==
  ASSUME NEW r \in RendRecords, NEW w \in WinRecords, NEW position \in Positions,
         activeOutput \in Outputs, RevealGrid(r, w, position)
  PROVE  Revealed(r, w, position)
<1>1. Gr(position) \in PositionSet
  BY DEF PositionSet
<1>2. rend' \in RendRecords /\ win' \in WinRecords
  <2>1. r.generation + 1 \in Nat
    BY DEF RendRecords
  <2>2. rend' \in RendRecords
    BY <1>1, <2>1 DEF RevealGrid, Armed, RendRecords
  <2>3. w.screen \in Outputs /\ r.epoch \in Nat
    BY DEF RendRecords, WinRecords
  <2>4. win' \in WinRecords
    BY <1>1, <2>3 DEF RevealGrid, ApplyGridAnchors, WinRecords
  <2>5. QED
    BY <2>2, <2>4
<1>3. /\ Reconnected(r) /\ rend'.gridActive /\ rend'.pendingRealMargin
      /\ rend'.lastGrid = Gr(position)
  BY DEF RevealGrid, Armed, RendRecords, Reconnected
<1>4. /\ win'.visible /\ win'.epoch = r.epoch /\ win'.spot = Gr(position)
      /\ win'.margin = win'.screen
  BY DEF RevealGrid, ApplyGridAnchors, WinRecords
<1>5. QED
  BY <1>2, <1>3, <1>4 DEF Revealed, RevealGrid

LEMMA PinnedReveals ==
  ASSUME NEW r \in RendRecords, NEW w \in WinRecords, NEW position \in Positions,
         NEW o \in Outputs, PlacePinned(r, w, position, o)
  PROVE  Revealed(r, w, position)
<1>1. position \in PositionSet
  BY DEF PositionSet
<1>2. rend' \in RendRecords /\ win' \in WinRecords
  <2>1. r.generation + 1 \in Nat /\ r.epoch \in Nat
    BY DEF RendRecords
  <2>2. rend' \in RendRecords
    BY <2>1 DEF PlacePinned, Armed, RendRecords
  <2>3. win' \in WinRecords
    BY <1>1, <2>1 DEF PlacePinned, WinRecords
  <2>4. QED
    BY <2>2, <2>3
<1>3. Reconnected(r) /\ ~rend'.gridActive
  BY DEF PlacePinned, Armed, RendRecords, Reconnected
<1>4. /\ win'.visible /\ win'.epoch = r.epoch /\ win'.spot = position
      /\ win'.margin = win'.screen /\ win'.screen = win'.output /\ ~win'.provisional
  BY DEF PlacePinned, WinRecords
<1>5. QED
  BY <1>2, <1>3, <1>4 DEF Revealed, PlacePinned

\* The calls posted before a new connection are not its call.
LEMMA NotPostedYet ==
  ASSUME OverlayInv, rend'.generation = rend.generation + 1, posted' = posted
  PROVE  /\ ~CallIsPosted'
         /\ \A i \in 1 .. Len(posted') : posted'[i] \in 1 .. rend'.generation
<1>1. rend.generation \in Nat
  BY DEF OverlayInv, OverlayTyped, OverlayTypeOK
<1>2. \A i \in 1 .. Len(posted) : posted[i] \in 1 .. rend.generation
  BY DEF OverlayInv, Connected
<1>3. QED
  BY <1>1, <1>2 DEF CallIsPosted

\* A window placed for the overlay that is shown keeps the invariant.
LEMMA RevealKeeps ==
  ASSUME OverlayInv, NEW r \in RendRecords, NEW w, NEW position,
         Revealed(r, w, position), r.generation = rend.generation, posted' = posted,
         r.active, r.loaded, r.position = position,
         ctrl'.visible, ctrl'.position = position, ctrl'.label = r.label,
         ctrl'.placed => position.kind = "cursor",
         \A ask \in asks' : ask.epoch \in Nat /\ ask.epoch < r.epoch
  PROVE  SamePlacement' /\ Connected' /\ MarginIsTended'
<1>1. ~CallIsPosted' /\ \A i \in 1 .. Len(posted') : posted'[i] \in 1 .. rend'.generation
  BY NotPostedYet DEF Revealed, Reconnected
<1>2. r.epoch \in Nat /\ r.generation \in Nat
  BY DEF RendRecords
<1>3. SamePlacement'
  <2>1. /\ rend'.active /\ rend'.loaded /\ rend'.epoch = r.epoch /\ rend'.position = position
        /\ rend'.label = r.label
        /\ win'.epoch = r.epoch /\ win'.spot \in {position, Gr(position)}
        /\ rend'.gridActive => rend'.lastGrid = Gr(position)
    BY DEF Revealed, Reconnected
  <2>2. \A ask \in asks' : ask.epoch <= rend'.epoch /\ ask.epoch # rend'.epoch
    BY <2>1, <1>2
  <2>3. QED
    BY <2>1, <2>2 DEF SamePlacement
<1>4. Connected'
  <2>1. rend'.restore = rend'.generation /\ rend'.position = position
    BY DEF Revealed, Reconnected
  <2>2. QED
    BY <2>1, <1>1 DEF Connected
<1>5. MarginIsTended'
  <2>1. rend'.restore # NoConnection
    BY <1>2 DEF Revealed, Reconnected, NoConnection
  <2>2. QED
    BY <2>1 DEF Revealed, MarginIsTended
<1>6. QED
  BY <1>3, <1>4, <1>5

LEMMA TypedRecords ==
  ASSUME OverlayInv
  PROVE  /\ ctrl \in CtrlRecords /\ rend \in RendRecords /\ win \in WinRecords
         /\ frameDue \in BOOLEAN /\ posted \in Seq(Nat) /\ mail \in Seq(Messages)
         /\ activeOutput \in Outputs
         /\ \A ask \in asks : ask.epoch \in Nat /\ ask.position \in Positions
  BY DEF OverlayInv, OverlayTyped, OverlayTypeOK, CtrlRecords, RendRecords, WinRecords

LEMMA RecordsTyped ==
  ASSUME ctrl \in CtrlRecords, rend \in RendRecords, win \in WinRecords,
         frameDue \in BOOLEAN, posted \in Seq(Nat), mail \in Seq(Messages),
         activeOutput \in Outputs,
         \A ask \in asks : ask.epoch \in Nat /\ ask.position \in Positions
  PROVE  OverlayTyped
  BY DEF OverlayTyped, OverlayTypeOK, CtrlRecords, RendRecords, WinRecords

\* syncToController when nothing is to be moved: a frame is asked for only if the
\* transitions are to be restored.
LEMMA SameWindowKeeps ==
  ASSUME OverlayInv, NEW c \in CtrlRecords, c.placed = ctrl.placed,
         DecideRenderAction(c) = "None", ctrl' = c, UNCHANGED <<win, asks, posted>>,
         IF c.animate THEN UNCHANGED <<rend, frameDue>>
                      ELSE rend' = Armed(rend) /\ RequestUpdate(c # ctrl)
  PROVE  /\ SamePlacement' /\ Connected' /\ MarginIsTended'
         /\ rend' \in RendRecords /\ frameDue' \in BOOLEAN
<1>1. /\ rend \in RendRecords /\ frameDue \in BOOLEAN /\ win \in WinRecords
      /\ rend.generation \in Nat
  BY TypedRecords DEF RendRecords
<1>2. /\ c.visible /\ rend.active /\ rend.position = c.position /\ rend.label = c.label
      /\ rend.loaded
  BY DEF DecideRenderAction, OverlayInv, SamePlacement
<1>3. /\ rend' \in RendRecords /\ frameDue' \in BOOLEAN
      /\ rend'.loaded = rend.loaded /\ rend'.active = rend.active
      /\ rend'.epoch = rend.epoch /\ rend'.position = rend.position
      /\ rend'.label = rend.label /\ rend'.gridActive = rend.gridActive
      /\ rend'.lastGrid = rend.lastGrid
      /\ rend'.pendingRealMargin = rend.pendingRealMargin
      /\ frameDue => frameDue'
  <2>1. /\ rend.generation + 1 \in Nat /\ win.visible \in BOOLEAN
        /\ rend' = rend \/ rend' = Armed(rend)
    BY <1>1 DEF WinRecords
  <2>2. rend' \in RendRecords
    BY <1>1, <2>1 DEF Armed, RendRecords
  <2>3. /\ rend'.loaded = rend.loaded /\ rend'.active = rend.active
        /\ rend'.epoch = rend.epoch /\ rend'.position = rend.position
        /\ rend'.label = rend.label /\ rend'.gridActive = rend.gridActive
        /\ rend'.lastGrid = rend.lastGrid
        /\ rend'.pendingRealMargin = rend.pendingRealMargin
    BY <1>1, <2>1 DEF Armed, RendRecords
  <2>4. frameDue' \in BOOLEAN /\ (frameDue => frameDue')
    BY <1>1, <2>1 DEF RequestUpdate
  <2>5. QED
    BY <2>2, <2>3, <2>4
<1>4. SamePlacement'
  BY <1>2, <1>3 DEF OverlayInv, SamePlacement
<1>5. CASE c.animate
  <2>1. CallIsPosted' = CallIsPosted
    BY <1>5 DEF CallIsPosted
  <2>2. QED
    BY <1>3, <1>4, <1>5, <2>1, <1>2 DEF OverlayInv, Connected, MarginIsTended, SamePlacement
<1>6. CASE ~c.animate
  <2>1. /\ rend'.generation = rend.generation + 1 /\ rend'.restore = rend.generation + 1
        /\ frameDue' = (frameDue \/ win.visible)
    BY <1>6, <1>1 DEF Armed, RendRecords, RequestUpdate
  <2>2. ~CallIsPosted' /\ \A i \in 1 .. Len(posted') : posted'[i] \in 1 .. rend'.generation
    BY <2>1, NotPostedYet
  <2>3. Connected'
    BY <2>1, <2>2, <1>2, <1>3 DEF OverlayInv, Connected
  <2>4. rend'.restore # NoConnection
    BY <2>1, <1>1 DEF NoConnection
  <2>5. MarginIsTended'
    BY <2>1, <2>4, <1>3 DEF OverlayInv, MarginIsTended
  <2>6. QED
    BY <2>3, <2>5, <1>3, <1>4
<1>7. QED
  BY <1>5, <1>6

\* A window that hides.
LEMMA HideKeeps ==
  ASSUME OverlayInv,
         rend' = HideWindow(rend), win' = WindowHidden(win),
         UNCHANGED <<asks, posted>>
  PROVE  /\ SamePlacement' /\ Connected' /\ MarginIsTended'
         /\ rend' \in RendRecords /\ win' \in WinRecords
<1>1. /\ rend \in RendRecords /\ win \in WinRecords /\ rend.epoch \in Nat
      /\ \A ask \in asks : ask.epoch \in Nat
  BY TypedRecords DEF RendRecords
<1>2. /\ rend' \in RendRecords /\ win' \in WinRecords
      /\ ~rend'.active /\ ~rend'.gridActive /\ rend'.epoch = rend.epoch + 1
      /\ rend'.generation = rend.generation /\ rend'.restore = rend.restore
      /\ ~win'.visible
  <2>1. rend.epoch + 1 \in Nat
    BY <1>1
  <2>2. rend' \in RendRecords
    BY <1>1, <2>1 DEF HideWindow, RendRecords
  <2>3. win' \in WinRecords /\ ~win'.visible
    BY <1>1 DEF WindowHidden, WinRecords
  <2>4. /\ ~rend'.active /\ ~rend'.gridActive /\ rend'.epoch = rend.epoch + 1
        /\ rend'.generation = rend.generation /\ rend'.restore = rend.restore
    BY <1>1 DEF HideWindow, RendRecords
  <2>5. QED
    BY <2>2, <2>3, <2>4
<1>3. \A ask \in asks : ask.epoch <= rend.epoch
  BY DEF OverlayInv, SamePlacement
<1>4. \A ask \in asks' : ask.epoch <= rend'.epoch /\ ask.epoch # rend'.epoch
  BY <1>1, <1>2, <1>3
<1>5. SamePlacement' /\ MarginIsTended'
  BY <1>2, <1>4 DEF SamePlacement, MarginIsTended
<1>6. Connected'
  BY <1>2 DEF OverlayInv, Connected
<1>7. QED
  BY <1>2, <1>5, <1>6

\* A query for the pointer's place leaves a window that is active and not there yet.
LEMMA QueryKeeps ==
  ASSUME OverlayInv, NEW r \in RendRecords, NEW w \in WinRecords, NEW position \in Positions,
         position.kind = "cursor", ~w.visible,
         asks' = asks \cup {[epoch |-> r.epoch, position |-> position]},
         rend' = r, win' = w, posted' = posted,
         r.generation = rend.generation, r.restore = rend.restore,
         r.active, r.loaded, ~r.gridActive, r.position = position,
         ctrl'.visible, ctrl'.position = position, ctrl'.label = r.label,
         \A ask \in asks : ask.epoch \in Nat /\ ask.epoch < r.epoch
  PROVE  SamePlacement' /\ Connected' /\ MarginIsTended'
<1>1. r.epoch \in Nat
  BY DEF RendRecords
<1>2. \A ask \in asks' : \/ ask.epoch <= r.epoch /\ ask.epoch # r.epoch
                         \/ ask.epoch = r.epoch /\ ask.position = position
  BY <1>1
<1>3. \A ask \in asks' : ask.epoch <= r.epoch
  BY <1>1, <1>2
<1>4. SamePlacement'
  BY <1>2, <1>3 DEF SamePlacement
<1>5. Connected' /\ MarginIsTended'
  BY DEF OverlayInv, Connected, MarginIsTended
<1>6. QED
  BY <1>4, <1>5

\* syncToController when there is another overlay to show.
LEMMA NewWindowKeeps ==
  ASSUME OverlayInv, NEW c \in CtrlRecords, c.visible, posted' = posted,
         ctrl' = [c EXCEPT !.placed = FALSE],
         LET r == HideWindow(rend)
         IN  Reveal([r EXCEPT !.loaded = TRUE, !.position = c.position, !.label = c.label,
                              !.active = TRUE, !.epoch = @ + 1],
                    WindowHidden(win), c.position)
  PROVE  /\ SamePlacement' /\ Connected' /\ MarginIsTended'
         /\ ctrl' \in CtrlRecords /\ rend' \in RendRecords /\ win' \in WinRecords
         /\ frameDue' \in BOOLEAN
         /\ \A ask \in asks' : ask.epoch \in Nat /\ ask.position \in Positions
<1> DEFINE h == HideWindow(rend)
           r == [h EXCEPT !.loaded = TRUE, !.position = c.position, !.label = c.label,
                          !.active = TRUE, !.epoch = @ + 1]
           w == WindowHidden(win)
           p == c.position
<1>1. /\ rend \in RendRecords /\ win \in WinRecords /\ rend.epoch \in Nat
      /\ activeOutput \in Outputs
      /\ \A ask \in asks : ask.epoch \in Nat /\ ask.position \in Positions
  BY TypedRecords DEF RendRecords
<1>2. Reveal(r, w, p)
  OBVIOUS
<1>3. /\ p \in Positions /\ c.label \in BOOLEAN /\ ctrl' \in CtrlRecords
      /\ ctrl'.visible /\ ctrl'.position = p /\ ctrl'.label = c.label /\ ~ctrl'.placed
  BY DEF CtrlRecords
<1>4. h \in RendRecords /\ h.epoch = rend.epoch + 1 /\ h.generation = rend.generation
      /\ h.restore = rend.restore /\ ~h.gridActive
  <2>1. rend.epoch + 1 \in Nat
    BY <1>1
  <2>2. QED
    BY <1>1, <2>1 DEF HideWindow, RendRecords
<1>5. w \in WinRecords /\ ~w.visible
  BY <1>1 DEF WindowHidden, WinRecords
<1> HIDE DEF h, w
<1>6. /\ r \in RendRecords /\ r.epoch = h.epoch + 1 /\ r.generation = rend.generation
      /\ r.restore = rend.restore /\ r.loaded /\ r.active /\ ~r.gridActive /\ r.position = p
      /\ r.label = c.label
  <2>1. h.epoch + 1 \in Nat
    BY <1>1, <1>4
  <2>2. r \in RendRecords
    BY <1>3, <1>4, <2>1 DEF RendRecords
  <2>3. QED
    BY <1>4, <2>2 DEF RendRecords
<1> HIDE DEF r, p
<1>7. r.epoch \in Nat /\ \A ask \in asks : ask.epoch \in Nat /\ ask.epoch < r.epoch
  BY <1>1, <1>4, <1>6 DEF OverlayInv, SamePlacement
<1>8. CASE Revealed(r, w, p) /\ asks' = asks
  <2>1. SamePlacement' /\ Connected' /\ MarginIsTended'
    BY <1>3, <1>6, <1>7, <1>8, RevealKeeps
  <2>2. QED
    BY <1>1, <1>3, <1>8, <2>1 DEF Revealed
<1>9. CASE /\ p.kind = "cursor"
           /\ asks' = asks \cup {[epoch |-> r.epoch, position |-> p]}
           /\ rend' = r /\ win' = w /\ frameDue' = FALSE
  <2>1. SamePlacement' /\ Connected' /\ MarginIsTended'
    BY <1>3, <1>5, <1>6, <1>7, <1>9, QueryKeeps
  <2>2. \A ask \in asks' : ask.epoch \in Nat /\ ask.position \in Positions
    BY <1>1, <1>3, <1>7, <1>9
  <2>3. QED
    BY <1>3, <1>5, <1>6, <1>9, <2>1, <2>2
<1>10. p.kind \in {"grid", "caret", "cursor"}
  BY <1>3, OverlayAssumption
<1>11. CASE p.kind = "grid"
  BY <1>1, <1>2, <1>3, <1>5, <1>6, <1>8, <1>11, GridReveals DEF Reveal
<1>12. CASE p.kind = "caret"
  BY <1>1, <1>2, <1>3, <1>5, <1>6, <1>8, <1>12, GridReveals, PinnedReveals DEF Reveal
<1>13. CASE p.kind = "cursor"
  BY <1>2, <1>9, <1>13 DEF Reveal
<1>14. QED
  BY <1>10, <1>11, <1>12, <1>13

\* syncToController, whatever the controller has become.
LEMMA SyncKeeps ==
  ASSUME OverlayInv, NEW c \in CtrlRecords, c.placed = ctrl.placed,
         SyncToController(c), mail' \in Seq(Messages), UNCHANGED Others
  PROVE  OverlayInv'
<1>1. /\ rend \in RendRecords /\ win \in WinRecords /\ frameDue \in BOOLEAN
      /\ posted \in Seq(Nat) /\ activeOutput \in Outputs
      /\ \A ask \in asks : ask.epoch \in Nat /\ ask.position \in Positions
  BY TypedRecords
<1>2. posted' \in Seq(Nat) /\ activeOutput' \in Outputs /\ posted' = posted
  BY <1>1 DEF Others
<1> DEFINE Kept == /\ SamePlacement' /\ Connected' /\ MarginIsTended'
                   /\ ctrl' \in CtrlRecords /\ rend' \in RendRecords /\ win' \in WinRecords
                   /\ frameDue' \in BOOLEAN
                   /\ \A ask \in asks' : ask.epoch \in Nat /\ ask.position \in Positions
<1>3. ASSUME DecideRenderAction(c) = "None", ctrl' = c, UNCHANGED <<win, asks>>,
             IF c.animate THEN UNCHANGED <<rend, frameDue>>
                          ELSE rend' = Armed(rend) /\ RequestUpdate(c # ctrl)
      PROVE  Kept
  <2>1. /\ SamePlacement' /\ Connected' /\ MarginIsTended'
        /\ rend' \in RendRecords /\ frameDue' \in BOOLEAN
    BY <1>2, <1>3, SameWindowKeeps
  <2>2. QED
    BY <1>1, <1>3, <2>1
<1>4. ASSUME rend' = HideWindow(rend), win' = WindowHidden(win), frameDue' = FALSE,
             UNCHANGED asks, ctrl' = c
      PROVE  Kept
  <2>1. /\ SamePlacement' /\ Connected' /\ MarginIsTended'
        /\ rend' \in RendRecords /\ win' \in WinRecords
    BY <1>2, <1>4, HideKeeps
  <2>2. QED
    BY <1>1, <1>4, <2>1
<1>5. ASSUME DecideRenderAction(c) = "Show", ~rend.loaded, ctrl' = c,
             UNCHANGED <<rend, win, frameDue, asks>>
      PROVE  Kept
  <2>1. ~rend.active /\ ~win.visible
    BY <1>5 DEF OverlayInv, SamePlacement
  <2>2. CallIsPosted' = CallIsPosted
    BY <1>2, <1>5 DEF CallIsPosted
  <2>3. SamePlacement' /\ MarginIsTended'
    BY <1>5, <2>1 DEF OverlayInv, SamePlacement, MarginIsTended
  <2>4. Connected'
    BY <1>2, <1>5, <2>1 DEF OverlayInv, Connected
  <2>5. QED
    BY <1>1, <1>5, <2>3, <2>4
<1>6. ASSUME DecideRenderAction(c) = "Show", ctrl' = [c EXCEPT !.placed = FALSE],
             LET r == HideWindow(rend)
             IN  Reveal([r EXCEPT !.loaded = TRUE, !.position = c.position,
                                  !.label = c.label, !.active = TRUE, !.epoch = @ + 1],
                        WindowHidden(win), c.position)
      PROVE  Kept
  <2>1. c.visible
    BY <1>6 DEF DecideRenderAction
  <2>2. QED
    BY <1>2, <1>6, <2>1, NewWindowKeeps
<1>7. Kept
  BY <1>3, <1>4, <1>5, <1>6 DEF SyncToController
<1>8. OverlayTyped'
  BY <1>2, <1>7 DEF OverlayTyped, OverlayTypeOK, CtrlRecords, RendRecords, WinRecords
<1>9. QED
  BY <1>7, <1>8 DEF OverlayInv

\* The message that is read, and those that are left.
LEMMA MailTaken ==
  ASSUME OverlayInv, NEW kind, TakeMail(kind)
  PROVE  Head(mail) \in Messages /\ Head(mail).kind = kind /\ mail' \in Seq(Messages)
<1>1. mail \in Seq(Messages) /\ mail # <<>>
  BY TypedRecords DEF TakeMail
<1>2. QED
  BY <1>1, HeadTailProperties DEF TakeMail

LEMMA OnShowKeeps ==
  ASSUME OverlayInv, OnShow
  PROVE  OverlayInv'
<1> DEFINE m == Head(mail)
<1>1. /\ m \in Messages /\ m.kind = "Show" /\ mail' \in Seq(Messages)
  BY MailTaken DEF OnShow
<1>2. /\ m.variants \in Variants \cup {TheName} /\ m.index \in {kNoHighlightIndex, 1}
      /\ m.position \in Positions /\ m.label \in BOOLEAN
  BY <1>1 DEF Messages
<1>3. ctrl \in CtrlRecords
  BY TypedRecords
<1> HIDE DEF m
<1>4. Shown(m) \in CtrlRecords /\ Shown(m).placed = ctrl.placed
  <2>1. (ctrl.animate /\ ~ShowSnapsTransitions(m)) \in BOOLEAN
    OBVIOUS
  <2>2. QED
    BY <2>1, <1>2, <1>3 DEF Shown, CtrlRecords
<1>5. QED
  BY <1>1, <1>4, SyncKeeps DEF OnShow, m

LEMMA OnHideKeeps ==
  ASSUME OverlayInv, OnHide
  PROVE  OverlayInv'
<1>1. mail' \in Seq(Messages)
  BY MailTaken DEF OnHide
<1>2. Hidden \in CtrlRecords /\ Hidden.placed = ctrl.placed
  BY TypedRecords DEF Hidden, CtrlRecords
<1>3. QED
  BY <1>1, <1>2, SyncKeeps DEF OnHide

\* What moves neither window nor calls: the controller's transitions, the messages and
\* the compositor's choice of an output.
LEMMA StillKeeps ==
  ASSUME OverlayInv, UNCHANGED <<rend, win, posted, asks>>,
         ctrl' = ctrl \/ ctrl' = [ctrl EXCEPT !.animate = FALSE],
         frameDue' \in BOOLEAN, frameDue => frameDue',
         mail' \in Seq(Messages), activeOutput' \in Outputs
  PROVE  OverlayInv'
<1>1. /\ ctrl' \in CtrlRecords /\ ctrl'.visible = ctrl.visible
      /\ ctrl'.position = ctrl.position /\ ctrl'.label = ctrl.label
      /\ ctrl'.placed = ctrl.placed
  BY TypedRecords DEF CtrlRecords
<1>2. CallIsPosted' = CallIsPosted
  BY DEF CallIsPosted
<1>3. OverlayTyped'
  BY <1>1, TypedRecords DEF OverlayTyped, OverlayTypeOK, CtrlRecords, RendRecords, WinRecords
<1>4. SamePlacement'
  BY <1>1 DEF OverlayInv, SamePlacement
<1>5. Connected'
  BY <1>1, <1>2 DEF OverlayInv, Connected
<1>6. MarginIsTended'
  BY <1>2 DEF OverlayInv, MarginIsTended
<1>7. QED
  BY <1>3, <1>4, <1>5, <1>6 DEF OverlayInv

LEMMA OnSetProgressKeeps ==
  ASSUME OverlayInv, OnSetProgress
  PROVE  OverlayInv'
<1>1. mail' \in Seq(Messages)
  BY MailTaken DEF OnSetProgress
<1>2. win.visible \in BOOLEAN /\ frameDue \in BOOLEAN /\ activeOutput \in Outputs
  BY TypedRecords DEF WinRecords
<1>3. QED
  BY <1>1, <1>2, StillKeeps DEF OnSetProgress, Others

\* What the engine sends.
LEMMA SendKeeps ==
  ASSUME OverlayInv, NEW messages \in Seq(Messages), Send(messages)
  PROVE  OverlayInv'
<1>1. mail' \in Seq(Messages)
  BY TypedRecords, ConcatProperties DEF Send
<1>2. QED
  BY <1>1, TypedRecords, StillKeeps DEF Send

LEMMA EngineSendsKeep ==
  ASSUME OverlayInv,
         \/ \E v \in Variants, p \in Positions, bar \in BOOLEAN : SendGesture(v, p, bar)
         \/ \E v \in Variants, p \in Positions : SendStep(v, p)
         \/ \E p \in Positions : SendProfileName(p)
         \/ SendHide
  PROVE  OverlayInv'
<1>1. Bare("Hide") \in Messages /\ Bare("SetProgress") \in Messages
  BY DEF Bare, Messages
<1>2. ASSUME NEW v \in Variants \cup {TheName}, NEW i \in {kNoHighlightIndex, 1},
             NEW p \in Positions, NEW label \in BOOLEAN
      PROVE  ShowMsg(v, i, p, label) \in Messages
  BY DEF ShowMsg, Messages
<1>3. ASSUME NEW m \in Messages
      PROVE  <<m>> \in Seq(Messages) /\ <<>> \o <<m>> \in Seq(Messages)
  BY EmptySeq, ConcatProperties
<1>4. ASSUME NEW v \in Variants, NEW p \in Positions, NEW bar \in BOOLEAN,
             SendGesture(v, p, bar)
      PROVE  OverlayInv'
  <2> DEFINE first == IF bar THEN <<Bare("SetProgress")>> ELSE <<>>
             shown == <<ShowMsg(v, kNoHighlightIndex, p, FALSE)>>
  <2>1. first \in Seq(Messages) /\ shown \in Seq(Messages)
    BY <1>1, <1>2, <1>3, EmptySeq
  <2>2. Send(first \o shown)
    BY <1>4 DEF SendGesture
  <2> HIDE DEF first, shown
  <2>3. first \o shown \in Seq(Messages)
    BY <2>1, ConcatProperties
  <2>4. QED
    BY <2>2, <2>3, SendKeeps
<1>5. ASSUME NEW v \in Variants, NEW p \in Positions, SendStep(v, p)
      PROVE  OverlayInv'
  BY <1>2, <1>3, <1>5, SendKeeps DEF SendStep
<1>6. ASSUME NEW p \in Positions, SendProfileName(p)
      PROVE  OverlayInv'
  BY <1>2, <1>3, <1>6, SendKeeps DEF SendProfileName
<1>7. CASE SendHide
  BY <1>1, <1>3, <1>7, SendKeeps DEF SendHide
<1>8. QED
  BY <1>4, <1>5, <1>6, <1>7

\* The answer of a query: that of an earlier overlay moves nothing.
LEMMA OnCursorKeeps ==
  ASSUME OverlayInv, NEW ask \in asks, OnCursor(ask)
  PROVE  OverlayInv'
<1>1. /\ ctrl \in CtrlRecords /\ rend \in RendRecords /\ win \in WinRecords
      /\ frameDue \in BOOLEAN /\ posted \in Seq(Nat) /\ mail \in Seq(Messages)
      /\ activeOutput \in Outputs
      /\ \A a \in asks : a.epoch \in Nat /\ a.position \in Positions
  BY TypedRecords
<1>2. /\ UNCHANGED <<ctrl, mail, posted, activeOutput>> /\ asks' = asks \ {ask}
  BY DEF OnCursor, Others
<1>3. CASE UNCHANGED <<rend, win, frameDue>>
  <2>1. CallIsPosted' = CallIsPosted
    BY <1>2, <1>3 DEF CallIsPosted
  <2>2. OverlayTyped'
    BY <1>1, <1>2, <1>3 DEF OverlayTyped, OverlayTypeOK, CtrlRecords, RendRecords, WinRecords
  <2>3. SamePlacement'
    BY <1>2, <1>3 DEF OverlayInv, SamePlacement
  <2>4. Connected' /\ MarginIsTended'
    BY <1>2, <1>3, <2>1 DEF OverlayInv, Connected, MarginIsTended
  <2>5. QED
    BY <2>2, <2>3, <2>4 DEF OverlayInv
<1>4. CASE /\ ask.epoch = rend.epoch
           /\ \/ RevealGrid(rend, win, ask.position)
              \/ \E o \in Outputs : PlacePinned(rend, win, ask.position, o)
  <2>1. Revealed(rend, win, ask.position)
    BY <1>1, <1>4, GridReveals, PinnedReveals
  <2>2. /\ rend.active /\ ask.position = rend.position /\ rend.position.kind = "cursor"
        /\ ctrl.visible /\ rend.loaded
        /\ ctrl.position = rend.position /\ ctrl.label = rend.label
    BY <1>4 DEF OverlayInv, SamePlacement
  <2>3. rend'.generation = rend.generation + 1 /\ rend'.restore = rend.generation + 1
    BY <2>1 DEF Revealed, Reconnected
  <2>4. ~CallIsPosted' /\ \A i \in 1 .. Len(posted') : posted'[i] \in 1 .. rend'.generation
    BY <1>2, <2>3, NotPostedYet
  <2>5. SamePlacement'
    BY <1>2, <2>1, <2>2 DEF Revealed, Reconnected, OverlayInv, SamePlacement
  <2>6. Connected'
    BY <1>2, <2>1, <2>2, <2>3, <2>4 DEF Revealed, Reconnected, Connected
  <2>7. rend'.restore # NoConnection
    BY <1>1, <2>3 DEF RendRecords, NoConnection
  <2>8. MarginIsTended'
    BY <2>1, <2>7 DEF Revealed, MarginIsTended
  <2>9. OverlayTyped'
    BY <1>1, <1>2, <2>1
       DEF Revealed, OverlayTyped, OverlayTypeOK, CtrlRecords, RendRecords, WinRecords
  <2>10. QED
    BY <2>5, <2>6, <2>8, <2>9 DEF OverlayInv
<1>5. QED
  BY <1>3, <1>4 DEF OnCursor, IsEpochCurrent

\* The render thread draws: the call of a connection is posted.
LEMMA DrawFrameKeeps ==
  ASSUME OverlayInv, DrawFrame
  PROVE  OverlayInv'
<1>1. /\ ctrl \in CtrlRecords /\ rend \in RendRecords /\ win \in WinRecords
      /\ posted \in Seq(Nat) /\ mail \in Seq(Messages) /\ activeOutput \in Outputs
      /\ rend.restore \in Nat /\ rend.generation \in Nat
      /\ \A a \in asks : a.epoch \in Nat /\ a.position \in Positions
  BY TypedRecords DEF RendRecords
<1>2. UNCHANGED <<ctrl, rend, asks, mail, activeOutput>> /\ frameDue' = FALSE
  BY DEF DrawFrame
<1>3. /\ win' \in WinRecords /\ win'.visible = win.visible /\ win'.drawn
      /\ win'.epoch = win.epoch /\ win'.spot = win.spot /\ win'.screen = win.screen
      /\ win'.output = win.output /\ win'.margin = win.margin
      /\ win'.provisional = win.provisional
  BY <1>1 DEF DrawFrame, WinRecords
<1>4. CASE rend.restore = NoConnection /\ posted' = posted
  <2>1. CallIsPosted' = CallIsPosted
    BY <1>2, <1>4 DEF CallIsPosted
  <2>2. SamePlacement'
    BY <1>2, <1>3 DEF OverlayInv, SamePlacement
  <2>3. Connected'
    BY <1>2, <1>3, <1>4 DEF OverlayInv, Connected
  <2>4. MarginIsTended'
    BY <1>2, <1>3, <1>4, <2>1 DEF OverlayInv, MarginIsTended
  <2>5. posted' \in Seq(Nat) /\ frameDue' \in BOOLEAN
    BY <1>1, <1>2, <1>4
  <2>6. OverlayTyped'
    BY <1>1, <1>2, <1>3, <2>5
       DEF OverlayTyped, OverlayTypeOK, CtrlRecords, RendRecords, WinRecords
  <2>7. QED
    BY <2>2, <2>3, <2>4, <2>6 DEF OverlayInv
<1>5. CASE rend.restore # NoConnection /\ posted' = Append(posted, rend.restore)
  <2>1. /\ posted' \in Seq(Nat) /\ Len(posted') = Len(posted) + 1
        /\ \A i \in 1 .. Len(posted) : posted'[i] = posted[i]
        /\ posted'[Len(posted) + 1] = rend.restore
    BY <1>1, <1>5, AppendProperties
  <2>2. Len(posted) \in Nat
    BY <1>1, LenProperties
  <2>3. rend.restore = rend.generation /\ rend.generation \in 1 .. rend.generation
    BY <1>1, <1>5 DEF OverlayInv, Connected, NoConnection
  <2>4. CallIsPosted'
    BY <1>2, <2>1, <2>2, <2>3 DEF CallIsPosted
  <2>5. \A i \in 1 .. Len(posted') : posted'[i] \in 1 .. rend.generation
    BY <2>1, <2>2, <2>3 DEF OverlayInv, Connected
  <2>6. SamePlacement'
    BY <1>2, <1>3 DEF OverlayInv, SamePlacement
  <2>7. Connected'
    BY <1>2, <1>3, <2>5 DEF OverlayInv, Connected
  <2>8. MarginIsTended'
    BY <1>2, <1>3, <2>4 DEF OverlayInv, MarginIsTended
  <2>9. posted' \in Seq(Nat) /\ frameDue' \in BOOLEAN
    BY <1>2, <2>1
  <2>10. OverlayTyped'
    BY <1>1, <1>2, <1>3, <2>9
       DEF OverlayTyped, OverlayTypeOK, CtrlRecords, RendRecords, WinRecords
  <2>11. QED
    BY <2>6, <2>7, <2>8, <2>10 DEF OverlayInv
<1>6. QED
  BY <1>4, <1>5 DEF DrawFrame

\* The posted call is served.
LEMMA OnFrameSwappedKeeps ==
  ASSUME OverlayInv, OnFrameSwapped
  PROVE  OverlayInv'
<1>1. /\ ctrl \in CtrlRecords /\ rend \in RendRecords /\ win \in WinRecords
      /\ posted \in Seq(Nat) /\ mail \in Seq(Messages) /\ activeOutput \in Outputs
      /\ frameDue \in BOOLEAN /\ posted # <<>>
      /\ \A a \in asks : a.epoch \in Nat /\ a.position \in Positions
  BY TypedRecords DEF OnFrameSwapped
<1>2. UNCHANGED <<asks, mail, activeOutput>> /\ posted' = Tail(posted)
  BY DEF OnFrameSwapped
<1>3. /\ posted' \in Seq(Nat) /\ Len(posted') = Len(posted) - 1
      /\ \A i \in 1 .. Len(posted') : posted'[i] = posted[i + 1]
      /\ Head(posted) = posted[1] /\ Len(posted) \in Nat \ {0}
  BY <1>1, <1>2, HeadTailProperties, LenProperties, EmptySeq
<1>4. \A i \in 1 .. Len(posted') : i + 1 \in 1 .. Len(posted)
  BY <1>3
<1>5. \A i \in 1 .. Len(posted') : posted'[i] \in 1 .. rend.generation
  BY <1>3, <1>4 DEF OverlayInv, Connected
<1>6. rend'.generation = rend.generation => (CallIsPosted' => CallIsPosted)
  BY <1>3, <1>4 DEF CallIsPosted
<1>7. CASE ~IsGeneration(Head(posted)) /\ UNCHANGED <<rend, win, ctrl, frameDue>>
  <2>1. CallIsPosted => CallIsPosted'
    <3> SUFFICES ASSUME NEW i \in 1 .. Len(posted), posted[i] = rend.generation
                 PROVE  CallIsPosted'
      BY DEF CallIsPosted
    <3>1. i # 1
      BY <1>3, <1>7 DEF IsGeneration
    <3>2. i - 1 \in 1 .. Len(posted') /\ posted'[i - 1] = posted[i]
      <4>1. i - 1 \in 1 .. Len(posted') /\ (i - 1) + 1 = i
        BY <3>1, <1>3
      <4>2. QED
        BY <4>1, <1>3
    <3>3. QED
      BY <3>2, <1>7 DEF CallIsPosted
  <2>2. SamePlacement'
    BY <1>2, <1>7 DEF OverlayInv, SamePlacement
  <2>3. Connected'
    BY <1>5, <1>6, <1>7 DEF OverlayInv, Connected
  <2>4. MarginIsTended'
    BY <1>7, <2>1 DEF OverlayInv, MarginIsTended
  <2>5. OverlayTyped'
    BY <1>1, <1>2, <1>3, <1>7
       DEF OverlayTyped, OverlayTypeOK, CtrlRecords, RendRecords, WinRecords
  <2>6. QED
    BY <2>2, <2>3, <2>4, <2>5 DEF OverlayInv
<1>8. CASE IsGeneration(Head(posted))
  <2> DEFINE real == rend.pendingRealMargin /\ rend.gridActive
  <2>1. CallIsPosted
    BY <1>3, <1>8 DEF IsGeneration, CallIsPosted
  <2>2. /\ rend' = [rend EXCEPT !.restore = NoConnection,
                                !.pendingRealMargin = @ /\ ~real]
        /\ win' = IF real THEN ApplyGridAnchors(win, rend.lastGrid, FALSE) ELSE win
        /\ ctrl' = [ctrl EXCEPT !.placed = TRUE, !.animate = TRUE]
        /\ frameDue' = win.visible
    BY <1>8 DEF OnFrameSwapped
  <2>3. /\ rend' \in RendRecords /\ rend'.restore = NoConnection
        /\ rend'.loaded = rend.loaded /\ rend'.active = rend.active
        /\ rend'.epoch = rend.epoch /\ rend'.position = rend.position
        /\ rend'.label = rend.label /\ rend'.gridActive = rend.gridActive
        /\ rend'.lastGrid = rend.lastGrid /\ rend'.generation = rend.generation
    <3>1. NoConnection \in Nat /\ (rend.pendingRealMargin /\ ~real) \in BOOLEAN
      BY <1>1 DEF NoConnection, RendRecords
    <3>2. QED
      BY <1>1, <2>2, <3>1 DEF RendRecords
  <2>4. /\ ctrl' \in CtrlRecords /\ ctrl'.visible = ctrl.visible
        /\ ctrl'.position = ctrl.position /\ ctrl'.label = ctrl.label
    BY <1>1, <2>2 DEF CtrlRecords
  <2>5. /\ win' \in WinRecords /\ win'.visible = win.visible /\ win'.epoch = win.epoch
        /\ win'.screen = win.screen /\ win'.output = win.output
        /\ win'.drawn = win.drawn
        /\ win'.margin = IF real THEN win.screen ELSE win.margin
        /\ win'.provisional = IF real THEN FALSE ELSE win.provisional
        /\ win'.spot = IF real THEN rend.lastGrid ELSE win.spot
    <3>1. rend.lastGrid \in PositionSet /\ win.screen \in Outputs
      BY <1>1 DEF RendRecords, WinRecords
    <3>2. QED
      BY <1>1, <2>2, <3>1 DEF ApplyGridAnchors, WinRecords
  <2> HIDE DEF real
  <2>6. win.visible => win.drawn /\ ~win'.provisional
    BY <2>1, <2>5 DEF OverlayInv, Connected, MarginIsTended, real
  <2>7. SamePlacement'
    <3>1. real => rend.lastGrid = Gr(rend.position)
      BY DEF OverlayInv, SamePlacement, real
    <3>2. QED
      BY <1>2, <2>3, <2>4, <2>5, <3>1 DEF OverlayInv, SamePlacement
  <2>8. Connected'
    BY <1>5, <1>6, <2>3, <2>5, <2>6 DEF OverlayInv, Connected
  <2>9. MarginIsTended'
    BY <2>3, <2>5, <2>6 DEF OverlayInv, MarginIsTended
  <2>10. frameDue' \in BOOLEAN
    BY <1>1, <2>2 DEF WinRecords
  <2>11. OverlayTyped'
    BY <1>1, <1>2, <1>3, <2>3, <2>4, <2>5, <2>10
       DEF OverlayTyped, OverlayTypeOK, CtrlRecords, RendRecords, WinRecords
  <2>12. QED
    BY <2>7, <2>8, <2>9, <2>11 DEF OverlayInv
<1>9. QED
  BY <1>7, <1>8 DEF OnFrameSwapped

\* The window learns its output.
LEMMA OnScreenChangedKeeps ==
  ASSUME OverlayInv, OnScreenChanged
  PROVE  OverlayInv'
<1>1. /\ ctrl \in CtrlRecords /\ rend \in RendRecords /\ win \in WinRecords
      /\ posted \in Seq(Nat) /\ mail \in Seq(Messages) /\ activeOutput \in Outputs
      /\ frameDue \in BOOLEAN
      /\ \A a \in asks : a.epoch \in Nat /\ a.position \in Positions
  BY TypedRecords
<1>2. UNCHANGED <<ctrl, asks, mail, activeOutput, posted, frameDue>>
  BY DEF OnScreenChanged
<1>3. /\ win.visible /\ rend.active /\ rend.gridActive
      /\ rend.lastGrid = Gr(rend.position) /\ rend.lastGrid \in PositionSet
  BY <1>1 DEF OnScreenChanged, OverlayInv, SamePlacement, MarginIsTended, RendRecords
<1>4. /\ win' = ApplyGridAnchors([win EXCEPT !.screen = win.output], rend.lastGrid, FALSE)
      /\ rend' = [rend EXCEPT !.pendingRealMargin = FALSE]
  BY <1>3 DEF OnScreenChanged
<1>5. /\ rend' \in RendRecords /\ rend'.restore = rend.restore
      /\ rend'.loaded = rend.loaded /\ rend'.active = rend.active
      /\ rend'.epoch = rend.epoch /\ rend'.position = rend.position
      /\ rend'.label = rend.label /\ rend'.gridActive = rend.gridActive
      /\ rend'.lastGrid = rend.lastGrid /\ rend'.generation = rend.generation
  BY <1>1, <1>4 DEF RendRecords
<1>6. /\ win' \in WinRecords /\ win'.visible = win.visible /\ win'.epoch = win.epoch
      /\ win'.drawn = win.drawn /\ win'.spot = rend.lastGrid
      /\ win'.margin = win'.screen /\ ~win'.provisional
  BY <1>1, <1>3, <1>4 DEF ApplyGridAnchors, WinRecords
<1>7. CallIsPosted' = CallIsPosted
  BY <1>2, <1>5 DEF CallIsPosted
<1>8. SamePlacement'
  BY <1>2, <1>3, <1>5, <1>6 DEF OverlayInv, SamePlacement
<1>9. Connected'
  BY <1>2, <1>5, <1>6, <1>7 DEF OverlayInv, Connected
<1>10. MarginIsTended'
  BY <1>3, <1>5, <1>6 DEF MarginIsTended
<1>11. OverlayTyped'
  BY <1>1, <1>2, <1>5, <1>6
     DEF OverlayTyped, OverlayTypeOK, CtrlRecords, RendRecords, WinRecords
<1>12. QED
  BY <1>8, <1>9, <1>10, <1>11 DEF OverlayInv

LEMMA OverlayKeeps ==
  ASSUME OverlayInv, [OverlayNext]_overlayVars
  PROVE  OverlayInv'
<1>1. ASSUME NEW o \in Outputs, MoveToOutput(o) PROVE OverlayInv'
  BY <1>1, TypedRecords, StillKeeps DEF MoveToOutput
<1>2. CASE UNCHANGED overlayVars
  BY <1>2, TypedRecords, StillKeeps DEF overlayVars
<1>3. ASSUME NEW ask \in asks, OnCursor(ask) PROVE OverlayInv'
  BY <1>3, OnCursorKeeps
<1>4. QED
  BY <1>1, <1>2, <1>3, EngineSendsKeep, OnShowKeeps, OnHideKeeps, OnSetProgressKeeps,
     OnFrameSwappedKeeps, DrawFrameKeeps, OnScreenChangedKeeps
     DEF OverlayNext, EventLoopRuns, CompositorRuns

\* For all lists of variants, positions and outputs, whatever answers, frames and calls
\* of earlier overlays are still on their way: the window on the screen was placed for
\* the overlay shown now, is revealed at its final margin unless its place was asked
\* for, and settles at the margin of its output (main.cpp 349-423, 564-709).
THEOREM WindowStaysCurrent == OverlaySpec => []WindowIsCurrent
<1>1. OverlayInv /\ [OverlayNext]_overlayVars => OverlayInv'
  BY OverlayKeeps
<1>2. QED
  BY <1>1, OverlayStarts, OverlayInvSuffices, PTL DEF OverlaySpec

\* The controller, the renderer and the window keep their types.
THEOREM OverlayTypeCorrect == OverlaySpec => []OverlayTypeOK
<1>1. OverlayInv /\ [OverlayNext]_overlayVars => OverlayInv'
  BY OverlayKeeps
<1>2. OverlayInv => OverlayTypeOK
  BY DEF OverlayInv, OverlayTyped
<1>3. QED
  BY <1>1, <1>2, OverlayStarts, PTL DEF OverlaySpec

-----------------------------------------------------------------------------
\* The tray.
\*
\* Every set of numbers that is not empty has a least one.
LEMMA NatMin ==
  ASSUME NEW T \in SUBSET Nat, T # {}
  PROVE  \E n \in T : \A m \in T : n <= m
<1>1. IsWellFoundedOn(OpToRel(<, Nat), Nat)
  BY NatLessThanWellFounded
<1>2. T \subseteq Nat
  OBVIOUS
<1> DEFINE R == OpToRel(<, Nat)
<1>3. IsWellFoundedOn(R, Nat)
  BY <1>1
<1>4. \A x, y \in T : x < y => <<x, y>> \in R
  BY DEF OpToRel
<1> HIDE DEF R
<1>5. PICK n \in T : \A m \in T : ~(<<m, n>> \in R)
  BY <1>2, <1>3, WFMin
<1>6. \A m \in T : ~(m < n)
  BY <1>4, <1>5
<1>7. \A m \in T : n <= m
  BY <1>6, <1>2
<1>8. QED
  BY <1>7

-----------------------------------------------------------------------------
\* The tray.
Methods == {"GetPaused", "Toggle", "Quit"}
Processes ==
  [state: {"absent", "starting", "up", "exited"}, managed: BOOLEAN, control: BOOLEAN,
   grabs: BOOLEAN, hung: BOOLEAN, term: BOOLEAN, paused: BOOLEAN, calls: Seq(Methods)]
Notes == [kind: {"reply", "error", "PausedChanged"}, paused: BOOLEAN]

\* What is on the bus: one engine at most has the name, and only it is called.
OneName(ps) ==
  /\ ps \in [Engines -> Processes]
  /\ \A e, f \in Engines : ps[e].control /\ ps[f].control => e = f
  /\ \A e \in Engines :
       /\ ps[e].control => ps[e].state = "up"
       /\ ps[e].calls # <<>> => ps[e].control

\* The engine the chain has asked to go has the name until it is gone.
ChainKnows ==
  /\ "stage" \in DOMAIN restart
  /\ restart.stage \in {"quit", "term"} =>
       /\ restart.pid \in Engines
       /\ engine[restart.pid].state # "absent"
       /\ Alive(restart.pid) => engine[restart.pid].control

\* A label says what the bus knows.
IsTrue(ps, available, paused) ==
  /\ available \in BOOLEAN
  /\ available = \E e \in Engines : ps[e].control
  /\ \A e \in Engines : ps[e].control => paused = ps[e].paused

\* The last word: what the tray will show when everything under way has arrived.
LastWord(ps, box, label) ==
  IF box = <<>> THEN IsTrue(ps, label.available, label.paused)
  ELSE IsTrue(ps, box[Len(box)].kind # "error", box[Len(box)].paused)

Asked(r) == \E i \in DOMAIN r.calls : r.calls[i] = "GetPaused"

\* Once asked, a question is still open or the last word is true.
WordIsTrue ==
  asked => \/ \E e \in Engines : Asked(engine[e])
           \/ LastWord(engine, inbox, tray)

TrayTyped ==
  /\ inbox \in Seq(Notes)
  /\ asked \in BOOLEAN
  /\ tray \in [available: BOOLEAN, paused: BOOLEAN, mayRestart: BOOLEAN, mayQuit: BOOLEAN]

TrayInv == OneName(engine) /\ TrayTyped /\ ChainKnows /\ WordIsTrue

\* The engine with the name is the one the bus knows.
LEMMA OwnerIsKnown ==
  ASSUME OneName(engine)
  PROVE  /\ engineOnBus = \E e \in Engines : engine[e].control
         /\ \A e \in Engines : engine[e].control => engineOnBus /\ Owner = e
         /\ engineOnBus => Owner \in Engines /\ engine[Owner].control
<1>1. engineOnBus = \E e \in Engines : engine[e].control
  BY DEF engineOnBus, Owners
<1>2. ASSUME engineOnBus PROVE Owner \in Engines /\ engine[Owner].control
  BY <1>2 DEF engineOnBus, Owner, Owners
<1>3. ASSUME NEW e \in Engines, engine[e].control PROVE engineOnBus /\ Owner = e
  <2>1. engineOnBus
    BY <1>1, <1>3
  <2>2. QED
    BY <2>1, <1>2, <1>3 DEF OneName
<1>4. QED
  BY <1>1, <1>2, <1>3

LEMMA TrayInvSuffices == TrayInv => LabelAgrees
<1> SUFFICES ASSUME TrayInv, asked, Quiet
             PROVE  /\ tray.available = engineOnBus
                    /\ engineOnBus => tray.paused = engine[Owner].paused
  BY DEF LabelAgrees
<1>1. ~\E e \in Engines : Asked(engine[e])
  BY DEF Quiet, Asking, Asked
<1>2. IsTrue(engine, tray.available, tray.paused)
  BY <1>1 DEF TrayInv, WordIsTrue, LastWord, Quiet
<1>3. QED
  BY <1>2, OwnerIsKnown DEF TrayInv, IsTrue, TrayTyped

\* The processes that were never started; the one that is next.
LEMMA NextIsFresh ==
  ASSUME Fresh # {}
  PROVE  NextEngine \in Fresh
<1>1. Fresh \in SUBSET Nat
  <2>1. ASSUME NEW n PROVE 1 .. n \subseteq Nat
    OBVIOUS
  <2>2. Engines \subseteq Nat
    BY <2>1, TrayAssumption
  <2>3. QED
    BY <2>2 DEF Fresh
<1>2. \E n \in Fresh : \A f \in Fresh : n <= f
  BY <1>1, NatMin
<1>3. QED
  BY <1>2 DEF NextEngine

\* What leaves the names and the pauses of their owners as they are.
NamesKept(ps, qs) ==
  \A e \in Engines : /\ qs[e].control = ps[e].control
                     /\ ps[e].control => qs[e].paused = ps[e].paused
QuestionsKept(ps, qs) == \A e \in Engines : Asked(ps[e]) => Asked(qs[e])

LEMMA LastWordKept ==
  ASSUME NEW ps, NEW qs, NamesKept(ps, qs), NEW box, NEW label, LastWord(ps, box, label)
  PROVE  LastWord(qs, box, label)
  BY DEF NamesKept, LastWord, IsTrue

LEMMA WordKept ==
  ASSUME WordIsTrue, NamesKept(engine, engine'), QuestionsKept(engine, engine'),
         asked' => asked, inbox' = inbox,
         tray'.available = tray.available, tray'.paused = tray.paused
  PROVE  WordIsTrue'
<1> SUFFICES ASSUME asked PROVE \/ \E e \in Engines : Asked(engine'[e])
                               \/ LastWord(engine', inbox', tray')
  BY DEF WordIsTrue
<1>1. CASE \E e \in Engines : Asked(engine[e])
  BY <1>1 DEF QuestionsKept
<1>2. CASE LastWord(engine, inbox, tray)
  <2>1. LastWord(engine, inbox', tray')
    BY <1>2 DEF LastWord
  <2>2. QED
    BY <2>1, LastWordKept
<1>3. QED
  BY <1>1, <1>2 DEF WordIsTrue

\* A chain that was told to wait for an engine already waits for it.
SameWait ==
  /\ DOMAIN restart' = DOMAIN restart
  /\ restart'.stage \in {"quit", "term"} =>
       restart.stage \in {"quit", "term"} /\ restart'.pid = restart.pid

\* A process changes flags that nobody else knows.
LEMMA FlagsKeep ==
  ASSUME OneName(engine), ChainKnows, NEW e \in Engines, NEW r \in Processes,
         r.state = engine[e].state, r.control = engine[e].control,
         r.paused = engine[e].paused, r.calls = engine[e].calls,
         engine' = [engine EXCEPT ![e] = r], SameWait
  PROVE  OneName(engine') /\ ChainKnows' /\ NamesKept(engine, engine')
         /\ QuestionsKept(engine, engine')
<1>1. /\ engine' \in [Engines -> Processes]
      /\ \A f \in Engines : engine'[f] = IF f = e THEN r ELSE engine[f]
  BY DEF OneName
<1>2. \A f \in Engines : /\ engine'[f].state = engine[f].state
                         /\ engine'[f].control = engine[f].control
                         /\ engine'[f].paused = engine[f].paused
                         /\ engine'[f].calls = engine[f].calls
  BY <1>1
<1>3. OneName(engine')
  BY <1>1, <1>2 DEF OneName
<1>4. ChainKnows'
  BY <1>2 DEF ChainKnows, Alive, SameWait
<1>5. NamesKept(engine, engine') /\ QuestionsKept(engine, engine')
  BY <1>2 DEF NamesKept, QuestionsKept, Asked
<1>6. QED
  BY <1>3, <1>4, <1>5

\* A process that was never started is started.
LEMMA LaunchKeeps ==
  ASSUME OneName(engine), ChainKnows, Fresh # {}, NEW managed \in BOOLEAN, NEW ps,
         ps = [engine EXCEPT ![NextEngine] = Launched(managed)]
  PROVE  /\ OneName(ps) /\ NamesKept(engine, ps) /\ QuestionsKept(engine, ps)
         /\ restart.stage \in {"quit", "term"} =>
              ps[restart.pid] = engine[restart.pid]
<1> DEFINE n == NextEngine
<1>1. n \in Engines /\ engine[n].state = "absent"
  BY NextIsFresh DEF Fresh
<1>2. /\ Launched(managed) \in Processes /\ Launched(managed).control = FALSE
      /\ Launched(managed).calls = <<>>
  BY EmptySeq DEF Launched, Absent, Processes
<1>3. engine[n].control = FALSE /\ engine[n].calls = <<>>
  <2>1. engine[n] \in Processes
    BY <1>1 DEF OneName
  <2>2. QED
    BY <1>1, <2>1 DEF OneName, Processes
<1> HIDE DEF n
<1>4. /\ ps \in [Engines -> Processes]
      /\ \A f \in Engines : ps[f] = IF f = n THEN Launched(managed) ELSE engine[f]
  BY <1>1, <1>2 DEF OneName, n
<1>5. OneName(ps)
  BY <1>2, <1>3, <1>4 DEF OneName
<1>6. NamesKept(engine, ps) /\ QuestionsKept(engine, ps)
  <2>1. ~Asked(engine[n])
    BY <1>3 DEF Asked
  <2>2. QED
    BY <1>2, <1>3, <1>4, <2>1 DEF NamesKept, QuestionsKept
<1>7. restart.stage \in {"quit", "term"} => ps[restart.pid] = engine[restart.pid]
  BY <1>1, <1>4 DEF ChainKnows
<1>8. QED
  BY <1>5, <1>6, <1>7

\* A call reaches the engine that has the name.
LEMMA CallKeeps ==
  ASSUME OneName(engine), NEW ps, OneName(ps), NamesKept(engine, ps),
         NEW method \in Methods, Call(method, ps)
  PROVE  /\ OneName(engine') /\ NamesKept(engine, engine') /\ QuestionsKept(ps, engine')
         /\ \A e \in Engines : engine'[e].state = ps[e].state
         /\ engineOnBus /\ method = "GetPaused" => \E e \in Engines : Asked(engine'[e])
<1>1. CASE ~engineOnBus
  BY <1>1 DEF Call, QuestionsKept
<1>2. CASE engineOnBus
  <2>1. Owner \in Engines /\ ps[Owner].control
    BY <1>2, OwnerIsKnown DEF NamesKept
  <2> DEFINE r == [ps[Owner] EXCEPT !.calls = Append(@, method)]
  <2>2. ps[Owner] \in Processes /\ ps[Owner].calls \in Seq(Methods)
    BY <2>1 DEF OneName, Processes
  <2>3. Append(ps[Owner].calls, method) \in Seq(Methods)
    BY <2>2, AppendProperties
  <2>4. /\ r \in Processes /\ r.calls = Append(ps[Owner].calls, method)
        /\ r.state = ps[Owner].state /\ r.control = ps[Owner].control
        /\ r.paused = ps[Owner].paused
    BY <2>2, <2>3 DEF Processes
  <2> HIDE DEF r
  <2>5. /\ engine' \in [Engines -> Processes]
        /\ \A f \in Engines : engine'[f] = IF f = Owner THEN r ELSE ps[f]
    BY <1>2, <2>1, <2>4 DEF Call, OneName, r
  <2>6. \A f \in Engines : /\ engine'[f].state = ps[f].state
                           /\ engine'[f].control = ps[f].control
                           /\ engine'[f].paused = ps[f].paused
    BY <2>4, <2>5
  <2>7. OneName(engine')
    BY <2>1, <2>5, <2>6 DEF OneName
  <2>8. NamesKept(engine, engine')
    BY <2>6 DEF NamesKept
  <2>9. /\ method = "GetPaused" => Asked(r)
        /\ Asked(ps[Owner]) => Asked(r)
    <3>1. /\ DOMAIN r.calls = 1 .. Len(ps[Owner].calls) + 1
          /\ \A i \in 1 .. Len(ps[Owner].calls) : r.calls[i] = ps[Owner].calls[i]
          /\ r.calls[Len(ps[Owner].calls) + 1] = method
          /\ DOMAIN ps[Owner].calls = 1 .. Len(ps[Owner].calls)
          /\ Len(ps[Owner].calls) \in Nat
      BY <2>2, <2>4, AppendProperties, LenProperties
    <3>2. QED
      BY <3>1 DEF Asked
  <2>10. QuestionsKept(ps, engine')
    BY <2>5, <2>9 DEF QuestionsKept
  <2>11. method = "GetPaused" => \E e \in Engines : Asked(engine'[e])
    BY <2>1, <2>5, <2>9
  <2>12. QED
    BY <2>6, <2>7, <2>8, <2>10, <2>11
<1>3. QED
  BY <1>1, <1>2

LEMMA AppendedIsLast ==
  ASSUME NEW box \in Seq(Notes), NEW note \in Notes, NEW ps, NEW label
  PROVE  /\ Append(box, note) \in Seq(Notes)
         /\ IsTrue(ps, note.kind # "error", note.paused)
              => LastWord(ps, Append(box, note), label)
<1>1. /\ Append(box, note) \in Seq(Notes) /\ Append(box, note) # <<>>
      /\ Append(box, note)[Len(Append(box, note))] = note
  BY AppendProperties, LenProperties
<1>2. QED
  BY <1>1 DEF LastWord

\* A process ends: if it had the name, nobody has asked its successor yet.
LEMMA ExitKeeps ==
  ASSUME TrayInv, NEW e \in Engines, NEW failed, Exit(e, failed),
         restart' = restart, tray' = tray
  PROVE  TrayInv'
<1> DEFINE lost == {i \in DOMAIN engine[e].calls : engine[e].calls[i] = "GetPaused"}
           errors == [i \in 1 .. Cardinality(lost) |-> ToTray("error", FALSE)]
<1>1. /\ engine \in [Engines -> Processes] /\ engine[e] \in Processes
      /\ engine[e].calls \in Seq(Methods) /\ engine[e].control \in BOOLEAN
      /\ inbox \in Seq(Notes)
  BY DEF TrayInv, TrayTyped, OneName, Processes
<1>2. /\ Exited(engine[e]) \in Processes /\ Exited(engine[e]).control = FALSE
      /\ Exited(engine[e]).calls = <<>> /\ Exited(engine[e]).state = "exited"
  BY <1>1, EmptySeq DEF Exited, Absent, Processes
<1>3. /\ engine' = [engine EXCEPT ![e] = Exited(engine[e])]
      /\ inbox' = inbox \o errors /\ asked' = (asked /\ ~engine[e].control)
  BY DEF Exit
<1>4. /\ engine' \in [Engines -> Processes]
      /\ \A f \in Engines : engine'[f] = IF f = e THEN Exited(engine[e]) ELSE engine[f]
  BY <1>1, <1>2, <1>3
<1>5. Cardinality(lost) \in Nat /\ (engine[e].calls = <<>> => Cardinality(lost) = 0)
  <2>1. lost \subseteq 1 .. Len(engine[e].calls) /\ Len(engine[e].calls) \in Nat
    BY <1>1, LenProperties
  <2>2. IsFiniteSet(lost)
    BY <2>1, FS_Interval, FS_Subset
  <2>3. engine[e].calls = <<>> => lost = {}
    BY <2>1
  <2>4. QED
    BY <2>2, <2>3, FS_CardinalityType, FS_EmptySet
<1> HIDE DEF lost
<1>6. errors \in Seq(Notes) /\ (Cardinality(lost) = 0 => errors = <<>>)
  <2>1. ToTray("error", FALSE) \in Notes
    BY DEF ToTray, Notes
  <2>2. errors \in [1 .. Cardinality(lost) -> Notes]
    BY <2>1
  <2>3. errors \in Seq(Notes)
    BY <1>5, <2>2, SeqDef
  <2>4. Cardinality(lost) = 0 => Len(errors) = 0
    <3>1. Len(errors) \in Nat /\ 1 .. Len(errors) = 1 .. Cardinality(lost)
      BY <2>2, <2>3, LenProperties
    <3>2. QED
      BY <3>1
  <2>5. QED
    BY <2>3, <2>4, EmptySeq
<1> HIDE DEF errors
<1>7. inbox' \in Seq(Notes) /\ (errors = <<>> => inbox' = inbox)
  BY <1>1, <1>3, <1>6, ConcatProperties, ConcatEmptySeq
<1>8. OneName(engine')
  BY <1>2, <1>4 DEF TrayInv, OneName
<1>9. ChainKnows'
  BY <1>2, <1>4 DEF TrayInv, ChainKnows, Alive
<1>10. WordIsTrue'
  <2>1. CASE engine[e].control
    BY <1>3, <2>1 DEF WordIsTrue
  <2>2. CASE ~engine[e].control
    <3>1. engine[e].calls = <<>> /\ inbox' = inbox /\ engine[e].control = FALSE
      BY <1>1, <1>5, <1>6, <1>7, <2>2 DEF TrayInv, OneName
    <3>2. ~Asked(engine[e])
      BY <3>1 DEF Asked
    <3>3. NamesKept(engine, engine') /\ QuestionsKept(engine, engine')
      BY <1>2, <1>4, <3>1, <3>2 DEF NamesKept, QuestionsKept
    <3>4. QED
      BY <1>3, <3>1, <3>3, WordKept DEF TrayInv
  <2>3. QED
    BY <2>1, <2>2
<1>11. TrayTyped'
  BY <1>1, <1>3, <1>7 DEF TrayInv, TrayTyped
<1>12. QED
  BY <1>8, <1>9, <1>10, <1>11 DEF TrayInv

\* What only the process itself knows.
LEMMA OwnFlagsKeep ==
  ASSUME TrayInv, NEW e \in Engines, NEW r \in Processes,
         r.state = engine[e].state, r.control = engine[e].control,
         r.paused = engine[e].paused, r.calls = engine[e].calls,
         engine' = [engine EXCEPT ![e] = r], SameWait, UNCHANGED <<tray, inbox, asked>>
  PROVE  TrayInv'
<1>1. OneName(engine') /\ ChainKnows' /\ NamesKept(engine, engine')
      /\ QuestionsKept(engine, engine')
  BY FlagsKeep DEF TrayInv
<1>2. WordIsTrue'
  BY <1>1, WordKept DEF TrayInv
<1>3. QED
  BY <1>1, <1>2 DEF TrayInv, TrayTyped

LEMMA StartControlKeeps ==
  ASSUME TrayInv, NEW e \in Engines, StartControl(e)
  PROVE  TrayInv'
<1> DEFINE r == [engine[e] EXCEPT !.state = "up", !.control = ~engineOnBus]
<1>1. /\ engine \in [Engines -> Processes] /\ engine[e] \in Processes
      /\ engine[e].control = FALSE /\ engine[e].calls = <<>>
  <2>1. engine \in [Engines -> Processes] /\ engine[e] \in Processes
    BY DEF TrayInv, OneName
  <2>2. QED
    BY <2>1 DEF TrayInv, OneName, StartControl, Processes
<1>2. /\ r \in Processes /\ r.state = "up" /\ r.control = ~engineOnBus /\ r.calls = <<>>
  BY <1>1 DEF Processes, engineOnBus
<1> HIDE DEF r
<1>3. /\ engine' \in [Engines -> Processes]
      /\ \A f \in Engines : engine'[f] = IF f = e THEN r ELSE engine[f]
  BY <1>1, <1>2 DEF StartControl, r
<1>4. OneName(engine')
  BY ZenonT(60), <1>2, <1>3, OwnerIsKnown DEF TrayInv, OneName
<1>5. ChainKnows'
  <2>1. restart' = restart
    BY DEF StartControl
  <2>2. restart.stage \in {"quit", "term"} => restart.pid # e
    BY <1>1 DEF TrayInv, ChainKnows, StartControl, Alive
  <2>3. QED
    BY <2>1, <2>2, <1>3 DEF TrayInv, ChainKnows, Alive
<1>6. WordIsTrue'
  <2>1. CASE ~engineOnBus
    BY <2>1 DEF StartControl, WordIsTrue
  <2>2. CASE engineOnBus
    <3>1. ~Asked(engine[e])
      BY <1>1 DEF Asked
    <3>2. NamesKept(engine, engine') /\ QuestionsKept(engine, engine')
      BY <1>1, <1>2, <1>3, <2>2, <3>1 DEF NamesKept, QuestionsKept
    <3>3. QED
      BY <3>2, WordKept DEF TrayInv, StartControl
  <2>3. QED
    BY <2>1, <2>2
<1>7. TrayTyped'
  BY DEF TrayInv, TrayTyped, StartControl, engineOnBus
<1>8. QED
  BY <1>4, <1>5, <1>6, <1>7 DEF TrayInv

\* A call leaves the queue of the engine that has the name.
LEMMA RestIsTyped ==
  ASSUME OneName(engine), NEW e \in Engines, engine[e].calls # <<>>
  PROVE  LET rest == [engine[e] EXCEPT !.calls = Tail(@)]
         IN  /\ rest \in Processes /\ rest.state = engine[e].state
             /\ rest.control = engine[e].control /\ rest.paused = engine[e].paused
             /\ engine[e].control = TRUE
<1>1. engine[e] \in Processes /\ engine[e].calls \in Seq(Methods)
  BY DEF OneName, Processes
<1>2. Tail(engine[e].calls) \in Seq(Methods)
  BY <1>1, HeadTailProperties
<1>3. engine[e].control = TRUE
  BY <1>1 DEF OneName, Processes
<1>4. QED
  BY <1>1, <1>2, <1>3 DEF Processes

\* The engine that is known changes its process, but neither its state nor its name.
LEMMA ProcessKeeps ==
  ASSUME TrayInv, NEW e \in Engines, NEW r \in Processes,
         r.state = engine[e].state, r.control = engine[e].control,
         r.calls # <<>> => r.control,
         engine' = [engine EXCEPT ![e] = r], restart' = restart
  PROVE  /\ OneName(engine') /\ ChainKnows'
         /\ \A f \in Engines : engine'[f] = IF f = e THEN r ELSE engine[f]
<1>1. /\ engine' \in [Engines -> Processes]
      /\ \A f \in Engines : engine'[f] = IF f = e THEN r ELSE engine[f]
  BY DEF TrayInv, OneName
<1>2. \A f \in Engines : /\ engine'[f].state = engine[f].state
                         /\ engine'[f].control = engine[f].control
  BY <1>1
<1>3. OneName(engine')
  BY <1>1, <1>2 DEF TrayInv, OneName
<1>4. ChainKnows'
  BY <1>2 DEF TrayInv, ChainKnows, Alive
<1>5. QED
  BY <1>1, <1>3, <1>4

\* A pause begins or ends: the owner of the name says so at once.
LEMMA PauseKeeps ==
  ASSUME TrayInv, NEW e \in Engines, NEW r \in Processes,
         r.state = engine[e].state, r.control = engine[e].control,
         r.paused = ~engine[e].paused,
         r.control \/ r.calls = engine[e].calls,
         engine' = [engine EXCEPT ![e] = r],
         inbox' = inbox \o Changed(e, ~engine[e].paused),
         UNCHANGED <<restart, tray, asked>>
  PROVE  TrayInv'
<1>1. /\ engine[e] \in Processes /\ engine[e].paused \in BOOLEAN
      /\ engine[e].control \in BOOLEAN /\ inbox \in Seq(Notes)
      /\ engine[e].calls # <<>> => engine[e].control
  BY DEF TrayInv, TrayTyped, OneName, Processes
<1>2. r.calls # <<>> => r.control
  BY <1>1
<1>3. /\ OneName(engine') /\ ChainKnows'
      /\ \A f \in Engines : engine'[f] = IF f = e THEN r ELSE engine[f]
  BY <1>2, ProcessKeeps
<1> DEFINE note == ToTray("PausedChanged", ~engine[e].paused)
<1>4. note \in Notes /\ note.kind # "error" /\ note.paused = ~engine[e].paused
  BY <1>1 DEF ToTray, Notes
<1> HIDE DEF note
<1>5. CASE engine[e].control
  <2>1. inbox' = inbox \o <<note>>
    BY <1>1, <1>5 DEF Changed, note
  <2>2. inbox' = Append(inbox, note)
    BY <2>1, <1>1, <1>4, AppendIsConcat
  <2>3. IsTrue(engine', note.kind # "error", note.paused)
    <3>1. \A f \in Engines : engine'[f].control => f = e
      BY <1>3, <1>5 DEF TrayInv, OneName
    <3>2. \E f \in Engines : engine'[f].control
      BY <1>3, <1>5
    <3>3. engine'[e].paused = note.paused
      BY <1>3, <1>4
    <3>4. QED
      BY <1>4, <3>1, <3>2, <3>3 DEF IsTrue
  <2>4. inbox' \in Seq(Notes) /\ LastWord(engine', inbox', tray')
    BY <1>1, <1>4, <2>2, <2>3, AppendedIsLast
  <2>5. WordIsTrue'
    BY <2>4 DEF WordIsTrue
  <2>6. QED
    BY <1>3, <2>4, <2>5 DEF TrayInv, TrayTyped
<1>6. CASE ~engine[e].control
  <2>1. inbox' = inbox
    BY <1>1, <1>6, ConcatEmptySeq DEF Changed
  <2>2. r.calls = engine[e].calls
    BY <1>6
  <2>3. NamesKept(engine, engine') /\ QuestionsKept(engine, engine')
    BY <1>3, <1>6, <2>2 DEF NamesKept, QuestionsKept, Asked
  <2>4. WordIsTrue'
    BY <2>1, <2>3, WordKept DEF TrayInv
  <2>5. QED
    BY <1>3, <2>1, <2>4 DEF TrayInv, TrayTyped
<1>7. QED
  BY <1>1, <1>5, <1>6

\* An answer of the engine that has the name is the truth.
LEMMA ServeCallKeeps ==
  ASSUME TrayInv, NEW e \in Engines, ServeCall(e)
  PROVE  TrayInv'
<1> DEFINE rest == [engine[e] EXCEPT !.calls = Tail(@)]
<1>1. /\ rest \in Processes /\ rest.state = engine[e].state
      /\ rest.control = engine[e].control /\ rest.paused = engine[e].paused
      /\ engine[e].control = TRUE
  BY RestIsTyped DEF TrayInv, ServeCall
<1>2. engine[e] \in Processes /\ inbox \in Seq(Notes) /\ engine[e].paused \in BOOLEAN
  BY DEF TrayInv, TrayTyped, OneName, Processes
<1>3. restart' = restart /\ tray' = tray
  BY DEF ServeCall
<1>4. ASSUME engine' = [engine EXCEPT ![e] = rest],
             inbox' = Append(inbox, ToTray("reply", rest.paused)), asked' = asked
      PROVE  TrayInv'
  <2> HIDE DEF rest
  <2>1. /\ OneName(engine') /\ ChainKnows'
        /\ \A f \in Engines : engine'[f] = IF f = e THEN rest ELSE engine[f]
    BY <1>1, <1>3, <1>4, ProcessKeeps
  <2> DEFINE note == ToTray("reply", rest.paused)
  <2>2. note \in Notes /\ note.kind # "error" /\ note.paused = rest.paused
    BY <1>1, <1>2 DEF ToTray, Notes
  <2> HIDE DEF note
  <2>3. IsTrue(engine', note.kind # "error", note.paused)
    <3>1. \A f \in Engines : engine'[f].control => f = e
      BY <1>1, <2>1 DEF TrayInv, OneName
    <3>2. \E f \in Engines : engine'[f].control
      BY <1>1, <2>1
    <3>3. engine'[e].paused = note.paused
      BY <2>1, <2>2
    <3>4. QED
      BY <2>2, <3>1, <3>2, <3>3 DEF IsTrue
  <2>4. inbox' \in Seq(Notes) /\ LastWord(engine', inbox', tray')
    BY <1>2, <1>4, <2>2, <2>3, AppendedIsLast DEF note
  <2>5. WordIsTrue'
    BY <2>4 DEF WordIsTrue
  <2>6. QED
    BY <1>3, <1>4, <2>1, <2>4, <2>5 DEF TrayInv, TrayTyped
<1>5. ASSUME engine' = [engine EXCEPT ![e] = SetPaused(rest, ~engine[e].paused)],
             inbox' = inbox \o Changed(e, ~engine[e].paused), asked' = asked
      PROVE  TrayInv'
  <2> DEFINE r == SetPaused(rest, ~engine[e].paused)
  <2> HIDE DEF rest
  <2>1. /\ r \in Processes /\ r.state = rest.state /\ r.control = rest.control
        /\ r.paused = ~engine[e].paused
    BY <1>1, <1>2 DEF SetPaused, Processes
  <2>2. engine' = [engine EXCEPT ![e] = r]
    BY <1>5
  <2> HIDE DEF r
  <2>3. QED
    BY ZenonT(60), <1>1, <1>3, <1>5, <2>1, <2>2, PauseKeeps
<1>6. CASE Exit(e, FALSE)
  BY <1>3, <1>6, ExitKeeps
<1>7. QED
  BY <1>4, <1>5, <1>6 DEF ServeCall

LEMMA ShortcutKeeps ==
  ASSUME TrayInv, NEW e \in Engines, Shortcut(e)
  PROVE  TrayInv'
<1> DEFINE r == SetPaused(engine[e], ~engine[e].paused)
<1>1. engine[e] \in Processes
  BY DEF TrayInv, OneName
<1>2. /\ r \in Processes /\ r.state = engine[e].state /\ r.control = engine[e].control
      /\ r.paused = ~engine[e].paused /\ r.calls = engine[e].calls
  BY <1>1 DEF SetPaused, Processes
<1>3. engine' = [engine EXCEPT ![e] = r]
  BY DEF Shortcut
<1> HIDE DEF r
<1>4. QED
  BY <1>2, <1>3, PauseKeeps DEF Shortcut

\* Flags of one process: the grab, a hang and its end, a signal.
LEMMA EngineFlagsKeep ==
  ASSUME TrayInv, NEW e \in Engines,
         \/ /\ engine' = [engine EXCEPT ![e].grabs = TRUE]
            /\ UNCHANGED <<restart, tray, inbox, asked>>
         \/ Hang(e)
         \/ Recover(e)
  PROVE  TrayInv'
<1>1. engine \in [Engines -> Processes] /\ engine[e] \in Processes
  BY DEF TrayInv, OneName
<1>2. UNCHANGED <<restart, tray, inbox, asked>>
  BY DEF Hang, Recover
<1>3. PICK r \in Processes :
         /\ engine' = [engine EXCEPT ![e] = r]
         /\ r.state = engine[e].state /\ r.control = engine[e].control
         /\ r.paused = engine[e].paused /\ r.calls = engine[e].calls
  <2> DEFINE grabbed == [engine[e] EXCEPT !.grabs = TRUE]
             hung(on) == [engine[e] EXCEPT !.hung = on]
  <2>1. \/ engine' = [engine EXCEPT ![e] = grabbed]
        \/ \E on \in BOOLEAN : engine' = [engine EXCEPT ![e] = hung(on)]
    BY DEF Hang, Recover
  <2>2. /\ grabbed \in Processes
        /\ grabbed.state = engine[e].state /\ grabbed.control = engine[e].control
        /\ grabbed.paused = engine[e].paused /\ grabbed.calls = engine[e].calls
    BY <1>1 DEF Processes
  <2>3. \A on \in BOOLEAN :
          /\ hung(on) \in Processes
          /\ hung(on).state = engine[e].state /\ hung(on).control = engine[e].control
          /\ hung(on).paused = engine[e].paused /\ hung(on).calls = engine[e].calls
    BY <1>1 DEF Processes
  <2> HIDE DEF grabbed, hung
  <2>4. QED
    BY <2>1, <2>2, <2>3
<1>4. QED
  BY <1>2, <1>3, OwnFlagsKeep DEF SameWait

LEMMA EngineLoopKeeps ==
  ASSUME TrayInv, NEW e \in Engines,
         StartupGrab(e) \/ Terminate(e) \/ Crash(e) \/ Hang(e) \/ Recover(e)
  PROVE  TrayInv'
<1>1. CASE StartupGrab(e)
  BY <1>1, ExitKeeps, EngineFlagsKeep DEF StartupGrab
<1>2. CASE Terminate(e) \/ Crash(e)
  BY <1>2, ExitKeeps DEF Terminate, Crash
<1>3. QED
  BY <1>1, <1>2, EngineFlagsKeep

LEMMA CallTimeoutKeeps ==
  ASSUME TrayInv, NEW e \in Engines, CallTimeout(e)
  PROVE  TrayInv'
<1> DEFINE rest == [engine[e] EXCEPT !.calls = Tail(@)]
<1>1. /\ rest \in Processes /\ rest.state = engine[e].state
      /\ rest.control = engine[e].control /\ engine[e].control = TRUE
  BY RestIsTyped DEF TrayInv, CallTimeout
<1>2. engine' = [engine EXCEPT ![e] = rest]
  BY DEF CallTimeout
<1> HIDE DEF rest
<1>3. OneName(engine') /\ ChainKnows'
  BY <1>1, <1>2, ProcessKeeps DEF CallTimeout
<1>4. inbox' \in Seq(Notes)
  <2>1. ToTray("error", FALSE) \in Notes
    BY DEF ToTray, Notes
  <2>2. QED
    BY <2>1, AppendProperties DEF CallTimeout, TrayInv, TrayTyped
<1>5. QED
  BY <1>3, <1>4 DEF CallTimeout, TrayInv, TrayTyped, WordIsTrue

\* The service manager.
LEMMA LaunchedKeeps ==
  ASSUME TrayInv, NEW managed \in BOOLEAN, Launch(managed),
         UNCHANGED <<restart, tray, inbox, asked>>
  PROVE  TrayInv'
<1>1. /\ OneName(engine') /\ NamesKept(engine, engine') /\ QuestionsKept(engine, engine')
      /\ restart.stage \in {"quit", "term"} => engine'[restart.pid] = engine[restart.pid]
  BY LaunchKeeps DEF Launch, TrayInv
<1>2. ChainKnows'
  BY <1>1 DEF TrayInv, ChainKnows, Alive
<1>3. WordIsTrue'
  BY <1>1, WordKept DEF TrayInv
<1>4. QED
  BY <1>1, <1>2, <1>3 DEF TrayInv, TrayTyped

\* What touches no process and no message.
LEMMA RestKeeps ==
  ASSUME TrayInv, UNCHANGED <<engine, restart, inbox, asked>>,
         tray'.available = tray.available, tray'.paused = tray.paused,
         tray' \in [available: BOOLEAN, paused: BOOLEAN, mayRestart: BOOLEAN, mayQuit: BOOLEAN]
  PROVE  TrayInv'
<1>1. NamesKept(engine, engine') /\ QuestionsKept(engine, engine')
  BY DEF NamesKept, QuestionsKept
<1>2. WordIsTrue'
  BY <1>1, WordKept DEF TrayInv
<1>3. QED
  BY <1>2 DEF TrayInv, TrayTyped, ChainKnows, Alive

LEMMA ManagerKeeps ==
  ASSUME TrayInv, ManagerRuns
  PROVE  TrayInv'
<1>1. CASE RestartFailed
  BY <1>1, LaunchedKeeps DEF RestartFailed
<1>2. CASE RunJob
  <2>1. UNCHANGED <<restart, tray>> /\ tray' = tray /\ restart' = restart
    BY <1>2 DEF RunJob
  <2>2. \/ \E e \in Engines : Exit(e, FALSE)
        \/ UNCHANGED <<engine, inbox, asked>>
        \/ Launch(TRUE) /\ UNCHANGED <<inbox, asked>>
    BY <1>2 DEF RunJob, Managed
  <2>3. QED
    BY <2>1, <2>2, ExitKeeps, LaunchedKeeps, RestKeeps DEF TrayInv, TrayTyped
<1>3. QED
  BY <1>1, <1>2 DEF ManagerRuns

\* The tray asks: the engine with the name has the question, or there is none.
LEMMA SyncPausedKeeps ==
  ASSUME TrayInv, NEW ps, OneName(ps), NamesKept(engine, ps), SyncPaused(ps)
  PROVE  /\ OneName(engine') /\ NamesKept(engine, engine')
         /\ \A e \in Engines : engine'[e].state = ps[e].state
         /\ inbox' \in Seq(Notes) /\ asked' \in BOOLEAN /\ WordIsTrue'
<1>1. /\ OneName(engine') /\ NamesKept(engine, engine')
      /\ \A e \in Engines : engine'[e].state = ps[e].state
      /\ engineOnBus => \E e \in Engines : Asked(engine'[e])
  BY CallKeeps DEF SyncPaused, TrayInv, Methods
<1>2. CASE engineOnBus
  BY <1>1, <1>2 DEF SyncPaused, TrayInv, TrayTyped, WordIsTrue
<1>3. CASE ~engineOnBus
  <2> DEFINE note == ToTray("error", FALSE)
  <2>1. note \in Notes /\ note.kind = "error"
    BY DEF ToTray, Notes
  <2>2. IsTrue(engine', note.kind # "error", note.paused)
    <3>1. ~\E e \in Engines : engine'[e].control
      BY <1>1, <1>3, OwnerIsKnown DEF TrayInv, NamesKept
    <3>2. QED
      BY <2>1, <3>1 DEF IsTrue
  <2>3. inbox' = Append(inbox, note) /\ inbox \in Seq(Notes)
    BY <1>3 DEF SyncPaused, TrayInv, TrayTyped
  <2> HIDE DEF note
  <2>4. inbox' \in Seq(Notes) /\ LastWord(engine', inbox', tray')
    BY <2>1, <2>2, <2>3, AppendedIsLast
  <2>5. QED
    BY <1>1, <2>4 DEF SyncPaused, WordIsTrue
<1>4. QED
  BY <1>2, <1>3

\* A chain that knows its engine knows it also after a call.
LEMMA ChainKept ==
  ASSUME ChainKnows, restart' = restart, NamesKept(engine, engine'),
         restart.stage \in {"quit", "term"} =>
           engine'[restart.pid].state = engine[restart.pid].state
  PROVE  ChainKnows'
  BY DEF ChainKnows, Alive, NamesKept

TrayRecords ==
  [available: BOOLEAN, paused: BOOLEAN, mayRestart: BOOLEAN, mayQuit: BOOLEAN]

LEMMA TrayRecord ==
  ASSUME TrayInv
  PROVE  tray \in TrayRecords
  BY DEF TrayInv, TrayTyped, TrayRecords

\* The tray's own actions: what it asks, clicks, and is told.
LEMMA OpenMenuKeeps ==
  ASSUME TrayInv, OpenMenu
  PROVE  TrayInv'
<1>1. NamesKept(engine, engine)
  BY DEF NamesKept
<1>2. /\ OneName(engine') /\ NamesKept(engine, engine')
      /\ \A e \in Engines : engine'[e].state = engine[e].state
      /\ inbox' \in Seq(Notes) /\ asked' \in BOOLEAN /\ WordIsTrue'
  BY <1>1, SyncPausedKeeps DEF OpenMenu, TrayInv
<1>3. ChainKnows'
  BY <1>2, ChainKept DEF TrayInv, OpenMenu, ChainKnows
<1>4. QED
  BY <1>2, <1>3 DEF TrayInv, TrayTyped, OpenMenu

\* A call that asks nothing.
LEMMA OrderKeeps ==
  ASSUME TrayInv, NEW method \in Methods, Call(method, engine),
         UNCHANGED <<restart, inbox, asked>>,
         tray'.available = tray.available, tray'.paused = tray.paused, tray' \in TrayRecords
  PROVE  TrayInv'
<1>1. NamesKept(engine, engine)
  BY DEF NamesKept
<1>2. /\ OneName(engine') /\ NamesKept(engine, engine') /\ QuestionsKept(engine, engine')
      /\ \A e \in Engines : engine'[e].state = engine[e].state
  BY <1>1, CallKeeps DEF TrayInv
<1>3. ChainKnows'
  BY <1>2, ChainKept DEF TrayInv, ChainKnows
<1>4. WordIsTrue'
  BY <1>2, WordKept DEF TrayInv
<1>5. QED
  BY <1>2, <1>3, <1>4 DEF TrayInv, TrayTyped, TrayRecords

LEMMA ClicksKeep ==
  ASSUME TrayInv, ClickPause \/ ClickQuit \/ ClickRestart \/ QuitProbed
  PROVE  TrayInv'
<1>1. /\ [tray EXCEPT !.mayQuit = FALSE] \in TrayRecords
      /\ [tray EXCEPT !.mayQuit = TRUE] \in TrayRecords
      /\ [tray EXCEPT !.mayRestart = FALSE] \in TrayRecords
      /\ [tray EXCEPT !.mayQuit = FALSE].available = tray.available
      /\ [tray EXCEPT !.mayQuit = FALSE].paused = tray.paused
      /\ [tray EXCEPT !.mayQuit = TRUE].available = tray.available
      /\ [tray EXCEPT !.mayQuit = TRUE].paused = tray.paused
      /\ [tray EXCEPT !.mayRestart = FALSE].available = tray.available
      /\ [tray EXCEPT !.mayRestart = FALSE].paused = tray.paused
  BY TrayRecord DEF TrayRecords
<1>2. CASE ClickPause
  BY <1>2, TrayRecord, OrderKeeps DEF ClickPause, Methods
<1>3. CASE ClickQuit
  BY <1>1, <1>3, RestKeeps DEF ClickQuit, TrayRecords
<1>4. CASE ClickRestart
  <2>1. tray' \in TrayRecords /\ tray'.available = tray.available
        /\ tray'.paused = tray.paused
    BY <1>1, <1>4 DEF ClickRestart
  <2>2. NamesKept(engine, engine') /\ QuestionsKept(engine, engine')
    BY <1>4 DEF NamesKept, QuestionsKept, ClickRestart
  <2>3. WordIsTrue'
    BY <1>4, <2>1, <2>2, WordKept DEF ClickRestart, TrayInv
  <2>4. restart'.stage = "probing" /\ "stage" \in DOMAIN restart'
    BY <1>4 DEF ClickRestart, Idle
  <2>5. QED
    BY <1>4, <2>1, <2>3, <2>4 DEF ClickRestart, TrayInv, TrayTyped, TrayRecords, ChainKnows
<1>5. CASE QuitProbed
  BY <1>1, <1>5, OrderKeeps, RestKeeps DEF QuitProbed, Methods, TrayRecords
<1>6. QED
  BY <1>2, <1>3, <1>4, <1>5

LEMMA ReceiveKeeps ==
  ASSUME TrayInv, Receive
  PROVE  TrayInv'
<1>1. inbox \in Seq(Notes) /\ inbox # <<>> /\ inbox' = Tail(inbox)
  BY DEF TrayInv, TrayTyped, Receive
<1>2. Head(inbox) \in Notes /\ inbox' \in Seq(Notes) /\ Head(inbox) = inbox[1]
      /\ Len(inbox') = Len(inbox) - 1 /\ Len(inbox) \in Nat \ {0}
      /\ \A i \in 1 .. Len(inbox') : inbox'[i] = inbox[i + 1]
  BY <1>1, HeadTailProperties, LenProperties, EmptySeq
<1>3. /\ tray' \in TrayRecords
      /\ tray'.available = (Head(inbox).kind # "error")
      /\ tray'.paused = Head(inbox).paused
  BY <1>2, TrayRecord DEF Receive, ApplyPaused, TrayRecords, Notes
<1>4. LastWord(engine, inbox, tray) => LastWord(engine', inbox', tray')
  <2>1. CASE inbox' = <<>>
    <3>1. Len(inbox) = 1
      BY <1>2, <2>1
    <3>2. QED
      BY <1>1, <1>2, <1>3, <2>1, <3>1 DEF LastWord, Receive
  <2>2. CASE inbox' # <<>>
    <3>1. Len(inbox') \in 1 .. Len(inbox')
      BY <1>2, <2>2, LenProperties, EmptySeq
    <3>2. inbox'[Len(inbox')] = inbox[Len(inbox)]
      BY <1>2, <3>1
    <3>3. QED
      BY <1>1, <2>2, <3>2 DEF LastWord, Receive
  <2>3. QED
    BY <2>1, <2>2
<1>5. WordIsTrue'
  BY <1>4 DEF TrayInv, WordIsTrue, Receive
<1>6. QED
  BY <1>2, <1>3, <1>5 DEF TrayInv, TrayTyped, TrayRecords, Receive, ChainKnows, Alive

\* A fresh engine ends the chain.
LEMMA StartFreshKeeps ==
  ASSUME TrayInv, NEW loaded, StartFresh(loaded)
  PROVE  TrayInv'
<1>1. tray' \in TrayRecords /\ restart'.stage = "idle" /\ "stage" \in DOMAIN restart'
  BY TrayRecord DEF StartFresh, Finish, Idle, TrayRecords
<1>2. PICK ps : OneName(ps) /\ NamesKept(engine, ps) /\ SyncPaused(ps)
  <2>1. CASE loaded
    <3>1. NamesKept(engine, engine)
      BY DEF NamesKept
    <3>2. QED
      BY <2>1, <3>1 DEF StartFresh, TrayInv
  <2>2. CASE ~loaded
    <3> DEFINE ps == [engine EXCEPT ![NextEngine] = Launched(FALSE)]
    <3>1. Fresh # {} /\ SyncPaused(ps)
      BY <2>2 DEF StartFresh
    <3>2. OneName(ps) /\ NamesKept(engine, ps)
      BY <3>1, LaunchKeeps DEF TrayInv
    <3>3. QED
      BY <3>1, <3>2
  <2>3. QED
    BY <2>1, <2>2
<1>3. OneName(engine') /\ inbox' \in Seq(Notes) /\ asked' \in BOOLEAN /\ WordIsTrue'
  BY <1>2, SyncPausedKeeps
<1>4. ChainKnows'
  BY <1>1 DEF ChainKnows
<1>5. QED
  BY <1>1, <1>3, <1>4 DEF TrayInv, TrayTyped, TrayRecords

LEMMA RestartProbedKeeps ==
  ASSUME TrayInv, RestartProbed
  PROVE  TrayInv'
<1>1. NamesKept(engine, engine)
  BY DEF NamesKept
<1>2. CASE SyncPaused(engine) /\ Finish
  <2>1. tray' \in TrayRecords /\ restart'.stage = "idle" /\ "stage" \in DOMAIN restart'
    BY <1>2, TrayRecord DEF Finish, Idle, TrayRecords
  <2>2. OneName(engine') /\ inbox' \in Seq(Notes) /\ asked' \in BOOLEAN /\ WordIsTrue'
    BY <1>1, <1>2, SyncPausedKeeps DEF TrayInv
  <2>3. QED
    BY <2>1, <2>2 DEF TrayInv, TrayTyped, TrayRecords, ChainKnows
<1>3. ASSUME NEW loaded, engineOnBus, Call("Quit", engine), UNCHANGED <<inbox, tray, asked>>,
             restart' = [stage |-> "quit", pid |-> Owner, loaded |-> loaded]
      PROVE  TrayInv'
  <2>1. /\ OneName(engine') /\ NamesKept(engine, engine') /\ QuestionsKept(engine, engine')
        /\ \A e \in Engines : engine'[e].state = engine[e].state
    BY <1>1, <1>3, CallKeeps DEF TrayInv, Methods
  <2>2. Owner \in Engines /\ engine[Owner].control /\ engine[Owner].state = "up"
    BY <1>3, OwnerIsKnown DEF TrayInv, OneName
  <2>3. ChainKnows'
    BY <1>3, <2>1, <2>2 DEF ChainKnows, NamesKept
  <2>4. WordIsTrue'
    BY <1>3, <2>1, WordKept DEF TrayInv
  <2>5. QED
    BY <1>3, <2>1, <2>3, <2>4 DEF TrayInv, TrayTyped
<1>4. QED
  BY <1>2, <1>3, StartFreshKeeps DEF RestartProbed

LEMMA QuitGraceOverKeeps ==
  ASSUME TrayInv, QuitGraceOver
  PROVE  TrayInv'
<1> DEFINE e == restart.pid
           r == [engine[e] EXCEPT !.term = Alive(e)]
<1>1. e \in Engines /\ engine[e] \in Processes
  BY DEF TrayInv, OneName, ChainKnows, QuitGraceOver
<1>2. /\ r \in Processes /\ r.state = engine[e].state /\ r.control = engine[e].control
      /\ r.paused = engine[e].paused /\ r.calls = engine[e].calls
  <2>1. Alive(e) \in BOOLEAN
    BY DEF Alive
  <2>2. QED
    BY <1>1, <2>1 DEF Processes
<1>3. engine' = [engine EXCEPT ![e] = r] /\ UNCHANGED <<tray, inbox, asked>>
  BY DEF QuitGraceOver
<1>4. SameWait
  BY DEF SameWait, QuitGraceOver
<1> HIDE DEF r, e
<1>5. QED
  BY <1>1, <1>2, <1>3, <1>4, OwnFlagsKeep

LEMMA TrayStarts == TrayInit => TrayInv
<1> SUFFICES ASSUME TrayInit PROVE TrayInv
  OBVIOUS
<1>1. PICK kind \in Starts, loaded \in BOOLEAN :
        /\ engine = [e \in Engines |->
             IF e = 1 /\ kind # "none"
             THEN [Launched(kind = "unit") EXCEPT !.state = "up", !.control = TRUE,
                     !.grabs = TRUE, !.calls = <<"GetPaused">>]
             ELSE Absent]
        /\ inbox = IF kind = "none" THEN <<ToTray("error", FALSE)>> ELSE <<>>
  BY DEF TrayInit
<1> DEFINE first == [Launched(kind = "unit") EXCEPT !.state = "up", !.control = TRUE,
                       !.grabs = TRUE, !.calls = <<"GetPaused">>]
<1>2. <<"GetPaused">> \in Seq(Methods) /\ <<>> \in Seq(Methods)
  BY EmptySeq DEF Methods
<1>3. /\ first \in Processes /\ first.control = TRUE /\ first.state = "up"
      /\ first.calls = <<"GetPaused">>
      /\ Absent \in Processes /\ Absent.control = FALSE /\ Absent.calls = <<>>
  BY <1>2 DEF Launched, Absent, Processes
<1>4. \A e \in Engines : engine[e] = IF e = 1 /\ kind # "none" THEN first ELSE Absent
  BY <1>1
<1>5. engine \in [Engines -> Processes]
  BY <1>1, <1>3
<1> HIDE DEF first
<1>6. OneName(engine)
  BY <1>3, <1>4, <1>5 DEF OneName
<1>7. ToTray("error", FALSE) \in Notes
  BY DEF ToTray, Notes
<1>8. inbox \in Seq(Notes)
  <2>1. ASSUME NEW note \in Notes PROVE <<note>> \in Seq(Notes)
    OBVIOUS
  <2>2. <<ToTray("error", FALSE)>> \in Seq(Notes) /\ <<>> \in Seq(Notes)
    BY <1>7, <2>1, EmptySeq
  <2>3. QED
    BY <1>1, <2>2
<1>9. TrayTyped
  BY <1>8 DEF TrayInit, TrayTyped
<1>10. ChainKnows
  BY DEF TrayInit, Idle, ChainKnows
<1>11. WordIsTrue
  <2>1. CASE kind # "none" /\ 1 \in Engines
    <3>1. Asked(engine[1])
      BY <2>1, <1>3, <1>4 DEF Asked
    <3>2. QED
      BY <2>1, <3>1 DEF WordIsTrue
  <2>2. CASE kind = "none" \/ 1 \notin Engines
    <3>1. \A e \in Engines : ~engine[e].control
      BY <1>3, <1>4, <2>2
    <3>2. IsTrue(engine, FALSE, FALSE)
      BY <3>1 DEF IsTrue
    <3>3. CASE kind = "none"
      <4>1. inbox # <<>> /\ Len(inbox) = 1 /\ inbox[1] = ToTray("error", FALSE)
        BY <1>1, <3>3
      <4>2. inbox[1].kind = "error" /\ inbox[1].paused = FALSE
        BY <4>1 DEF ToTray
      <4>3. IsTrue(engine, inbox[1].kind # "error", inbox[1].paused)
        BY <3>1, <4>2 DEF IsTrue
      <4>4. QED
        BY <4>1, <4>3 DEF WordIsTrue, LastWord
    <3>4. CASE kind # "none"
      BY <1>1, <3>2, <3>4 DEF TrayInit, WordIsTrue, LastWord
    <3>5. QED
      BY <3>3, <3>4
  <2>3. QED
    BY <2>1, <2>2
<1>12. QED
  BY <1>6, <1>9, <1>10, <1>11 DEF TrayInv

LEMMA TrayKeeps ==
  ASSUME TrayInv, [TrayNext]_trayVars
  PROVE  TrayInv'
<1>1. CASE UNCHANGED trayVars
  BY <1>1, TrayRecord, RestKeeps DEF trayVars, TrayRecords
<1>2. CASE \E e \in Engines : \/ EngineRuns(e) \/ Shortcut(e) \/ Hang(e)
                              \/ Crash(e) \/ CallTimeout(e)
  BY <1>2, StartControlKeeps, EngineLoopKeeps, ServeCallKeeps, ShortcutKeeps,
     CallTimeoutKeeps DEF EngineRuns
<1>3. CASE OpenMenu \/ ClickPause \/ ClickQuit \/ ClickRestart \/ ManagerRuns
  BY <1>3, OpenMenuKeeps, ClicksKeep, ManagerKeeps
<1>4. CASE TrayRuns
  BY <1>4, ReceiveKeeps, ClicksKeep, RestartProbedKeeps, StartFreshKeeps,
     QuitGraceOverKeeps DEF TrayRuns, OwnerGone, TermGraceOver
<1>5. QED
  BY <1>1, <1>2, <1>3, <1>4 DEF TrayNext

\* For any number of engines, clicks, hangs and crashes, and however answers, signals
\* and calls mix: once GetPaused is answered and every signal has arrived, the label is
\* the state of the engine on the bus (main.cpp 213-246, control_service.cpp 21-56).
THEOREM LabelStaysTrue == TraySpec => []LabelAgrees
<1>1. TrayInv /\ [TrayNext]_trayVars => TrayInv'
  BY TrayKeeps
<1>2. QED
  BY <1>1, TrayStarts, TrayInvSuffices, PTL DEF TraySpec

\* The chain starts an engine only when the one it asked to go is gone, also when
\* another takes the name meanwhile, unless an engine hangs longer than both grace
\* periods (main.cpp 298-348).
THEOREM RestartReplacesAsked ==
  ASSUME "term" \notin HangOutlasts
  PROVE  TraySpec => ReplacesAsked
<1> DEFINE Step == restart.stage \in {"quit", "term"} /\ restart'.stage = "idle"
                     => ~Alive(restart.pid)
<1>1. TrayInv /\ [TrayNext]_trayVars => TrayInv'
  BY TrayKeeps
<1>2. TrayInv /\ [TrayNext]_trayVars => [Step]_trayVars
  <2> SUFFICES ASSUME TrayInv, TrayNext,
                      restart.stage \in {"quit", "term"}, restart'.stage = "idle"
               PROVE  ~Alive(restart.pid)
    OBVIOUS
  <2>1. OwnerGone \/ TermGraceOver
    <3>1. restart' # restart
      OBVIOUS
    <3>2. ~\E e \in Engines : \/ EngineRuns(e) \/ Shortcut(e) \/ Hang(e)
                               \/ Crash(e) \/ CallTimeout(e)
      BY <3>1 DEF EngineRuns, StartControl, StartupGrab, ServeCall, Terminate, Recover,
                  Shortcut, Hang, Crash, CallTimeout
    <3>3. ~ManagerRuns /\ ~OpenMenu /\ ~ClickPause /\ ~ClickQuit /\ ~Receive /\ ~QuitProbed
      BY <3>1 DEF ManagerRuns, RunJob, RestartFailed, OpenMenu, ClickPause, ClickQuit,
                  Receive, QuitProbed
    <3>4. ~ClickRestart
      BY DEF ClickRestart, Idle
    <3>5. ~RestartProbed
      BY DEF RestartProbed
    <3>6. ~QuitGraceOver
      <4>1. QuitGraceOver => restart' = [restart EXCEPT !.stage = "term"]
        BY DEF QuitGraceOver
      <4>2. "stage" \in DOMAIN restart => [restart EXCEPT !.stage = "term"].stage = "term"
        OBVIOUS
      <4>3. QED
        BY <4>1, <4>2 DEF TrayInv, ChainKnows
    <3>7. QED
      BY <3>2, <3>3, <3>4, <3>5, <3>6 DEF TrayNext, TrayRuns
  <2>2. restart.pid \in Engines /\ (Alive(restart.pid) => engine[restart.pid].control)
    BY DEF TrayInv, ChainKnows
  <2>3. engine[restart.pid].control => engineOnBus /\ Owner = restart.pid
    BY <2>2, OwnerIsKnown DEF TrayInv
  <2>4. CASE OwnerGone
    BY <2>2, <2>3, <2>4 DEF OwnerGone
  <2>5. CASE TermGraceOver
    BY <2>2, <2>3, <2>5 DEF TermGraceOver, Outlasts
  <2>6. QED
    BY <2>1, <2>4, <2>5
<1>3. QED
  BY <1>1, <1>2, TrayStarts, PTL DEF TraySpec, ReplacesAsked

-----------------------------------------------------------------------------
\* The desktop's instance.

\* A step of the instance is one of one part, while the others keep still.
LEMMA SinkTakesPart ==
  ASSUME DesktopNext PROVE [SinkNext]_sinkVars
<1>1. CASE SinkPart
  <2>1. part = "sink"  BY <1>1 DEF SinkPart
  <2> QED
    BY <2>1
    DEF DesktopNext, FocusPart, TrayPart,
        OverlayPart, PointerPart, GeometryPart, SinkNext
<1> QED BY <1>1 DEF DesktopNext, FocusPart, TrayPart, OverlayPart, PointerPart, GeometryPart

LEMMA FocusTakesPart ==
  ASSUME DesktopNext PROVE [FocusNext]_focusVars
<1>1. CASE FocusPart
  <2>1. part = "focus"  BY <1>1 DEF FocusPart
  <2> QED
    BY <2>1
    DEF DesktopNext, SinkPart, TrayPart,
        OverlayPart, PointerPart, GeometryPart, FocusNext
<1> QED BY <1>1 DEF DesktopNext, SinkPart, TrayPart, OverlayPart, PointerPart, GeometryPart

LEMMA TrayTakesPart ==
  ASSUME DesktopNext PROVE [TrayNext]_trayVars
<1>1. CASE TrayPart
  <2>1. part = "tray"  BY <1>1 DEF TrayPart
  <2> QED
    BY <2>1
    DEF DesktopNext, SinkPart, FocusPart,
        OverlayPart, PointerPart, GeometryPart, TrayNext,
              EngineRuns, ManagerRuns, TrayRuns
<1> QED BY <1>1 DEF DesktopNext, SinkPart, FocusPart, OverlayPart, PointerPart, GeometryPart

LEMMA OverlayTakesPart ==
  ASSUME DesktopNext PROVE [OverlayNext]_overlayVars
<1>1. CASE OverlayPart
  <2>1. part = "overlay"  BY <1>1 DEF OverlayPart
  <2> QED
    BY <2>1
    DEF DesktopNext, SinkPart, FocusPart,
        TrayPart, PointerPart, GeometryPart, OverlayNext,
              EventLoopRuns, CompositorRuns
<1> QED BY <1>1 DEF DesktopNext, SinkPart, FocusPart, TrayPart, PointerPart, GeometryPart

LEMMA KWinTakesPart ==
  ASSUME DesktopNext PROVE [KWinNext]_kwinVars
<1>1. CASE PointerPart
  <2>1. part = "pointer"  BY <1>1 DEF PointerPart
  <2> QED
    BY <2>1
    DEF DesktopNext, SinkPart, FocusPart,
        TrayPart, OverlayPart, GeometryPart, KWinNext
<1> QED BY <1>1 DEF DesktopNext, SinkPart, FocusPart, TrayPart, OverlayPart, GeometryPart

LEMMA GeometryTakesPart ==
  ASSUME DesktopNext PROVE [GeometryNext]_geometryVars
<1>1. CASE GeometryPart
  <2>1. part = "geometry"  BY <1>1 DEF GeometryPart
  <2> QED
    BY <2>1
    DEF DesktopNext, SinkPart, FocusPart,
        TrayPart, OverlayPart, PointerPart, GeometryNext
<1> QED BY <1>1 DEF DesktopNext, SinkPart, FocusPart, TrayPart, OverlayPart, PointerPart

\* Every behaviour of the desktop's instance is one of each part, so that what is proved
\* of a part holds of what the run explores.
THEOREM DesktopIsItsParts ==
  DesktopSpec => /\ SinkSpec /\ FocusSpec /\ TraySpec
                 /\ OverlaySpec /\ KWinSpec /\ GeometrySpec
<1>1. DesktopInit => /\ SinkInit /\ FocusInit /\ TrayInit
                     /\ OverlayInit /\ KWinInit /\ GeometryInit
  BY DEF DesktopInit
<1>2. [DesktopNext]_vars => [SinkNext]_sinkVars /\ [FocusNext]_focusVars
  BY SinkTakesPart, FocusTakesPart DEF vars
<1>3. [DesktopNext]_vars => [TrayNext]_trayVars /\ [OverlayNext]_overlayVars
  BY TrayTakesPart, OverlayTakesPart DEF vars
<1>4. [DesktopNext]_vars => [KWinNext]_kwinVars /\ [GeometryNext]_geometryVars
  BY KWinTakesPart, GeometryTakesPart DEF vars
<1> QED BY <1>1, <1>2, <1>3, <1>4, PTL
     DEF DesktopSpec, SinkSpec, FocusSpec, TraySpec, OverlaySpec, KWinSpec, GeometrySpec

\* The variables of every part of the desktop's instance keep their types.
THEOREM DesktopTypeCorrect == DesktopSpec => []DesktopTypeOK
<1>1. DesktopInit => part \in Parts
  BY DEF DesktopInit
<1>2. part \in Parts /\ [DesktopNext]_vars => (part \in Parts)'
  BY DEF DesktopNext, SinkPart, FocusPart, TrayPart, OverlayPart, PointerPart,
         GeometryPart, vars
<1>3. DesktopSpec => [](part \in Parts)
  BY <1>1, <1>2, PTL DEF DesktopSpec
<1>4. /\ SinkTypeOK /\ FocusTypeOK /\ OverlayTypeOK /\ KWinTypeOK
      /\ part \in Parts
      => DesktopTypeOK
  BY DEF DesktopTypeOK
<1> QED
  BY <1>3, <1>4, DesktopIsItsParts, SinkTypeCorrect, FocusTypeCorrect, OverlayTypeCorrect,
     KWinTypeCorrect, PTL
=============================================================================
