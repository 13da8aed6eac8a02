\* The sink, the focus and pointer sources, the overlay process, its geometry and
\* the tray, each on its own.
SPECIFICATION DesktopSpec
CONSTANTS
  Parts = {"sink", "focus", "tray", "overlay", "pointer", "geometry"}
  Chars = {"a", "b", "c", "d", "x"}
  Silent = {"x"}
  Texts <- MCTexts
  kFirstInjectionKeycode = 600
  kLastInjectionKeycode = 602
  MaxTyped = 5
  Apps = {"A", "B"}
  TextApps = {"A"}
  FocusFaults = {"register"}
  MaxMoves = 3
  MaxEvents = 2
  MaxFocus = 4
  Engines = {1, 2, 3, 4}
  Starts = {"none", "unit", "loose"}
  HangOutlasts = {"quit"}
  MaxClicks = 2
  Faults = {"hang", "crash"}
  Variants = {"ae"}
  Positions <- MCPositions
  Outputs = {"o1", "o2"}
  MaxShows = 3
  MaxMail = 2
  MaxOutputMoves = 1
  MaxRequestId = 4
  MaxQueries = 4
  MaxLives = 2
  Screens <- MCScreens
  Surfaces <- MCSurfaces
  Points <- MCPoints
  LineHeights = {0, 3, 40}
  kEdgeMargin = 24
INVARIANTS
  DesktopTypeOK
  SinkKeepsText
  CaretIsCurrent
  LabelAgrees
  WindowIsCurrent
  NothingIsLeaked
  PlacementIsSound
PROPERTIES
  ReplacesAsked
  RestartBringsEngine
  OverlayAppears
  AnsweredOnce
CHECK_DEADLOCK FALSE
