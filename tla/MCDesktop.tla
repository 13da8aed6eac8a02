------------------------------ MODULE MCDesktop ------------------------------
(***************************************************************************)
(* Finite instances of what surrounds the engine on the desktop: the sink, *)
(* the caret and the pointer source, the overlay process, the placement of *)
(* its window, and the tray.  Every behaviour is one of one part, the rest *)
(* keeps still, so that one run checks them all without their product.     *)
(***************************************************************************)
EXTENDS Sink, FocusSource, Tray, OverlayDaemon, KWinCursor, Geometry

CONSTANT Parts    \* {"sink", "focus", "tray", "overlay", "pointer", "geometry"}
VARIABLE part

\* One slot less than characters; x is one whose keysym types nothing.
MCTexts == {<<"a">>, <<"b", "a">>, <<"c", "x">>, <<"d">>}

\* All three placements; caret and grid fall back to different grid positions.
MCPositions == {[kind |-> "grid", grid |-> "g1"], [kind |-> "cursor", grid |-> "g1"],
                [kind |-> "caret", grid |-> "g2"]}

\* A monitor and one right of it of odd size; a bare panel, one with a progress
\* bar, and one larger than the second monitor; points at and beyond the edges.
MCScreens == {[x |-> 0, y |-> 0, w |-> 240, h |-> 160],
              [x |-> 240, y |-> -20, w |-> 161, h |-> 100]}
MCSurfaces == {[w |-> 70, h |-> 30, frameW |-> 70, frameH |-> 30],
               [w |-> 101, h |-> 52, frameW |-> 41, frameH |-> 30],
               [w |-> 191, h |-> 111, frameW |-> 150, frameH |-> 40]}
MCPoints == [x: {-5, 0, 119, 238, 300, 400}, y: {-19, 0, 40, 79, 158, 200}]

vars == <<part, sinkVars, focusVars, trayVars, overlayVars, kwinVars, geometryVars>>

\* The initial states of a part are its own; the others have one of theirs.
DesktopInit ==
  /\ part \in Parts
  /\ SinkInit /\ (part # "sink" => connected)
  /\ FocusInit /\ (part # "focus" => focused = "A")
  /\ TrayInit /\ (part # "tray" => unit = "missing" /\ inbox # <<>>)
  /\ OverlayInit /\ (part # "overlay" => activeOutput = "o1")
  /\ KWinInit /\ (part # "pointer" => files = {})
  /\ GeometryInit

\* A step of one part.  The geometry is pure: one placement in a behaviour is enough.
SinkPart ==
  /\ part = "sink"
  /\ UNCHANGED <<part, focusVars, trayVars, overlayVars, kwinVars, geometryVars>>
FocusPart ==
  /\ part = "focus"
  /\ UNCHANGED <<part, sinkVars, trayVars, overlayVars, kwinVars, geometryVars>>
TrayPart ==
  /\ part = "tray"
  /\ UNCHANGED <<part, sinkVars, focusVars, overlayVars, kwinVars, geometryVars>>
OverlayPart ==
  /\ part = "overlay"
  /\ UNCHANGED <<part, sinkVars, focusVars, trayVars, kwinVars, geometryVars>>
PointerPart ==
  /\ part = "pointer"
  /\ UNCHANGED <<part, sinkVars, focusVars, trayVars, overlayVars, geometryVars>>
GeometryPart ==
  /\ part = "geometry" /\ request = Nowhere
  /\ UNCHANGED <<part, sinkVars, focusVars, trayVars, overlayVars, kwinVars>>

\* The disjuncts of SinkNext, FocusNext, TrayNext, OverlayNext, KWinNext, GeometryNext.
DesktopNext ==
  \/ SinkPart
     /\ \E result \in {"Ok", "NoDisplayServer", "ProtocolAbsent", "ProtocolUnusable"} :
          InitSink(result)
  \/ SinkPart /\ \E text \in Texts : Commit(text)
  \/ SinkPart /\ PressKnown
  \/ SinkPart /\ PressNew
  \/ SinkPart /\ UploadFails
  \/ SinkPart /\ KeymapFull
  \/ SinkPart /\ RoundTrip
  \/ SinkPart /\ Serve
  \/ SinkPart /\ Disconnect
  \/ FocusPart /\ \E app \in Apps : UserFocuses(app)
  \/ FocusPart /\ \E app \in Apps : CaretMoves(app)
  \/ FocusPart /\ Activate
  \/ FocusPart /\ Deactivate
  \/ FocusPart /\ OnCaretMoved
  \/ FocusPart /\ OnFocusChanged
  \/ FocusPart /\ OnCaretOffsetReply
  \/ FocusPart /\ OnExtentsReply
  \/ TrayPart /\ \E e \in Engines : StartControl(e)
  \/ TrayPart /\ \E e \in Engines : StartupGrab(e)
  \/ TrayPart /\ \E e \in Engines : ServeCall(e)
  \/ TrayPart /\ \E e \in Engines : Terminate(e)
  \/ TrayPart /\ \E e \in Engines : Recover(e)
  \/ TrayPart /\ \E e \in Engines : Shortcut(e)
  \/ TrayPart /\ \E e \in Engines : Hang(e)
  \/ TrayPart /\ \E e \in Engines : Crash(e)
  \/ TrayPart /\ \E e \in Engines : CallTimeout(e)
  \/ TrayPart /\ RunJob
  \/ TrayPart /\ RestartFailed
  \/ TrayPart /\ Receive
  \/ TrayPart /\ QuitProbed
  \/ TrayPart /\ RestartProbed
  \/ TrayPart /\ OwnerGone
  \/ TrayPart /\ QuitGraceOver
  \/ TrayPart /\ TermGraceOver
  \/ TrayPart /\ OpenMenu
  \/ TrayPart /\ ClickPause
  \/ TrayPart /\ ClickQuit
  \/ TrayPart /\ ClickRestart
  \/ OverlayPart /\ \E v \in Variants, p \in Positions, bar \in BOOLEAN :
       SendGesture(v, p, bar)
  \/ OverlayPart /\ \E v \in Variants, p \in Positions : SendStep(v, p)
  \/ OverlayPart /\ \E p \in Positions : SendProfileName(p)
  \/ OverlayPart /\ SendHide
  \/ OverlayPart /\ OnShow
  \/ OverlayPart /\ OnHide
  \/ OverlayPart /\ OnSetProgress
  \/ OverlayPart /\ \E ask \in asks : OnCursor(ask)
  \/ OverlayPart /\ OnFrameSwapped
  \/ OverlayPart /\ DrawFrame
  \/ OverlayPart /\ OnScreenChanged
  \/ OverlayPart /\ \E o \in Outputs : MoveToOutput(o)
  \/ PointerPart /\ Construct
  \/ PointerPart /\ \E written \in BOOLEAN : GetCursor(written)
  \/ PointerPart /\ OnLoadReply
  \/ PointerPart /\ ReportCursor
  \/ PointerPart /\ Timeout
  \/ PointerPart /\ Die
  \/ PointerPart /\ \E path \in {NoPath} \cup FreePaths : KWinLoads(path)
  \/ PointerPart /\ \E reports \in BOOLEAN : KWinRuns(reports)
  \/ PointerPart /\ KWinStops
  \/ GeometryPart /\ \E p \in Points, o \in Screens, s \in Surfaces : PlaceAtCursor(p, o, s)
  \/ GeometryPart /\ \E p \in Points, height \in LineHeights, o \in Screens, s \in Surfaces :
       PlaceAtCaret(p, height, o, s)
  \/ GeometryPart
     /\ \E row \in Rows, col \in Columns, bar \in BOOLEAN, o \in Screens, s \in Surfaces :
          PlaceOnGrid(row, col, bar, o, s)

\* Each process goes on as long as it has something to do; hangs end only where
\* HangOutlasts assumes it.  Of KWin nothing is assumed, the timer fires.
DesktopSpec ==
  /\ DesktopInit /\ [][DesktopNext]_vars
  /\ \A e \in Engines : WF_trayVars(part = "tray" /\ EngineRuns(e))
  /\ WF_trayVars(part = "tray" /\ ManagerRuns)
  /\ WF_trayVars(part = "tray" /\ TrayRuns)
  /\ WF_overlayVars(part = "overlay" /\ EventLoopRuns)
  /\ WF_overlayVars(part = "overlay" /\ CompositorRuns)
  /\ WF_kwinVars(part = "pointer" /\ Timeout)

\* The variables of every part keep their types.
DesktopTypeOK ==
  /\ SinkTypeOK /\ FocusTypeOK /\ OverlayTypeOK /\ KWinTypeOK
  /\ part \in Parts
=============================================================================
