---------------------------- MODULE OverlayDaemon ----------------------------
(***************************************************************************)
(* The overlay process: the controller behind its bus interface            *)
(* (src/src/overlay/OverlayController.cpp), the renderer that places its   *)
(* one window (OverlayRenderer in src/src/overlay/main.cpp) and the        *)
(* decisions they share (src/src/core/overlay_render.h).                   *)
(*                                                                         *)
(* The answer to a pointer query comes when another gesture may be on the  *)
(* screen; frames are drawn by a render thread that posts a call per       *)
(* frame; the compositor chooses the output of a grid placement, and the   *)
(* window learns of it later.  The bar of a gesture counts only by its      *)
(* message, which shuts the gate of the transitions; its times are left out. *)
(***************************************************************************)
EXTENDS Integers, Sequences

CONSTANTS
  Variants,      \* lists of variants a show can carry
  Positions,     \* [kind: {"grid", "cursor", "caret"}, grid: ...]: what is asked
                 \* for and the grid position to fall back to
  Outputs,       \* monitors
  MaxShows,      \* bound: what the engine shows and hides
  MaxMail,       \* bound: messages under way
  MaxOutputMoves \* bound: moves of the focus to another output

ASSUME OverlayAssumption ==
  /\ \A p \in Positions : p.kind \in {"grid", "cursor", "caret"}
  /\ MaxShows \in Nat /\ MaxMail \in Nat /\ MaxOutputMoves \in Nat

VARIABLES
  mail,      \* messages of the engine on their way
  ctrl,      \* the controller's members
  rend,      \* the renderer's members
  win,       \* the window
  frameDue,  \* will the window draw?
  posted,    \* calls the render thread posted: the generations they belong to
  asks,      \* pointer queries not answered yet
  activeOutput,      \* where the compositor puts a surface that asks for no output
  shows, outputMoves

overlayVars == <<mail, ctrl, rend, win, frameDue, posted, asks, activeOutput,
                 shows, outputMoves>>

kNoHighlightIndex == -1
NoVariants == "none"
TheName == "name"     \* of a profile, shown as the only variant
NoConnection == 0
Gr(position) == [kind |-> "grid", grid |-> position.grid]

OverlayInit ==
  /\ mail = <<>>
  /\ \E p \in Positions :
       /\ p.kind = "grid"
       /\ ctrl = [variants |-> NoVariants, index |-> 0, position |-> p, label |-> FALSE,
                  visible |-> FALSE, animate |-> TRUE, placed |-> TRUE]
       /\ rend = [loaded |-> FALSE, active |-> FALSE, epoch |-> 1, position |-> p,
                  label |-> FALSE, gridActive |-> FALSE, lastGrid |-> p,
                  pendingRealMargin |-> FALSE, generation |-> 0,
                  restore |-> NoConnection]
       /\ activeOutput \in Outputs
       /\ win = [visible |-> FALSE, spot |-> p, epoch |-> 1, screen |-> activeOutput,
                  output |-> activeOutput, margin |-> activeOutput, provisional |-> FALSE,
                  drawn |-> FALSE]
  /\ frameDue = FALSE
  /\ posted = <<>>
  /\ asks = {}
  /\ shows = 0 /\ outputMoves = 0

\* --- Messages of the engine ---

ShowMsg(variants, index, position, label) ==
  [kind |-> "Show", variants |-> variants, index |-> index, position |-> position,
   label |-> label]
Bare(kind) == [kind |-> kind]

Send(messages) ==
  /\ Len(mail) + Len(messages) <= MaxMail
  /\ mail' = mail \o messages
  /\ UNCHANGED <<ctrl, rend, win, frameDue, posted, asks, activeOutput, outputMoves>>

Showing == shows < MaxShows /\ shows' = shows + 1

\* A gesture opens, with or without the progress bar.
SendGesture(v, p, bar) ==
  /\ Showing
  /\ Send((IF bar THEN <<Bare("SetProgress")>> ELSE <<>>)
          \o <<ShowMsg(v, kNoHighlightIndex, p, FALSE)>>)

\* Cycling shows the variants again with another index.
SendStep(v, p) ==
  /\ Showing
  /\ Send(<<ShowMsg(v, 1, p, FALSE)>>)

SendProfileName(p) ==
  /\ Showing
  /\ Send(<<ShowMsg(TheName, kNoHighlightIndex, p, TRUE)>>)

SendHide == shows > 0 /\ Showing /\ Send(<<Bare("Hide")>>)

\* --- The controller ---

ShowSnapsTransitions(m) ==
  ~ctrl.visible \/ m.variants # ctrl.variants \/ m.index <= kNoHighlightIndex

\* show, up to its signal.
Shown(m) ==
  [ctrl EXCEPT !.animate = @ /\ ~ShowSnapsTransitions(m),
               !.variants = m.variants, !.index = m.index, !.position = m.position,
               !.label = m.label, !.visible = TRUE]

Hidden == [ctrl EXCEPT !.visible = FALSE]

\* --- The renderer ---

DecideRenderAction(c) ==
  IF ~c.visible THEN "Hide"
  ELSE IF rend.active /\ rend.position = c.position /\ rend.label = c.label THEN "None"
  ELSE "Show"

\* armTransitionRestore.
Armed(r) == [r EXCEPT !.generation = @ + 1, !.restore = r.generation + 1]

\* hideWindow.
HideWindow(r) ==
  [r EXCEPT !.active = FALSE, !.gridActive = FALSE, !.pendingRealMargin = FALSE,
            !.epoch = @ + 1]
WindowHidden(w) == [w EXCEPT !.visible = FALSE]

\* applyGridAnchors, for the screen the window knows.
ApplyGridAnchors(w, grid, provisional) ==
  [w EXCEPT !.spot = grid, !.margin = w.screen, !.provisional = provisional]

\* The surface maps on the output the compositor chooses, with a margin that fits
\* every output.
RevealGrid(r, w, position) ==
  /\ rend' = Armed([r EXCEPT !.gridActive = TRUE, !.lastGrid = Gr(position),
                              !.pendingRealMargin = TRUE])
  /\ win' = [ApplyGridAnchors(w, Gr(position), TRUE) EXCEPT
               !.visible = TRUE, !.drawn = FALSE, !.output = activeOutput,
               !.epoch = r.epoch]
  /\ frameDue' = TRUE

\* placePinned: the window owns its output.
PlacePinned(r, w, position, o) ==
  /\ rend' = Armed([r EXCEPT !.gridActive = FALSE])
  /\ win' = [w EXCEPT !.visible = TRUE, !.drawn = FALSE, !.spot = position,
               !.epoch = r.epoch, !.screen = o, !.output = o, !.margin = o, !.provisional = FALSE]
  /\ frameDue' = TRUE

\* reveal; a caret off every output falls back to the grid.
Reveal(r, w, position) ==
  CASE position.kind = "grid" -> RevealGrid(r, w, position) /\ UNCHANGED asks
    [] position.kind = "caret" ->
         /\ UNCHANGED asks
         /\ \/ \E o \in Outputs : PlacePinned(r, w, position, o)
            \/ RevealGrid(r, w, position)
    [] position.kind = "cursor" ->
         /\ asks' = asks \cup {[epoch |-> r.epoch, position |-> position]}
         /\ rend' = r /\ win' = w /\ frameDue' = FALSE

\* Mutant: a frame is drawn only for a change.
RequestUpdateMutant(changed) == frameDue' = (frameDue \/ (win.visible /\ changed))

\* A window that is up draws what changed; requestUpdate asks for a frame also when
\* nothing did.
RequestUpdate(changed) == frameDue' = (frameDue \/ win.visible)

\* syncToController, for the controller's new state.  The scene is loaded with the
\* first show; if that fails nothing is shown.
SyncToController(c) ==
  \/ /\ DecideRenderAction(c) = "None"
     /\ ctrl' = c
     /\ IF c.animate THEN UNCHANGED <<rend, frameDue>>
                     ELSE rend' = Armed(rend) /\ RequestUpdate(c # ctrl)
     /\ UNCHANGED <<win, asks>>
  \/ /\ DecideRenderAction(c) = "Hide"
     /\ ctrl' = c
     /\ rend' = HideWindow(rend) /\ win' = WindowHidden(win) /\ frameDue' = FALSE
     /\ UNCHANGED asks
  \/ /\ DecideRenderAction(c) = "Show" /\ ~rend.loaded
     /\ ctrl' = c
     /\ UNCHANGED <<rend, win, frameDue, asks>>
  \/ /\ DecideRenderAction(c) = "Show"
     /\ ctrl' = [c EXCEPT !.placed = FALSE]
     /\ LET r == HideWindow(rend)
        IN  Reveal([r EXCEPT !.loaded = TRUE, !.position = c.position, !.label = c.label,
                             !.active = TRUE, !.epoch = @ + 1],
                   WindowHidden(win), c.position)

\* --- What the loop of the process serves ---

TakeMail(kind) == mail # <<>> /\ Head(mail).kind = kind /\ mail' = Tail(mail)
Others == <<posted, activeOutput, shows, outputMoves>>

OnShow ==
  /\ TakeMail("Show")
  /\ SyncToController(Shown(Head(mail)))
  /\ UNCHANGED Others

OnHide ==
  /\ TakeMail("Hide")
  /\ SyncToController(Hidden)
  /\ UNCHANGED Others

OnSetProgress ==
  /\ TakeMail("SetProgress")
  /\ ctrl' = [ctrl EXCEPT !.animate = FALSE]
  /\ frameDue' = (frameDue \/ win.visible)
  /\ UNCHANGED <<rend, win, asks>> /\ UNCHANGED Others

\* Mutant: the answer to an earlier query counts as well.
IsEpochCurrentMutant(captured, current) == captured <= current
IsEpochCurrent(captured, current) == captured = current

\* The pointer query answers: late, without a pointer, or with one.
OnCursor(ask) ==
  /\ asks' = asks \ {ask}
  /\ \/ /\ ~(IsEpochCurrent(ask.epoch, rend.epoch) /\ ctrl.visible)
        /\ UNCHANGED <<rend, win, frameDue>>
     \/ /\ IsEpochCurrent(ask.epoch, rend.epoch) /\ ctrl.visible
        /\ \/ RevealGrid(rend, win, ask.position)
           \/ \E o \in Outputs : PlacePinned(rend, win, ask.position, o)
  /\ UNCHANGED <<mail, ctrl>> /\ UNCHANGED Others

\* The render thread draws and posts the call of the connection.
DrawFrame ==
  /\ frameDue /\ win.visible
  /\ frameDue' = FALSE
  /\ posted' = IF rend.restore = NoConnection THEN posted
               ELSE Append(posted, rend.restore)
  /\ win' = [win EXCEPT !.drawn = TRUE]
  /\ UNCHANGED <<mail, ctrl, rend, asks, activeOutput, shows, outputMoves>>

\* The posted call: that of an earlier arming does nothing.
IsGeneration(generation) == generation = rend.generation

OnFrameSwapped ==
  /\ posted # <<>>
  /\ posted' = Tail(posted)
  /\ IF IsGeneration(Head(posted))
     THEN LET real == rend.pendingRealMargin /\ rend.gridActive
          IN  /\ rend' = [rend EXCEPT !.restore = NoConnection,
                                      !.pendingRealMargin = @ /\ ~real]
              /\ win' = IF real THEN ApplyGridAnchors(win, rend.lastGrid, FALSE) ELSE win
              /\ ctrl' = [ctrl EXCEPT !.placed = TRUE, !.animate = TRUE]
              /\ frameDue' = win.visible
     ELSE UNCHANGED <<rend, win, ctrl, frameDue>>
  /\ UNCHANGED <<mail, asks, activeOutput, shows, outputMoves>>

\* The window learns its output; a live grid placement gets the margin for it.
OnScreenChanged ==
  /\ win.visible /\ win.screen # win.output
  /\ LET w == [win EXCEPT !.screen = win.output]
     IN  IF rend.gridActive /\ rend.active
         THEN /\ win' = ApplyGridAnchors(w, rend.lastGrid, FALSE)
              /\ rend' = [rend EXCEPT !.pendingRealMargin = FALSE]
         ELSE win' = w /\ UNCHANGED rend
  /\ UNCHANGED <<mail, ctrl, frameDue, posted, asks, activeOutput, shows, outputMoves>>

\* The user works on another output.
MoveToOutput(o) ==
  /\ o # activeOutput /\ outputMoves < MaxOutputMoves
  /\ outputMoves' = outputMoves + 1
  /\ activeOutput' = o
  /\ UNCHANGED <<mail, ctrl, rend, win, frameDue, posted, asks, shows>>

\* What runs by itself: the process's event loop (a query for the pointer is
\* answered or times out after a second), and the compositor.
EventLoopRuns ==
  \/ OnShow
  \/ OnHide
  \/ OnSetProgress
  \/ \E ask \in asks : OnCursor(ask)
  \/ OnFrameSwapped

CompositorRuns == DrawFrame \/ OnScreenChanged

OverlayNext ==
  \/ \E v \in Variants, p \in Positions, bar \in BOOLEAN : SendGesture(v, p, bar)
  \/ \E v \in Variants, p \in Positions : SendStep(v, p)
  \/ \E p \in Positions : SendProfileName(p)
  \/ SendHide
  \/ EventLoopRuns
  \/ CompositorRuns
  \/ \E o \in Outputs : MoveToOutput(o)

OverlaySpec == OverlayInit /\ [][OverlayNext]_overlayVars

\* --- Properties ---

PositionSet == Positions \cup {Gr(p) : p \in Positions}

\* The variables keep their types.
OverlayTypeOK ==
  /\ ctrl \in [variants: Variants \cup {NoVariants, TheName}, index: {kNoHighlightIndex, 0, 1},
               position: Positions, label: BOOLEAN, visible: BOOLEAN, animate: BOOLEAN,
               placed: BOOLEAN]
  /\ rend \in [loaded: BOOLEAN, active: BOOLEAN, epoch: Nat, position: Positions,
               label: BOOLEAN, gridActive: BOOLEAN, lastGrid: PositionSet,
               pendingRealMargin: BOOLEAN, generation: Nat, restore: Nat]
  /\ win \in [visible: BOOLEAN, spot: PositionSet, epoch: Nat, screen: Outputs,
              output: Outputs, margin: Outputs, provisional: BOOLEAN, drawn: BOOLEAN]
  /\ frameDue \in BOOLEAN
  /\ posted \in Seq(Nat)
  /\ \A a \in asks : a.epoch \in Nat /\ a.position \in Positions

\* A window on the screen belongs to the overlay the controller shows now and was
\* placed for it: at its position or the grid position it falls back to.  An answer
\* to an earlier gesture never moves it (main.cpp 564-709).
PlacementIsCurrent ==
  win.visible =>
    /\ ctrl.visible /\ rend.active
    /\ win.epoch = rend.epoch
    /\ win.spot \in {ctrl.position, Gr(ctrl.position)}
    /\ ctrl.label = rend.label

\* "Keep the panel content invisible until the surface has committed at its final
\* margin" (reveal): a revealed panel's surface has drawn and has not the
\* provisional margin.
RevealedAtFinalMargin == win.visible /\ ctrl.placed => win.drawn /\ ~win.provisional

\* It holds for every placement that arms its own frame at once, whatever frames of
\* earlier surfaces are still posted (main.cpp 372-423, 594-659).
SyncRevealIsFinal == ctrl.position.kind # "cursor" => RevealedAtFinalMargin

\* Once the frames are drawn and the window knows its output, the margin is the one
\* for that output (main.cpp 349-357, 390-414).
MarginSettles ==
  /\ win.visible /\ ~frameDue /\ posted = <<>> /\ win.screen = win.output
  => win.margin = win.output /\ ~win.provisional

\* The three together: the window on the screen is the one that is meant.
WindowIsCurrent == PlacementIsCurrent /\ SyncRevealIsFinal /\ MarginSettles

\* An overlay that is shown gets its window, its content and its transitions, or is
\* hidden: no lost frame, query or screen leaves the gate shut (main.cpp 241-423).
OverlayAppears ==
  ctrl.visible /\ rend.active
    ~> ~ctrl.visible \/ (win.visible /\ ctrl.placed /\ ctrl.animate)
=============================================================================
