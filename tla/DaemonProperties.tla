-------------------------- MODULE DaemonProperties --------------------------
(***************************************************************************)
(* What the daemon's loop promises, whatever falls between two of its      *)
(* steps.                                                                  *)
(***************************************************************************)
EXTENDS Daemon

KeyEvent == [key: DaemonKeys, value: {"press", "release", "repeat"}, direct: BOOLEAN]
Keyboard == [state: {"none", "settling", "grabbed"}, gen: Nat, startup: BOOLEAN,
             due: BOOLEAN, dead: BOOLEAN, buffer: Seq(KeyEvent), overrun: BOOLEAN,
             read: SUBSET DaemonKeys, app: SUBSET DaemonKeys]
TimerStates == {"off", "armed", "due"}

MainState ==
  [shifts: SUBSET Shifts, owned: SUBSET Letters, window: TimerStates,
   debounce: TimerStates, paused: BOOLEAN, cfg: Config, sinkDead: BOOLEAN,
   pendingStartup: Int, startupGrabbed: BOOLEAN, stop: BOOLEAN,
   exitCode: {0, 1, kExitSessionUnsupported}]

\* The daemon's variables keep the types main.cpp gives them.
DaemonTypeOK ==
  /\ plugs \in [Paths -> Nat]
  /\ access \subseteq Paths /\ nodeEvents \subseteq Paths
  /\ down \in [Paths -> SUBSET DaemonKeys]
  /\ disk \in Config
  /\ edited \in BOOLEAN /\ signalled \in BOOLEAN /\ compositor \in BOOLEAN
  /\ calls \in Seq(Methods)
  /\ scene \in Scene
  /\ kb \in [Paths -> Keyboard]
  /\ dmn \in MainState
  /\ pc \in {"boot", "load", "scan", "config", "wait", "pass", "exited"}
  /\ serving \in Paths \cup {NoPath, Control}
  /\ batch \subseteq Callbacks

Running == pc \in {"wait", "pass"}
Exited(code) == pc = "exited" /\ dmn.exitCode = code
Grabbed(p) == kb[p].state = "grabbed" /\ ~Gone(p)

\* Safety.

\* As long as the kernel loses no event, the applications hold no key on a clone
\* that is not held according to the events read, although pausing and resuming
\* throw the engine's gesture away and the pause shortcut swallows a press
\* (main.cpp 350-360 and 417-452, evdev_key_source.cpp 139-147).  It ends with the
\* panic combination: while both Shifts are held the engine is not asked, so that in
\* the last drain a withheld key can be let go, pressed and, once a Shift is up, have
\* its release swallowed.  The clone goes right after that.
NoKeyLeftBehind == ~dmn.stop => \A p \in Paths : kb[p].app \subseteq kb[p].read

\* A paused daemon has no gesture half open: no release will be swallowed and no
\* window timer will commit a text (main.cpp 350-360).
PausedIsQuiet ==
  dmn.paused => dmn.owned = {} /\ dmn.window = "off" /\ "window" \notin batch

StartupSettling == {p \in Paths : kb[p].startup /\ kb[p].state = "settling"}
\* The daemon does not run on with nothing grabbed: each startup grab is
\* counted until its settle timer has decided it, and when the last one is and
\* none succeeded, the daemon stops with code 1 (main.cpp 496-578).
StartupVerdict ==
  Running =>
    /\ dmn.pendingStartup = Cardinality(StartupSettling)
    /\ StartupSettling = {} => dmn.startupGrabbed \/ (dmn.stop /\ dmn.exitCode = 1)

\* Reading is the step that takes one event out of a keyboard's buffer (losing the
\* keyboard or overrunning the buffer empties it).
Reads(p) == /\ serving = p /\ ~Gone(p) /\ kb[p].buffer # <<>>
            /\ kb'[p].buffer = Tail(kb[p].buffer)
            /\ plugs' = plugs /\ ~kb'[p].overrun

\* Once the connection to the compositor is lost, every key still read in the
\* same drain is handed to the application (main.cpp 418-427).
DeadSinkForwards ==
  [][\A p \in Paths : dmn.sinkDead /\ Reads(p)
        => kb'[p].app = ReadKey(kb[p].app, Head(kb[p].buffer))]_vars

\* Liveness.

\* A keyboard that is plugged in and that nobody else has grabbed is grabbed,
\* whether it was there at the start or came later, even between the scan and
\* the watch (main.cpp 480-591 and 699-719).
KeyboardsGetGrabbed ==
  \A p \in Paths : Plugged(p) /\ Fate(p) = "free"
                   ~> Grabbed(p) \/ ~Plugged(p) \/ pc = "exited"

\* Losing the compositor ends with code 1, so that the service manager starts
\* the daemon anew, also when it was told to quit in the same pass
\* (main.cpp 768-781).
DeadSinkRestarts == dmn.sinkDead ~> Exited(1)

\* In the end the daemon runs with what is on disk (main.cpp 593-627, 720-747).
ReloadConverges == <>[](pc = "exited" \/ dmn.cfg = disk)

\* What the program says of itself and does not do.

\* "if the reload removed (or broke) the toggle shortcut, ... resume"
\* (main.cpp 401-408): only then does a reload lift a pause.
ReloadKeepsPause ==
  [][dmn.paused /\ ~dmn'.paused /\ batch \ batch' = {"reload"}
     => dmn.cfg.shortcut]_vars

\* "applications cannot tell the interposer is there": no key event that the
\* compositor got from the keyboard itself is handled again.
HandledOnce ==
  [][\A p \in Paths : Reads(p) => ~Head(kb[p].buffer).direct]_vars
=============================================================================
