------------------------------- MODULE Daemon -------------------------------
(***************************************************************************)
(* The daemon around the engine (src/src/app/main.cpp): one event loop that *)
(* grabs the keyboards, follows hotplug, reloads the configuration, obeys  *)
(* the pause and panic shortcuts and the D-Bus control service, and decides *)
(* with which code it exits.                                               *)
(*                                                                         *)
(* A pass of the loop takes the set of ready file descriptors from epoll   *)
(* and serves each once; serving a keyboard drains its buffer event by     *)
(* event, serving the timerfd runs the whole batch of due callbacks.  What *)
(* happens outside (keys, plugging, edits, D-Bus calls) may fall between   *)
(* any two of these steps.                                                 *)
(*                                                                         *)
(* The gesture engine is reduced to what the loop sees of it (module       *)
(* KeyAnswers): the keys whose release it will consume, whether a window   *)
(* timer runs, and that a commit may find the compositor gone.  Module     *)
(* Engine has the rest.                                                    *)
(***************************************************************************)
EXTENDS Integers, Sequences, FiniteSets, KeyAnswers

CONSTANTS
  Paths,         \* /dev/input/event* nodes keyboards appear at
  LeftShift, RightShift,   \* the keys of the panic combination
  PauseKey,      \* the key of the pause shortcut
  Settings,      \* what the mapping and profile files may hold
  Scenes,        \* what is there at the start, and bounds: how often each
                 \* thing may happen outside
  MaxBuffer,     \* bound: unread events of one keyboard
  Races          \* what may fall into a gap: a "replug" before the daemon has
                 \* dropped the old keyboard, an "edit" between loading the
                 \* files and watching them, "keys" held when a keyboard is opened

Shifts == {LeftShift, RightShift}
DaemonKeys == Shifts \cup {PauseKey} \cup Letters

\* A keyboard is free, held by a rival grabber, or cannot be cloned.
Scene == [plugged: SUBSET Paths, fate: [Paths -> {"free", "rival", "clone"}],
          keys: Nat, drops: Nat, plugs: Nat, unplugs: Nat, edits: Nat,
          calls: Nat, signals: Nat, crashes: Nat]

ASSUME DaemonAssumption ==
  /\ IsFiniteSet(Paths)
  /\ \A name \in {"none", "control", "window", "reload"} : name \notin Paths
  /\ Scenes \subseteq Scene

VARIABLES
  plugs,       \* per path, pluggings and unpluggings so far: odd is plugged
  access,      \* paths udev has opened to the user
  nodeEvents,  \* paths with unread inotify events
  down,        \* per path, the keys physically held
  disk,        \* the configuration files: [shortcut, data]
  edited,      \* unread config inotify events
  calls,       \* D-Bus calls not yet processed
  signalled,   \* SIGINT or SIGTERM pending
  compositor,  \* is the display server there?
  scene,
  kb,          \* per path, its GrabbedKeyboard (the vector has one per path)
  dmn,         \* main's other local variables
  pc, ready, serving, batch

world == <<plugs, access, nodeEvents, down, disk, edited, calls, signalled,
           compositor, scene>>
loop == <<pc, ready, serving, batch>>
vars == <<world, kb, dmn, loop>>

Plugged(p) == plugs[p] % 2 = 1
NoPath == "none"
Control == "control"
Methods == {"Pause", "Resume", "Toggle", "Quit"}
Config == [shortcut: BOOLEAN, data: Settings]
Callbacks == {"window", "reload"} \cup Paths

\* No GrabbedKeyboard for a path.  state: "settling" until the settle timer
\* fires (due), then "grabbed"; gen is the plugging its fd belongs to; buffer
\* and overrun are the kernel's queue for that fd, read is libevdev's key
\* state, app what the clone holds down.
NoKeyboard == [state |-> "none", gen |-> 0, startup |-> FALSE, due |-> FALSE,
               dead |-> FALSE, buffer |-> <<>>, overrun |-> FALSE,
               read |-> {}, app |-> {}]

Init ==
  /\ scene \in Scenes
  /\ plugs = [p \in Paths |-> IF p \in scene.plugged THEN 1 ELSE 0]
  /\ access = scene.plugged
  /\ nodeEvents = {}
  /\ down = [p \in Paths |-> {}]
  /\ disk \in Config
  /\ edited = FALSE
  /\ calls = <<>>
  /\ signalled = FALSE
  /\ compositor = TRUE
  /\ kb = [p \in Paths |-> NoKeyboard]
  /\ dmn = [shifts |-> {}, owned |-> {}, window |-> "off", debounce |-> "off",
            paused |-> FALSE, cfg |-> disk, sinkDead |-> FALSE,
            pendingStartup |-> 0, startupGrabbed |-> FALSE,
            stop |-> FALSE, exitCode |-> 0]
  /\ pc = "boot" /\ ready = {} /\ serving = NoPath /\ batch = {}

Fate(p) == scene.fate[p]
Spend(what) == scene[what] > 0 /\ scene' = [scene EXCEPT ![what] = @ - 1]

-----------------------------------------------------------------------------
(* Outside the daemon.                                                     *)

Opened(p) == kb[p].state # "none" /\ kb[p].gen = plugs[p]
\* Mutant: the watch is added after the scan, when the loop starts.
WatchingDevicesMutant == pc \in {"wait", "pass"}
WatchingDevices == pc \notin {"boot", "load", "exited"}
WatchingConfig == pc \in {"wait", "pass"}

\* The kernel queues an event for every open reader, grabbed or not.  Without a
\* grab the compositor gets it too (direct).  A reader that is being resynchronised
\* gets the state, not the event.
Arrive(p, k, value) ==
  /\ Len(kb[p].buffer) < MaxBuffer
  /\ kb' = IF ~Opened(p) \/ kb[p].overrun THEN kb
           ELSE [kb EXCEPT ![p].buffer =
                   Append(@, [key |-> k, value |-> value,
                              direct |-> kb[p].state # "grabbed"])]

KeyDown(p, k) ==
  /\ Plugged(p) /\ k \notin down[p] /\ pc # "exited"
  /\ "keys" \in Races \/ Opened(p)
  /\ Spend("keys")
  /\ down' = [down EXCEPT ![p] = @ \cup {k}]
  /\ Arrive(p, k, "press")
  /\ UNCHANGED <<plugs, access, nodeEvents, disk, edited, calls, signalled,
                 compositor, dmn, loop>>

KeyUp(p, k) ==
  /\ k \in down[p] /\ pc # "exited"
  /\ down' = [down EXCEPT ![p] = @ \ {k}]
  /\ Arrive(p, k, "release")
  /\ UNCHANGED <<plugs, access, nodeEvents, disk, edited, calls, signalled,
                 compositor, scene, dmn, loop>>

\* The kernel repeats a held key.
KeyRepeat(p, k) ==
  /\ k \in down[p] /\ pc # "exited"
  /\ Spend("keys")
  /\ Arrive(p, k, "repeat")
  /\ UNCHANGED <<plugs, access, nodeEvents, down, disk, edited, calls,
                 signalled, compositor, dmn, loop>>

\* More events than the kernel keeps: all of them are dropped.
Overrun(p) ==
  /\ Opened(p) /\ kb[p].buffer # <<>>
  /\ Spend("drops")
  /\ kb' = [kb EXCEPT ![p].buffer = <<>>, ![p].overrun = TRUE]
  /\ UNCHANGED <<plugs, access, nodeEvents, down, disk, edited, calls,
                 signalled, compositor, dmn, loop>>

\* IN_CREATE: the node is not yet accessible.
Plug(p) ==
  /\ ~Plugged(p) /\ pc # "exited"
  /\ "replug" \in Races \/ kb[p].state = "none"
  /\ Spend("plugs")
  /\ plugs' = [plugs EXCEPT ![p] = @ + 1]
  /\ nodeEvents' = IF WatchingDevices THEN nodeEvents \cup {p} ELSE nodeEvents
  /\ UNCHANGED <<access, down, disk, edited, calls, signalled, compositor,
                 kb, dmn, loop>>

\* IN_ATTRIB: udev lets the user open the node.
GrantAccess(p) ==
  /\ Plugged(p) /\ p \notin access /\ pc # "exited"
  /\ access' = access \cup {p}
  /\ nodeEvents' = IF WatchingDevices THEN nodeEvents \cup {p} ELSE nodeEvents
  /\ UNCHANGED <<plugs, down, disk, edited, calls, signalled, compositor,
                 scene, kb, dmn, loop>>

Unplug(p) ==
  /\ Plugged(p) /\ pc # "exited"
  /\ Spend("unplugs")
  /\ plugs' = [plugs EXCEPT ![p] = @ + 1]
  /\ access' = access \ {p}
  /\ down' = [down EXCEPT ![p] = {}]
  /\ kb' = [kb EXCEPT ![p].buffer = <<>>, ![p].overrun = FALSE]
  /\ UNCHANGED <<nodeEvents, disk, edited, calls, signalled, compositor, dmn,
                 loop>>

\* The editor saves one file; what it touches and when is its own business.
Edit ==
  /\ pc # "exited"
  /\ "edit" \in Races \/ WatchingConfig \/ pc = "boot"
  /\ Spend("edits")
  /\ \E d \in Config \ {disk} : disk' = d
  /\ edited' = (edited \/ WatchingConfig)
  /\ UNCHANGED <<plugs, access, nodeEvents, down, calls, signalled, compositor,
                 kb, dmn, loop>>

Call(m) ==
  /\ WatchingConfig
  /\ Spend("calls")
  /\ calls' = Append(calls, m)
  /\ UNCHANGED <<plugs, access, nodeEvents, down, disk, edited, signalled,
                 compositor, kb, dmn, loop>>

Signal ==
  /\ WatchingConfig /\ ~signalled
  /\ Spend("signals")
  /\ signalled' = TRUE
  /\ UNCHANGED <<plugs, access, nodeEvents, down, disk, edited, calls,
                 compositor, kb, dmn, loop>>

CompositorGoes ==
  /\ compositor /\ pc # "exited"
  /\ Spend("crashes")
  /\ compositor' = FALSE
  /\ UNCHANGED <<plugs, access, nodeEvents, down, disk, edited, calls,
                 signalled, kb, dmn, loop>>

\* Time passes until an armed timer is due.
Settled(p) ==
  /\ kb[p].state = "settling" /\ ~kb[p].due /\ p \notin batch
  /\ kb' = [kb EXCEPT ![p].due = TRUE]
  /\ UNCHANGED <<world, dmn, loop>>

WindowDue ==
  /\ dmn.window = "armed"
  /\ dmn' = [dmn EXCEPT !.window = "due"]
  /\ UNCHANGED <<world, kb, loop>>

DebounceDue ==
  /\ dmn.debounce = "armed"
  /\ dmn' = [dmn EXCEPT !.debounce = "due"]
  /\ UNCHANGED <<world, kb, loop>>

-----------------------------------------------------------------------------
(* Starting up.                                                            *)

\* Exiting closes every fd: the grabs and the clones go, gestures are cleared.
Exit(code) ==
  /\ pc' = "exited" /\ ready' = {} /\ serving' = NoPath /\ batch' = {}
  /\ kb' = [p \in Paths |-> NoKeyboard]
  /\ dmn' = [dmn EXCEPT !.owned = {}, !.window = "off", !.debounce = "off",
                        !.stop = TRUE, !.exitCode = code]

Goto(next) == pc' = next /\ UNCHANGED <<ready, serving, batch>>

\* Reading the files and connecting the virtual keyboard.  Only a session
\* without the protocol is given up for good.
kExitSessionUnsupported == 69
Load ==
  /\ pc = "boot"
  /\ \/ /\ compositor
        /\ dmn' = [dmn EXCEPT !.cfg = disk]
        /\ Goto("load")
        /\ UNCHANGED kb
     \/ Exit(1)
     \/ compositor /\ Exit(kExitSessionUnsupported)
  /\ UNCHANGED world

\* The device directory is watched before it is scanned.
WatchDevices ==
  /\ pc = "load"
  /\ Goto("scan")
  /\ UNCHANGED <<world, kb, dmn>>

Eligible(p) == Plugged(p) /\ p \in access

\* grabKeyboard: opens the device, snapshots its keys, makes the clone and arms
\* the settle timer.  A path that already has a keyboard is refused.
GrabKeyboard(p, startup) ==
  IF kb[p].state # "none" \/ Fate(p) = "clone" THEN kb[p]
  ELSE [NoKeyboard EXCEPT !.state = "settling", !.gen = plugs[p],
                          !.startup = startup, !.read = down[p]]

Scan ==
  /\ pc = "scan"
  /\ LET found == [p \in Paths |-> IF Eligible(p) THEN GrabKeyboard(p, TRUE) ELSE kb[p]]
         opened == {p \in Paths : found[p].state = "settling"}
     IN  IF opened = {} THEN Exit(1)
         ELSE /\ kb' = found
              /\ dmn' = [dmn EXCEPT !.pendingStartup = Cardinality(opened)]
              /\ Goto("config")
  /\ UNCHANGED world

\* The config watch and the control service come last.
WatchConfig ==
  /\ pc = "config"
  /\ Goto("wait")
  /\ UNCHANGED <<world, kb, dmn>>

-----------------------------------------------------------------------------
(* The handler of a key event: [d, consumed], from the daemon's record.    *)

\* Mutant: the gesture survives the pause.
FocusChangedMutant(d) == [d EXCEPT !.window = "off"]
\* Mutant: the window timer survives the pause.
FocusTimerMutant(d) == [d EXCEPT !.owned = {}]
FocusChanged(d) == [d EXCEPT !.owned = {}, !.window = "off"]

\* The flag, the engine's gesture, and control.setPaused, which keeps a copy.
SetPaused(d, on) ==
  IF d.paused = on THEN d ELSE [FocusChanged(d) EXCEPT !.paused = on]

\* Mutant: whatever key sets a flag.
ShiftFlagsMutant(d, e) ==
  IF e.value = "release" THEN d.shifts \ {e.key} ELSE d.shifts \cup {e.key}

ShiftFlags(d, e) ==
  IF e.key \notin Shifts THEN d.shifts
  ELSE IF e.value = "release" THEN d.shifts \ {e.key} ELSE d.shifts \cup {e.key}

\* A dead sink first, then the panic combination, the pause shortcut (if the
\* modifiers are held: either may be), the pause, and the engine.
Handler(d, e) ==
  IF d.sinkDead THEN {[d |-> d, consumed |-> FALSE]}
  ELSE LET s == [d EXCEPT !.shifts = ShiftFlags(d, e)]
           pass == IF s.paused THEN {[d |-> s, consumed |-> FALSE]} ELSE EngineKey(s, e, ~compositor)
       IN  IF Shifts \subseteq s.shifts
           THEN {[d |-> [s EXCEPT !.stop = TRUE], consumed |-> FALSE]}
           ELSE IF e.key = PauseKey /\ e.value = "press" /\ s.cfg.shortcut
           THEN {[d |-> SetPaused(s, ~s.paused), consumed |-> TRUE]} \cup pass
           ELSE pass

-----------------------------------------------------------------------------
(* The loop.                                                               *)

Gone(p) == kb[p].gen # plugs[p]
Due == {p \in Paths : kb[p].due}
       \cup (IF dmn.window = "due" THEN {"window"} ELSE {})
       \cup (IF dmn.debounce = "due" THEN {"reload"} ELSE {})

ReadyFds ==
  {p \in Paths : /\ kb[p].state = "grabbed"
                 /\ kb[p].buffer # <<>> \/ kb[p].overrun \/ Gone(p)}
  \cup {fd \in {"timers", "signal", "hotplug", "config", "control"} :
          CASE fd = "timers"  -> Due # {}
            [] fd = "signal"  -> signalled
            [] fd = "hotplug" -> nodeEvents # {}
            [] fd = "config"  -> edited
            [] fd = "control" -> calls # <<>>}

\* epoll_wait; a pass of its 500 ms timeout finds nothing to do.
Wait ==
  /\ pc = "wait" /\ ReadyFds # {}
  /\ ready' = ReadyFds
  /\ pc' = "pass"
  /\ UNCHANGED <<world, kb, dmn, serving, batch>>

Idle == serving = NoPath /\ batch = {}
Serve(fd) ==
  /\ pc = "pass" /\ Idle /\ fd \in ready
  /\ ~dmn.stop /\ ~dmn.sinkDead
  /\ ready' = ready \ {fd}

\* EpollTimerPort::dispatch: what is due now leaves the port as one batch.
ServeTimers ==
  /\ Serve("timers")
  /\ batch' = Due
  /\ kb' = [p \in Paths |-> [kb[p] EXCEPT !.due = FALSE]]
  /\ dmn' = [dmn EXCEPT !.window = IF @ = "due" THEN "off" ELSE @,
                        !.debounce = IF @ = "due" THEN "off" ELSE @]
  /\ UNCHANGED <<world, pc, serving>>

\* finishStartupGrab.
FinishStartupGrab(d, grabbed) ==
  LET s == [d EXCEPT !.pendingStartup = @ - 1, !.startupGrabbed = @ \/ grabbed]
  IN  IF s.pendingStartup = 0 /\ ~s.startupGrabbed
      THEN [s EXCEPT !.exitCode = 1, !.stop = TRUE] ELSE s

\* Mutant: a failed grab is not counted.
SettleTimerMutant(p) ==
  LET grabbed == ~Gone(p) /\ Fate(p) = "free"
  IN  /\ p \in batch
      /\ kb' = [kb EXCEPT ![p] = IF grabbed THEN [@ EXCEPT !.state = "grabbed"]
                                 ELSE NoKeyboard]
      /\ dmn' = IF kb[p].startup /\ grabbed THEN FinishStartupGrab(dmn, TRUE) ELSE dmn
      /\ batch' = batch \ {p}
      /\ UNCHANGED <<world, pc, ready, serving>>

\* The settle timer: EVIOCGRAB fails on a vanished device and under a rival.
SettleTimer(p) ==
  LET grabbed == ~Gone(p) /\ Fate(p) = "free"
  IN  /\ p \in batch
      /\ kb' = [kb EXCEPT ![p] = IF grabbed THEN [@ EXCEPT !.state = "grabbed"]
                                 ELSE NoKeyboard]
      /\ dmn' = IF kb[p].startup THEN FinishStartupGrab(dmn, grabbed) ELSE dmn
      /\ batch' = batch \ {p}
      /\ UNCHANGED <<world, pc, ready, serving>>

WindowTimer ==
  /\ "window" \in batch
  /\ dmn' \in EngineTimeout(dmn, ~compositor)
  /\ batch' = batch \ {"window"}
  /\ UNCHANGED <<world, kb, pc, ready, serving>>

\* Mutant: nothing is reloaded while paused.
ReloadAllMutant(d) == IF d.paused THEN d ELSE [d EXCEPT !.cfg = disk]

\* reloadAll: a pause is lifted when there is no shortcut to lift it with.
ReloadAll(d) ==
  LET s == [d EXCEPT !.cfg = disk]
  IN  IF s.paused /\ ~s.cfg.shortcut THEN SetPaused(s, FALSE) ELSE s

ReloadTimer ==
  /\ "reload" \in batch
  /\ dmn' = ReloadAll(dmn)
  /\ batch' = batch \ {"reload"}
  /\ UNCHANGED <<world, kb, pc, ready, serving>>

ServeSignal ==
  /\ Serve("signal")
  /\ dmn' = [dmn EXCEPT !.stop = TRUE]
  /\ UNCHANGED <<world, kb, pc, serving, batch>>

ServeHotplug ==
  /\ Serve("hotplug")
  /\ nodeEvents' = {}
  /\ kb' = [p \in Paths |-> IF p \in nodeEvents /\ Eligible(p)
                            THEN GrabKeyboard(p, FALSE) ELSE kb[p]]
  /\ UNCHANGED <<plugs, access, down, disk, edited, calls, signalled,
                 compositor, scene, dmn, pc, serving, batch>>

\* Each batch of edits starts the debounce anew.
ServeConfig ==
  /\ Serve("config")
  /\ edited' = FALSE
  /\ dmn' = [dmn EXCEPT !.debounce = "armed"]
  /\ UNCHANGED <<plugs, access, nodeEvents, down, disk, calls, signalled,
                 compositor, scene, kb, pc, serving, batch>>

\* The control service's methods.
Method(d, m) ==
  CASE m = "Pause"  -> SetPaused(d, TRUE)
    [] m = "Resume" -> SetPaused(d, FALSE)
    [] m = "Toggle" -> SetPaused(d, ~d.paused)
    [] m = "Quit"   -> [d EXCEPT !.stop = TRUE]

\* ControlService::process takes one message after the other until there is none,
\* when its fd is served and once more when the pass is over.
LoopOver == pc = "pass" /\ Idle /\ (ready = {} \/ dmn.stop \/ dmn.sinkDead)
ServeControl ==
  /\ calls # <<>>
  /\ \/ Serve("control")
     \/ LoopOver /\ UNCHANGED ready
  /\ serving' = Control
  /\ UNCHANGED <<world, kb, dmn, pc, batch>>

ProcessCall ==
  /\ serving = Control /\ calls # <<>>
  /\ dmn' = Method(dmn, Head(calls))
  /\ calls' = Tail(calls)
  /\ UNCHANGED <<plugs, access, nodeEvents, down, disk, edited, signalled,
                 compositor, scene, kb, loop>>

EndControl ==
  /\ serving = Control /\ calls = <<>>
  /\ serving' = NoPath
  /\ UNCHANGED <<world, kb, dmn, pc, ready, batch>>

ServeKeyboard(p) ==
  /\ Serve(p)
  /\ kb[p].state = "grabbed"
  /\ serving' = p
  /\ UNCHANGED <<world, kb, dmn, pc, batch>>

-----------------------------------------------------------------------------
(* EvdevKeySource::dispatch: reads until there is no more or it is gone.   *)

\* An event as libevdev's key state and the clone see it.
ReadKey(keys, e) == CASE e.value = "press"   -> keys \cup {e.key}
                      [] e.value = "release" -> keys \ {e.key}
                      [] e.value = "repeat"  -> keys

ReadEvent ==
  LET p == serving IN
  /\ p \in Paths /\ ~Gone(p) /\ kb[p].buffer # <<>>
  /\ LET e == Head(kb[p].buffer) IN
       \E r \in Handler(dmn, e) :
         /\ dmn' = r.d
         /\ kb' = [kb EXCEPT ![p].buffer = Tail(@), ![p].read = ReadKey(@, e),
                             ![p].app = IF r.consumed THEN @ ELSE ReadKey(@, e)]
  /\ UNCHANGED <<world, loop>>

\* SYN_DROPPED: the net changes go past the handler, and the dispatch is over.
Resync ==
  LET p == serving IN
  /\ p \in Paths /\ ~Gone(p) /\ kb[p].overrun
  /\ kb' = [kb EXCEPT ![p].overrun = FALSE, ![p].read = down[p],
                      ![p].app = (@ \cup (down[p] \ kb[p].read)) \cap down[p]]
  /\ serving' = NoPath
  /\ UNCHANGED <<world, dmn, pc, ready, batch>>

EndDispatch ==
  LET p == serving IN
  /\ p \in Paths
  /\ Gone(p) \/ (kb[p].buffer = <<>> /\ ~kb[p].overrun)
  /\ kb' = [kb EXCEPT ![p].dead = Gone(p)]
  /\ serving' = NoPath
  /\ UNCHANGED <<world, dmn, pc, ready, batch>>

\* Mutant: a requested stop comes before the dead sink.
EndPassMutant ==
  /\ LoopOver /\ calls = <<>>
  /\ IF dmn.stop THEN Exit(dmn.exitCode)
     ELSE IF dmn.sinkDead THEN Exit(1)
     ELSE /\ kb' = [p \in Paths |-> IF kb[p].dead THEN NoKeyboard ELSE kb[p]]
          /\ pc' = "wait"
          /\ UNCHANGED <<dmn, ready, serving, batch>>
  /\ UNCHANGED world

\* The end of a pass: a dead sink ends the daemon, dead keyboards are dropped.
EndPass ==
  /\ LoopOver /\ calls = <<>>
  /\ IF dmn.sinkDead THEN Exit(1)
     ELSE IF dmn.stop THEN Exit(dmn.exitCode)
     ELSE /\ kb' = [p \in Paths |-> IF kb[p].dead THEN NoKeyboard ELSE kb[p]]
          /\ pc' = "wait"
          /\ UNCHANGED <<dmn, ready, serving, batch>>
  /\ UNCHANGED world

-----------------------------------------------------------------------------
Outside ==
  \/ \E p \in Paths, k \in DaemonKeys : KeyDown(p, k) \/ KeyUp(p, k) \/ KeyRepeat(p, k)
  \/ \E p \in Paths : Plug(p) \/ Unplug(p) \/ Overrun(p)
  \/ Edit
  \/ \E m \in Methods : Call(m)
  \/ Signal
  \/ CompositorGoes

Time ==
  \/ \E p \in Paths : Settled(p)
  \/ WindowDue
  \/ DebounceDue

Loop ==
  \/ Load \/ WatchDevices \/ Scan \/ WatchConfig
  \/ Wait \/ EndPass
  \/ ServeTimers \/ ServeSignal \/ ServeHotplug \/ ServeConfig \/ ServeControl
  \/ ProcessCall \/ EndControl
  \/ \E p \in Paths : ServeKeyboard(p) \/ SettleTimer(p)
  \/ WindowTimer \/ ReloadTimer
  \/ ReadEvent \/ Resync \/ EndDispatch

Next == Outside \/ Time \/ Loop \/ \E p \in Paths : GrantAccess(p)

Spec == Init /\ [][Next]_vars

\* The daemon takes its next step, timers become due and udev grants access;
\* nothing is assumed of the user.
FairSpec ==
  /\ Spec
  /\ WF_vars(Loop)
  /\ WF_vars(WindowDue) /\ WF_vars(DebounceDue)
  /\ \A p \in Paths : WF_vars(Settled(p)) /\ WF_vars(GrantAccess(p))
=============================================================================
