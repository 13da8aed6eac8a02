-------------------------------- MODULE Tray --------------------------------
(***************************************************************************)
(* The tray (src/src/tray/main.cpp), the control service of the engine it  *)
(* talks to (src/src/backends/evdev/control_service.cpp), and the engines  *)
(* it stops and starts, directly or through the user's service manager.    *)
(*                                                                         *)
(* The bus delivers the messages of each sender in order.  A call is       *)
(* answered by the engine that owned the name when it was sent, or with an *)
(* error once there is none.                                               *)
(***************************************************************************)
EXTENDS Integers, Sequences, FiniteSets

CONSTANTS
  Engines,       \* 1 .. n: engines in the order they are started
  Starts,        \* what runs at the start: "none", "unit", "loose"
  HangOutlasts,  \* grace periods a hang may outlast: "quit", "term"
  MaxClicks,     \* bound: clicks in the menu and uses of the shortcut
  Faults         \* bound: each of these happens once at most: "hang", "crash"

ASSUME TrayAssumption ==
  /\ IsFiniteSet(Engines) /\ Engines = 1 .. Cardinality(Engines)
  /\ Starts \subseteq {"none", "unit", "loose"}
  /\ HangOutlasts \subseteq {"quit", "term"}
  /\ Faults \subseteq {"hang", "crash"}
  /\ MaxClicks \in Nat

VARIABLES
  engine,    \* per engine, its process
  unit,      \* the engine unit of the service manager
  jobs,      \* what systemctl was told and the manager has not done
  inbox,     \* answers and signals on their way to the tray
  tray,      \* what the menu shows
  restart,   \* the restart chain
  quits,     \* quit chains waiting for their probe
  clicks, faults,
  asked      \* history: GetPaused was called since the name last changed hands

trayVars == <<engine, unit, jobs, inbox, tray, restart, quits, clicks, faults, asked>>

NoEngine == 0
Absent == [state |-> "absent", managed |-> FALSE, control |-> FALSE, grabs |-> FALSE,
           hung |-> FALSE, term |-> FALSE, paused |-> FALSE, calls |-> <<>>]
Launched(managed) == [Absent EXCEPT !.state = "starting", !.managed = managed]
Alive(e) == engine[e].state \in {"starting", "up"}
Exited(r) == [Absent EXCEPT !.state = "exited", !.managed = r.managed]

\* The owner of the engine's bus name.
Owners == {e \in Engines : engine[e].control}
Owner == IF Owners = {} THEN NoEngine ELSE CHOOSE e \in Owners : TRUE
engineOnBus == Owners # {}

\* An answer or a signal for the tray.
ToTray(kind, paused) == [kind |-> kind, paused |-> paused]

Idle == [stage |-> "idle", pid |-> NoEngine, loaded |-> FALSE]

\* The tray starts and asks for the state.
TrayInit ==
  /\ \E kind \in Starts, loaded \in BOOLEAN :
       /\ engine = [e \in Engines |->
            IF e = 1 /\ kind # "none"
            THEN [Launched(kind = "unit") EXCEPT !.state = "up", !.control = TRUE,
                    !.grabs = TRUE, !.calls = <<"GetPaused">>]
            ELSE Absent]
       /\ inbox = IF kind = "none" THEN <<ToTray("error", FALSE)>> ELSE <<>>
       /\ unit = IF kind = "unit" THEN "running"
                 ELSE IF loaded THEN "inactive" ELSE "missing"
  /\ jobs = <<>>
  /\ tray = [available |-> FALSE, paused |-> FALSE, mayRestart |-> TRUE, mayQuit |-> FALSE]
  /\ restart = Idle
  /\ quits = 0 /\ clicks = 0 /\ faults = {}
  /\ asked = TRUE

\* --- Messages ---

\* A call goes to the owner of the name, if there is one, on top of what else
\* happens to the processes; without one it fails at once.
Call(method, processes) ==
  engine' = IF engineOnBus
            THEN [processes EXCEPT ![Owner].calls = Append(@, method)] ELSE processes

\* syncPaused.
SyncPaused(processes) ==
  /\ Call("GetPaused", processes)
  /\ inbox' = IF engineOnBus THEN inbox ELSE Append(inbox, ToTray("error", FALSE))
  /\ asked' = TRUE

\* --- The engine's control service ---

\* init claims the name; an engine that finds it taken runs without.
StartControl(e) ==
  /\ engine[e].state = "starting"
  /\ engine' = [engine EXCEPT ![e].state = "up", ![e].control = ~engineOnBus]
  /\ asked' = (asked /\ engineOnBus)
  /\ UNCHANGED <<unit, jobs, inbox, tray, restart, quits, clicks, faults>>

\* A process ends: its grab and its name go, GetPaused calls it has not answered
\* fail.  A failed unit is started again later.
Exit(e, failed) ==
  LET lost == {i \in DOMAIN engine[e].calls : engine[e].calls[i] = "GetPaused"}
  IN  /\ engine' = [engine EXCEPT ![e] = Exited(@)]
      /\ unit' = IF ~engine[e].managed THEN unit
                 ELSE IF failed THEN "restarting" ELSE "inactive"
      /\ inbox' = inbox \o [i \in 1 .. Cardinality(lost) |-> ToTray("error", FALSE)]
      /\ asked' = (asked /\ ~engine[e].control)

\* Its startup grabs are decided: with a keyboard it runs, with none it exits.
StartupGrab(e) ==
  /\ engine[e].state = "up" /\ ~engine[e].grabs /\ ~engine[e].hung
  /\ IF \E f \in Engines : engine[f].grabs
     THEN Exit(e, TRUE)
     ELSE engine' = [engine EXCEPT ![e].grabs = TRUE] /\ UNCHANGED <<unit, inbox, asked>>
  /\ UNCHANGED <<jobs, tray, restart, quits, clicks, faults>>

\* Mutant: only a pause is told, not its end.
ChangedMutant(e, on) ==
  IF engine[e].control /\ on THEN <<ToTray("PausedChanged", on)>> ELSE <<>>

\* setPaused tells everybody, but only of a change.
SetPaused(r, on) == [r EXCEPT !.paused = on]
Changed(e, on) ==
  IF engine[e].control /\ engine[e].paused # on
  THEN <<ToTray("PausedChanged", on)>> ELSE <<>>

\* process serves one call.
ServeCall(e) ==
  /\ engine[e].state = "up" /\ ~engine[e].hung
  /\ engine[e].calls # <<>>
  /\ LET method == Head(engine[e].calls)
         rest   == [engine[e] EXCEPT !.calls = Tail(@)]
         on     == ~engine[e].paused
     IN  \/ /\ method = "GetPaused"
            /\ engine' = [engine EXCEPT ![e] = rest]
            /\ inbox' = Append(inbox, ToTray("reply", rest.paused))
            /\ UNCHANGED <<unit, asked>>
         \/ /\ method = "Toggle"
            /\ engine' = [engine EXCEPT ![e] = SetPaused(rest, on)]
            /\ inbox' = inbox \o Changed(e, on)
            /\ UNCHANGED <<unit, asked>>
         \/ /\ method = "Quit"
            /\ Exit(e, FALSE)
  /\ UNCHANGED <<jobs, tray, restart, quits, clicks, faults>>

\* The pause shortcut, or another client.
Shortcut(e) ==
  /\ engine[e].state = "up" /\ ~engine[e].hung /\ clicks < MaxClicks
  /\ clicks' = clicks + 1
  /\ engine' = [engine EXCEPT ![e] = SetPaused(@, ~@.paused)]
  /\ inbox' = inbox \o Changed(e, ~engine[e].paused)
  /\ UNCHANGED <<unit, jobs, tray, restart, quits, faults, asked>>

\* SIGTERM is blocked and read from a signalfd: the loop has to come round.
Terminate(e) ==
  /\ engine[e].state = "up" /\ ~engine[e].hung /\ engine[e].term
  /\ Exit(e, FALSE)
  /\ UNCHANGED <<jobs, tray, restart, quits, clicks, faults>>

Hang(e) ==
  /\ engine[e].state = "up" /\ ~engine[e].hung
  /\ "hang" \in Faults \ faults
  /\ engine' = [engine EXCEPT ![e].hung = TRUE]
  /\ faults' = faults \cup {"hang"}
  /\ UNCHANGED <<unit, jobs, inbox, tray, restart, quits, clicks, asked>>

Recover(e) ==
  /\ engine[e].hung
  /\ engine' = [engine EXCEPT ![e].hung = FALSE]
  /\ UNCHANGED <<unit, jobs, inbox, tray, restart, quits, clicks, faults, asked>>

Crash(e) ==
  /\ engine[e].grabs
  /\ "crash" \in Faults \ faults
  /\ faults' = faults \cup {"crash"}
  /\ Exit(e, TRUE)
  /\ UNCHANGED <<jobs, tray, restart, quits, clicks>>

\* --- The service manager ---

Fresh == {e \in Engines : engine[e].state = "absent"}
NextEngine == CHOOSE e \in Fresh : \A f \in Fresh : e <= f
Launch(managed) ==
  /\ Fresh # {}
  /\ engine' = [engine EXCEPT ![NextEngine] = Launched(managed)]

Managed == {e \in Engines : engine[e].managed /\ Alive(e)}

\* One job of systemctl.  Stopping kills in the end, also a process that hangs.
RunJob ==
  /\ jobs # <<>>
  /\ LET job == Head(jobs)
     IN  \/ /\ job \in {"restart", "stop"} /\ Managed # {}
            /\ \E e \in Managed : Exit(e, FALSE)
            /\ UNCHANGED jobs
         \/ /\ (job = "stop" /\ Managed = {}) \/ unit = "missing"
            /\ jobs' = Tail(jobs)
            /\ unit' = IF unit = "missing" THEN unit ELSE "inactive"
            /\ UNCHANGED <<engine, inbox, asked>>
         \/ /\ job \in {"restart", "start"} /\ Managed = {} /\ unit # "missing"
            /\ Launch(TRUE)
            /\ jobs' = Tail(jobs) /\ unit' = "running"
            /\ UNCHANGED <<inbox, asked>>
         \/ /\ job = "start" /\ Managed # {}
            /\ jobs' = Tail(jobs)
            /\ UNCHANGED <<engine, unit, inbox, asked>>
  /\ UNCHANGED <<tray, restart, quits, clicks, faults>>

\* Restart=on-failure.
RestartFailed ==
  /\ unit = "restarting" /\ Managed = {}
  /\ Launch(TRUE)
  /\ unit' = "running"
  /\ UNCHANGED <<jobs, inbox, tray, restart, quits, clicks, faults, asked>>

\* --- The tray ---

\* applyPaused, from an answer or from the signal.
ApplyPaused(available, paused) ==
  [tray EXCEPT !.available = available, !.paused = paused, !.mayQuit = available]

Receive ==
  /\ inbox # <<>>
  /\ LET m == Head(inbox)
     IN  tray' = ApplyPaused(m.kind # "error", m.paused)
  /\ inbox' = Tail(inbox)
  /\ UNCHANGED <<engine, unit, jobs, restart, quits, clicks, faults, asked>>

\* A call that a hanging engine leaves unanswered fails in the end.
CallTimeout(e) ==
  /\ engine[e].hung /\ engine[e].calls # <<>> /\ Head(engine[e].calls) = "GetPaused"
  /\ engine' = [engine EXCEPT ![e].calls = Tail(@)]
  /\ inbox' = Append(inbox, ToTray("error", FALSE))
  /\ asked' = FALSE
  /\ UNCHANGED <<unit, jobs, tray, restart, quits, clicks, faults>>

Click == clicks < MaxClicks /\ clicks' = clicks + 1

\* aboutToShow: syncPaused.
OpenMenu ==
  /\ Click
  /\ SyncPaused(engine)
  /\ UNCHANGED <<unit, jobs, tray, restart, quits, faults>>

ClickPause ==
  /\ Click /\ tray.available
  /\ Call("Toggle", engine)
  /\ UNCHANGED <<unit, jobs, inbox, tray, restart, quits, faults, asked>>

ClickQuit ==
  /\ Click /\ tray.mayQuit
  /\ tray' = [tray EXCEPT !.mayQuit = FALSE]
  /\ quits' = quits + 1
  /\ UNCHANGED <<engine, unit, jobs, inbox, restart, faults, asked>>

\* The probe knows the unit, unless systemctl is missing or too slow.
UnitActive == unit \in {"running", "restarting"}
Probes == {[loaded |-> unit # "missing", active |-> UnitActive],
           [loaded |-> FALSE, active |-> FALSE]}

QuitProbed ==
  /\ quits > 0
  /\ \E probe \in Probes :
       IF probe.active
       THEN jobs' = Append(jobs, "stop") /\ UNCHANGED engine
       ELSE Call("Quit", engine) /\ UNCHANGED jobs
  /\ quits' = quits - 1
  /\ tray' = [tray EXCEPT !.mayQuit = TRUE]
  /\ UNCHANGED <<unit, inbox, restart, clicks, faults, asked>>

ClickRestart ==
  /\ Click /\ tray.mayRestart
  /\ tray' = [tray EXCEPT !.mayRestart = FALSE]
  /\ restart' = [Idle EXCEPT !.stage = "probing"]
  /\ UNCHANGED <<engine, unit, jobs, inbox, quits, faults, asked>>

\* finish: the action comes back and the label is asked for.
Finish ==
  /\ restart' = Idle
  /\ tray' = [tray EXCEPT !.mayRestart = TRUE]

\* Mutant: the unit is started although there is none.
StartFreshMutant(loaded) ==
  /\ jobs' = Append(jobs, "start")
  /\ SyncPaused(engine)
  /\ Finish

\* startFresh, through the unit if there is one.
StartFresh(loaded) ==
  /\ IF loaded
     THEN jobs' = Append(jobs, "start") /\ SyncPaused(engine)
     ELSE /\ Fresh # {}
          /\ SyncPaused([engine EXCEPT ![NextEngine] = Launched(FALSE)])
          /\ UNCHANGED jobs
  /\ Finish

\* The probe's answer: the manager restarts what it runs; otherwise the owner of
\* the name, if there is one, is asked to quit.
RestartProbed ==
  /\ restart.stage = "probing"
  /\ \E probe \in Probes :
       \/ /\ probe.active
          /\ jobs' = Append(jobs, "restart")
          /\ SyncPaused(engine)
          /\ Finish
       \/ /\ ~probe.active /\ ~engineOnBus
          /\ StartFresh(probe.loaded)
       \/ /\ ~probe.active /\ engineOnBus
          /\ Call("Quit", engine)
          /\ restart' = [stage |-> "quit", pid |-> Owner, loaded |-> probe.loaded]
          /\ UNCHANGED <<jobs, inbox, tray, asked>>
  /\ UNCHANGED <<unit, quits, clicks, faults>>

\* The poll finds the name gone.
OwnerGone ==
  /\ restart.stage \in {"quit", "term"}
  /\ ~engineOnBus
  /\ StartFresh(restart.loaded)
  /\ UNCHANGED <<unit, quits, clicks, faults>>

\* A grace period ends: SIGTERM for the process asked before, then the start.  An
\* engine that does not hang answers in time, but another may have taken the name.
Outlasts ==
  /\ engineOnBus
  /\ \/ Owner # restart.pid
     \/ engine[Owner].hung /\ restart.stage \in HangOutlasts

\* Mutant: the new engine starts without a SIGTERM to the old one.
QuitGraceOverMutant ==
  /\ restart.stage = "quit" /\ Outlasts
  /\ StartFresh(restart.loaded)
  /\ UNCHANGED <<unit, quits, clicks, faults>>

QuitGraceOver ==
  /\ restart.stage = "quit" /\ Outlasts
  /\ engine' = [engine EXCEPT ![restart.pid].term = Alive(restart.pid)]
  /\ restart' = [restart EXCEPT !.stage = "term"]
  /\ UNCHANGED <<unit, jobs, inbox, tray, quits, clicks, faults, asked>>

TermGraceOver ==
  /\ restart.stage = "term" /\ Outlasts
  /\ StartFresh(restart.loaded)
  /\ UNCHANGED <<unit, quits, clicks, faults>>

\* What runs by itself: an engine's loop and threads, the service manager, and the
\* tray's answers and timers.
EngineRuns(e) ==
  \/ StartControl(e)
  \/ StartupGrab(e)
  \/ ServeCall(e)
  \/ Terminate(e)
  \/ Recover(e)

ManagerRuns == RunJob \/ RestartFailed

TrayRuns ==
  \/ Receive
  \/ QuitProbed
  \/ RestartProbed
  \/ OwnerGone
  \/ QuitGraceOver
  \/ TermGraceOver

TrayNext ==
  \/ \E e \in Engines : EngineRuns(e)
  \/ \E e \in Engines : Shortcut(e)
  \/ \E e \in Engines : Hang(e)
  \/ \E e \in Engines : Crash(e)
  \/ \E e \in Engines : CallTimeout(e)
  \/ ManagerRuns
  \/ TrayRuns
  \/ OpenMenu
  \/ ClickPause
  \/ ClickQuit
  \/ ClickRestart

TraySpec == TrayInit /\ [][TrayNext]_trayVars

\* --- Properties ---

Asking(e) == \E i \in DOMAIN engine[e].calls : engine[e].calls[i] = "GetPaused"
Quiet == inbox = <<>> /\ \A e \in Engines : ~Asking(e)

\* Once GetPaused is answered and every signal has arrived, the label is the state
\* of the engine on the bus, however toggles from the menu and from the shortcut
\* mixed with the answer (main.cpp 213-246, control_service.cpp 21-56).
LabelAgrees ==
  asked /\ Quiet => /\ tray.available = engineOnBus
                    /\ engineOnBus => tray.paused = engine[Owner].paused

\* The chain starts an engine only when the one it asked to go is gone
\* (main.cpp 298-348).
ReplacesAsked ==
  [][restart.stage \in {"quit", "term"} /\ restart'.stage = "idle"
     => ~Alive(restart.pid)]_trayVars

\* A restart leaves an engine running with the keyboards, also when the old one
\* hung, unless it crashes or is told to quit (or all of Engines are used up).
RestartBringsEngine ==
  /\ <>(restart.stage # "idle")
  /\ [](quits = 0 /\ "crash" \notin faults /\ Fresh # {})
  => <>[](restart.stage = "idle" /\ \E e \in Engines : engine[e].grabs)
=============================================================================
