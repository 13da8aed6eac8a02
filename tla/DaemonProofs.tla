---------------------------- MODULE DaemonProofs ----------------------------
(***************************************************************************)
(* For any number of keyboards and whatever happens outside: the daemon's  *)
(* types, that pausing leaves no gesture half open, and that a daemon whose *)
(* startup grabs all failed does not run on.  For one keyboard that loses  *)
(* nothing: that no key stays pressed on its clone.                        *)
(***************************************************************************)
EXTENDS DaemonProperties, FiniteSetTheorems, TLAPS

\* How the loop's own variables and the keyboards belong together: only a
\* settling keyboard waits for its timer or for its callback in the batch; a
\* batch and a dispatch never run at once, and only inside a pass.
LoopConsistent ==
  /\ \A p \in Paths : /\ kb[p].due => kb[p].state = "settling"
                      /\ kb[p].dead => kb[p].state = "grabbed"
                      /\ p \in batch => kb[p].state = "settling" /\ ~kb[p].due
                      /\ p = serving => kb[p].state = "grabbed"
                      /\ pc \in {"boot", "load", "scan"} => kb[p].state = "none"
  /\ batch # {} => serving = NoPath /\ pc = "pass"
  /\ serving # NoPath => pc = "pass"

\* StartupVerdict from the scan on.
StartupCounted ==
  pc \in {"config", "wait", "pass"} =>
    /\ dmn.pendingStartup = Cardinality(StartupSettling)
    /\ StartupSettling = {} => dmn.startupGrabbed \/ (dmn.stop /\ dmn.exitCode = 1)

DaemonInv == DaemonTypeOK /\ LoopConsistent /\ PausedIsQuiet /\ StartupCounted

\* A record without a half open gesture if it is paused.
QuietWhenPaused(d) == d.paused => d.owned = {} /\ d.window = "off"

\* What no handler changes, or only in one direction.
SameVerdict(d, s) == /\ s.pendingStartup = d.pendingStartup
                     /\ s.startupGrabbed = d.startupGrabbed
                     /\ s.exitCode = d.exitCode
                     /\ d.stop => s.stop

-----------------------------------------------------------------------------
LEMMA SetPausedKeeps ==
  ASSUME NEW d \in MainState, NEW on \in BOOLEAN, QuietWhenPaused(d)
  PROVE  /\ SetPaused(d, on) \in MainState
         /\ QuietWhenPaused(SetPaused(d, on))
         /\ SameVerdict(d, SetPaused(d, on))
  BY DEF SetPaused, FocusChanged, MainState, TimerStates, QuietWhenPaused, SameVerdict

LEMMA CommitKeeps ==
  ASSUME NEW d \in MainState, NEW gone \in BOOLEAN
  PROVE  /\ Commit(d, gone) \in MainState
         /\ SameVerdict(d, Commit(d, gone))
         /\ Commit(d, gone).paused = d.paused /\ Commit(d, gone).owned = d.owned
         /\ Commit(d, gone).window = d.window
  BY DEF Commit, MainState, SameVerdict

LEMMA MethodKeeps ==
  ASSUME NEW d \in MainState, NEW m \in Methods, QuietWhenPaused(d)
  PROVE  /\ Method(d, m) \in MainState
         /\ QuietWhenPaused(Method(d, m))
         /\ SameVerdict(d, Method(d, m))
<1>1. CASE m = "Quit"
  BY <1>1 DEF Method, MainState, QuietWhenPaused, SameVerdict
<1>2. CASE m # "Quit"
  <2>1. d.paused \in BOOLEAN
    BY DEF MainState
  <2>2. PICK on \in BOOLEAN : Method(d, m) = SetPaused(d, on)
    BY <1>2, <2>1 DEF Method, Methods
  <2> QED BY <2>2, SetPausedKeeps
<1> QED BY <1>1, <1>2

\* Letting go of releases changes nothing else.
LEMMA DropKeeps ==
  ASSUME NEW d \in MainState, NEW o \in SUBSET d.owned
  PROVE  LET x == [d EXCEPT !.owned = o] IN
         /\ x \in MainState
         /\ SameVerdict(d, x)
         /\ x.paused = d.paused /\ x.owned = o /\ x.window = d.window
         /\ x.sinkDead = d.sinkDead /\ x.stop = d.stop
  BY DEF MainState, SameVerdict

\* The engine answers only when the daemon is not paused.
LEMMA EngineKeyKeeps ==
  ASSUME NEW d \in MainState, NEW e \in KeyEvent, NEW gone \in BOOLEAN,
         NEW r \in EngineKey(d, e, gone), ~d.paused
  PROVE  /\ r.d \in MainState /\ r.consumed \in BOOLEAN
         /\ ~r.d.paused
         /\ SameVerdict(d, r.d)
<1> DEFINE off == [d EXCEPT !.window = "off"]
           good(x) == x \in MainState /\ SameVerdict(d, x) /\ ~x.paused
<1>1. good(d)
  BY DEF SameVerdict
<1>2. good(Commit(d, gone))
  BY CommitKeeps
<1>3. \A x \in MaySettle(d, gone) : good(x)
  <2>1. good(off) /\ off.owned = d.owned
    BY DEF MainState, TimerStates, SameVerdict
  <2>2. good(Commit(off, gone)) /\ Commit(off, gone).owned = d.owned
    BY <2>1, CommitKeeps DEF SameVerdict
  <2>3. ASSUME NEW x, good(x), x.owned = d.owned, NEW o \in SUBSET d.owned
        PROVE  good([x EXCEPT !.owned = o])
    BY <2>3, DropKeeps DEF SameVerdict
  <2> HIDE DEF off, good
  <2> QED BY <1>1, <2>1, <2>2, <2>3 DEF MaySettle, Ends, Owning, off
<1>4. \A x, y : good(x) /\ y \in Windows(x) => good(y)
  BY DEF Windows, MainState, TimerStates, SameVerdict
<1>5. ASSUME NEW x, good(x), e.key \in Letters
      PROVE  \A y \in Withhold(x, e.key) \cup LetGo(x, e.key) : good(y)
  <2>1. good([x EXCEPT !.owned = @ \cup {e.key}]) /\ good([x EXCEPT !.owned = @ \ {e.key}])
    BY <1>5 DEF MainState, SameVerdict
  <2> HIDE DEF good
  <2> QED BY <1>4, <2>1 DEF Withhold, LetGo
<1>6. \A ds, b : (\A x \in ds : good(x)) /\ b \in BOOLEAN /\ r \in Answers(ds, b)
        => good(r.d) /\ r.consumed \in BOOLEAN
  BY DEF Answers
<1>7. e.value \in {"press", "repeat", "release"} /\ d.owned \subseteq Letters
  BY DEF KeyEvent, MainState
<1> SUFFICES good(r.d) /\ r.consumed \in BOOLEAN
  OBVIOUS
<1> HIDE DEF good
<1> DEFINE settled  == MaySettle(d, gone)
           stepped  == UNION {Windows(x) : x \in settled}
           withheld == UNION {Withhold(x, e.key) : x \in settled}
           released == UNION {LetGo(x, e.key) : x \in {d, Commit(d, gone)}}
<1>8. \A y \in stepped : good(y)
  BY <1>3, <1>4
<1>9. e.key \in Letters => \A y \in withheld : good(y)
  BY <1>3, <1>5
<1>10. e.key \in Letters => \A y \in released : good(y)
  BY <1>1, <1>2, <1>5
<1>11. \/ r \in Answers(settled, FALSE) \/ r \in Answers(stepped, TRUE)
       \/ r \in Answers({d}, FALSE)
       \/ e.key \in Letters /\ r \in Answers(withheld, TRUE)
       \/ e.key \in Letters /\ r \in Answers(released, TRUE)
  BY <1>7 DEF EngineKey, Answers
<1> HIDE DEF settled, stepped, withheld, released
<1>12. \A y \in settled : good(y)
  BY <1>3 DEF settled
<1>13. \A x \in {d} : good(x)
  BY <1>1
<1>14. TRUE \in BOOLEAN /\ FALSE \in BOOLEAN
  OBVIOUS
<1>15. CASE r \in Answers(settled, FALSE) \/ r \in Answers({d}, FALSE)
  BY <1>6, <1>12, <1>13, <1>14, <1>15
<1>16. CASE ~(r \in Answers(settled, FALSE) \/ r \in Answers({d}, FALSE))
  BY <1>6, <1>8, <1>9, <1>10, <1>11, <1>14, <1>16
<1> QED BY <1>15, <1>16

\* The window timer keeps the rest of the record, and owns no more.
LEMMA TimeoutKeeps ==
  ASSUME NEW d \in MainState, NEW gone \in BOOLEAN, NEW r \in EngineTimeout(d, gone)
  PROVE  /\ r \in MainState
         /\ SameVerdict(d, r)
         /\ r.paused = d.paused /\ r.owned \subseteq d.owned
         /\ r.window = d.window
         /\ d.sinkDead => r.sinkDead
<1>1. PICK x \in {d, Commit(d, gone)}, o \in SUBSET d.owned : r = [x EXCEPT !.owned = o]
  BY DEF EngineTimeout, Owning
<1>2. /\ x \in MainState /\ SameVerdict(d, x) /\ x.paused = d.paused
      /\ x.owned = d.owned /\ x.window = d.window
  BY CommitKeeps DEF SameVerdict
<1>3. d.sinkDead => x.sinkDead
  BY DEF Commit, MainState
<1> QED BY <1>1, <1>2, <1>3, DropKeeps DEF SameVerdict

LEMMA HandlerKeeps ==
  ASSUME NEW d \in MainState, NEW e \in KeyEvent, NEW r \in Handler(d, e),
         QuietWhenPaused(d), compositor \in BOOLEAN
  PROVE  /\ r.d \in MainState /\ r.consumed \in BOOLEAN
         /\ QuietWhenPaused(r.d)
         /\ SameVerdict(d, r.d)
<1> DEFINE s == [d EXCEPT !.shifts = ShiftFlags(d, e)]
<1>1. s \in MainState /\ QuietWhenPaused(s) /\ SameVerdict(d, s) /\ s.paused = d.paused
  <2>1. ShiftFlags(d, e) \in SUBSET Shifts
    BY DEF ShiftFlags, MainState
  <2> QED BY <2>1 DEF MainState, QuietWhenPaused, SameVerdict
<1>2. CASE d.sinkDead
  <2>1. r = [d |-> d, consumed |-> FALSE]
    BY <1>2 DEF Handler
  <2> QED BY <2>1 DEF SameVerdict
<1>3. CASE ~d.sinkDead /\ Shifts \subseteq s.shifts
  <2>1. r = [d |-> [s EXCEPT !.stop = TRUE], consumed |-> FALSE]
    BY <1>3 DEF Handler
  <2> QED BY <1>1, <2>1 DEF MainState, QuietWhenPaused, SameVerdict
<1>4. CASE ~d.sinkDead /\ ~(Shifts \subseteq s.shifts)
  <2>1. \/ r = [d |-> SetPaused(s, ~s.paused), consumed |-> TRUE]
        \/ s.paused /\ r = [d |-> s, consumed |-> FALSE]
        \/ ~s.paused /\ r \in EngineKey(s, e, ~compositor)
    BY <1>4 DEF Handler
  <2>2. CASE r = [d |-> SetPaused(s, ~s.paused), consumed |-> TRUE]
    <3>1. (~s.paused) \in BOOLEAN
      OBVIOUS
    <3>2. SetPaused(s, ~s.paused) \in MainState /\ SameVerdict(s, SetPaused(s, ~s.paused))
          /\ QuietWhenPaused(SetPaused(s, ~s.paused))
      BY <1>1, <3>1, SetPausedKeeps
    <3> QED BY <1>1, <2>2, <3>2 DEF SameVerdict
  <2>3. CASE s.paused /\ r = [d |-> s, consumed |-> FALSE]
    BY <1>1, <2>3
  <2>4. CASE ~s.paused /\ r \in EngineKey(s, e, ~compositor)
    <3>1. r.d \in MainState /\ r.consumed \in BOOLEAN /\ ~r.d.paused /\ SameVerdict(s, r.d)
      BY <1>1, <2>4, EngineKeyKeeps
    <3> QED BY <1>1, <3>1 DEF SameVerdict, QuietWhenPaused
  <2> QED BY <2>1, <2>2, <2>3, <2>4
<1> QED BY <1>2, <1>3, <1>4

-----------------------------------------------------------------------------
(* What happens outside leaves the loop alone.                             *)

SameKeyboard(a, b) == /\ b.state = a.state /\ b.startup = a.startup
                      /\ b.due = a.due /\ b.dead = a.dead

\* The count of startup grabs depends on nothing else.
LEMMA CountUnchanged ==
  ASSUME StartupCounted,
         \A p \in Paths : kb'[p].startup /\ kb'[p].state = "settling"
                         <=> kb[p].startup /\ kb[p].state = "settling",
         SameVerdict(dmn, dmn'),
         pc' \in {"config", "wait", "pass"} => pc \in {"config", "wait", "pass"}
  PROVE  StartupCounted'
<1>1. StartupSettling' = StartupSettling
  BY DEF StartupSettling
<1> QED BY <1>1 DEF StartupCounted, SameVerdict

LEMMA OutsideKeeps ==
  ASSUME DaemonInv, DaemonTypeOK', UNCHANGED <<dmn, loop>>,
         \A p \in Paths : SameKeyboard(kb[p], kb'[p])
  PROVE  DaemonInv'
<1>1. LoopConsistent'
  BY DEF DaemonInv, LoopConsistent, SameKeyboard, loop
<1>2. PausedIsQuiet'
  BY DEF DaemonInv, PausedIsQuiet, loop
<1>3. StartupCounted'
  BY CountUnchanged DEF DaemonInv, SameKeyboard, SameVerdict, loop
<1> QED BY <1>1, <1>2, <1>3 DEF DaemonInv

LEMMA ArriveKeeps ==
  ASSUME NEW p \in Paths, NEW k \in DaemonKeys,
         NEW value \in {"press", "release", "repeat"},
         kb \in [Paths -> Keyboard], Arrive(p, k, value)
  PROVE  kb' \in [Paths -> Keyboard] /\ \A q \in Paths : SameKeyboard(kb[q], kb'[q])
<1> DEFINE e == [key |-> k, value |-> value, direct |-> kb[p].state # "grabbed"]
<1>1. e \in KeyEvent
  BY DEF KeyEvent
<1>2. Append(kb[p].buffer, e) \in Seq(KeyEvent)
  BY <1>1 DEF Keyboard
<1>3. kb' = kb \/ kb' = [kb EXCEPT ![p].buffer = Append(@, e)]
  BY DEF Arrive
<1>4. [kb[p] EXCEPT !.buffer = Append(@, e)] \in Keyboard
  BY <1>2 DEF Keyboard
<1> HIDE DEF e
<1>5. kb' \in [Paths -> Keyboard]
  BY <1>3, <1>4
<1>6. \A q \in Paths : SameKeyboard(kb[q], kb'[q])
  <2>1. SameKeyboard(kb[p], [kb[p] EXCEPT !.buffer = Append(@, e)])
    BY DEF Keyboard, SameKeyboard
  <2>2. \A q \in Paths : SameKeyboard(kb[q], kb[q])
    BY DEF SameKeyboard
  <2> QED BY <1>3, <2>1, <2>2
<1> QED BY <1>5, <1>6

\* What may happen outside is counted down.
Happenings == {"keys", "drops", "plugs", "unplugs", "edits", "calls", "signals", "crashes"}

LEMMA SpendKeeps ==
  ASSUME scene \in Scene, NEW what \in Happenings, Spend(what)
  PROVE  scene' \in Scene
<1>1. scene[what] \in Nat /\ scene[what] > 0
  BY DEF Scene, Spend, Happenings
<1>2. scene[what] - 1 \in Nat
  BY <1>1
<1>3. scene' = [scene EXCEPT ![what] = scene[what] - 1]
  BY DEF Spend
<1> QED BY <1>2, <1>3 DEF Scene, Happenings

LEMMA KeysKeep ==
  ASSUME DaemonInv, NEW p \in Paths, NEW k \in DaemonKeys,
         KeyDown(p, k) \/ KeyUp(p, k) \/ KeyRepeat(p, k)
  PROVE  DaemonInv'
<1>1. PICK value \in {"press", "release", "repeat"} : Arrive(p, k, value)
  BY DEF KeyDown, KeyUp, KeyRepeat
<1>2. kb' \in [Paths -> Keyboard] /\ \A q \in Paths : SameKeyboard(kb[q], kb'[q])
  BY <1>1, ArriveKeeps DEF DaemonInv, DaemonTypeOK
<1>3. down' \in [Paths -> SUBSET DaemonKeys]
  BY DEF KeyDown, KeyUp, KeyRepeat, DaemonInv, DaemonTypeOK
<1>4. scene' \in Scene
  BY SpendKeeps DEF KeyDown, KeyUp, KeyRepeat, DaemonInv, DaemonTypeOK, Happenings
<1>5. UNCHANGED <<plugs, access, nodeEvents, disk, edited, calls, signalled,
                  compositor, dmn, loop>>
  BY DEF KeyDown, KeyUp, KeyRepeat
<1>6. DaemonTypeOK'
  BY <1>2, <1>3, <1>4, <1>5 DEF DaemonInv, DaemonTypeOK, loop
<1> QED BY <1>2, <1>5, <1>6, OutsideKeeps

LEMMA DevicesKeep ==
  ASSUME DaemonInv, NEW p \in Paths,
         Plug(p) \/ Unplug(p) \/ Overrun(p) \/ GrantAccess(p)
  PROVE  DaemonInv'
<1>1. kb' \in [Paths -> Keyboard] /\ \A q \in Paths : SameKeyboard(kb[q], kb'[q])
  <2> DEFINE emptied(b) == [kb[p] EXCEPT !.buffer = <<>>, !.overrun = b]
  <2>1. kb \in [Paths -> Keyboard]
    BY DEF DaemonInv, DaemonTypeOK
  <2>2. kb' = kb \/ \E b \in BOOLEAN : kb' = [kb EXCEPT ![p] = emptied(b)]
    BY <2>1 DEF Plug, Unplug, Overrun, GrantAccess, Keyboard
  <2>3. ASSUME NEW b \in BOOLEAN
        PROVE  emptied(b) \in Keyboard /\ SameKeyboard(kb[p], emptied(b))
    <3>1. kb[p] \in Keyboard
      BY <2>1
    <3>2. <<>> \in Seq(KeyEvent)
      OBVIOUS
    <3>3. emptied(b) \in Keyboard
      BY <3>1, <3>2 DEF Keyboard
    <3>4. SameKeyboard(kb[p], emptied(b))
      BY <3>1 DEF Keyboard, SameKeyboard
    <3> QED BY <3>3, <3>4
  <2>4. \A q \in Paths : SameKeyboard(kb[q], kb[q])
    BY DEF SameKeyboard
  <2>5. CASE kb' = kb
    BY <2>1, <2>4, <2>5
  <2>6. CASE \E b \in BOOLEAN : kb' = [kb EXCEPT ![p] = emptied(b)]
    <3>1. PICK b \in BOOLEAN : kb' = [kb EXCEPT ![p] = emptied(b)]
      BY <2>6
    <3>2. emptied(b) \in Keyboard /\ SameKeyboard(kb[p], emptied(b))
      BY <2>3
    <3> HIDE DEF emptied
    <3> QED BY <2>1, <2>4, <3>1, <3>2
  <2> QED BY <2>2, <2>5, <2>6
<1>2. plugs' \in [Paths -> Nat] /\ down' \in [Paths -> SUBSET DaemonKeys]
  <2>1. plugs \in [Paths -> Nat] /\ down \in [Paths -> SUBSET DaemonKeys]
    BY DEF DaemonInv, DaemonTypeOK
  <2>2. plugs' = plugs \/ plugs' = [plugs EXCEPT ![p] = @ + 1]
    BY DEF Plug, Unplug, Overrun, GrantAccess
  <2>3. down' = down \/ down' = [down EXCEPT ![p] = {}]
    BY DEF Plug, Unplug, Overrun, GrantAccess
  <2> QED BY <2>1, <2>2, <2>3
<1>6. access' \subseteq Paths /\ nodeEvents' \subseteq Paths
  <2>1. access \subseteq Paths /\ nodeEvents \subseteq Paths
    BY DEF DaemonInv, DaemonTypeOK
  <2>2. access' \in {access, access \cup {p}, access \ {p}}
    BY DEF Plug, Unplug, Overrun, GrantAccess
  <2>3. nodeEvents' \in {nodeEvents, nodeEvents \cup {p}}
    BY DEF Plug, Unplug, Overrun, GrantAccess
  <2> QED BY <2>1, <2>2, <2>3
<1>3. scene' \in Scene
  BY SpendKeeps DEF Plug, Unplug, Overrun, GrantAccess, DaemonInv, DaemonTypeOK, Happenings
<1>4. UNCHANGED <<disk, edited, calls, signalled, compositor, dmn, loop>>
  BY DEF Plug, Unplug, Overrun, GrantAccess
<1>5. DaemonTypeOK'
  BY <1>1, <1>2, <1>6, <1>3, <1>4 DEF DaemonInv, DaemonTypeOK, loop
<1> QED BY <1>1, <1>4, <1>5, OutsideKeeps

LEMMA OthersKeep ==
  ASSUME DaemonInv,
         Edit \/ (\E m \in Methods : Call(m)) \/ Signal \/ CompositorGoes
  PROVE  DaemonInv'
<1>1. UNCHANGED <<plugs, access, nodeEvents, down, kb, dmn, loop>>
  BY DEF Edit, Call, Signal, CompositorGoes
<1>2. disk' \in Config /\ edited' \in BOOLEAN /\ signalled' \in BOOLEAN
      /\ compositor' \in BOOLEAN
  BY DEF Edit, Call, Signal, CompositorGoes, DaemonInv, DaemonTypeOK
<1>3. calls' \in Seq(Methods)
  BY SMTT(30) DEF Edit, Call, Signal, CompositorGoes, DaemonInv, DaemonTypeOK
<1>4. scene' \in Scene
  BY SpendKeeps DEF Edit, Call, Signal, CompositorGoes, DaemonInv, DaemonTypeOK, Happenings
<1>5. DaemonTypeOK'
  BY <1>1, <1>2, <1>3, <1>4 DEF DaemonInv, DaemonTypeOK, loop
<1> QED BY <1>1, <1>5, OutsideKeeps DEF SameKeyboard

LEMMA TimeKeeps ==
  ASSUME DaemonInv, (\E p \in Paths : Settled(p)) \/ WindowDue \/ DebounceDue
  PROVE  DaemonInv'
<1>1. CASE \E p \in Paths : Settled(p)
  <2>1. PICK p \in Paths : Settled(p)
    BY <1>1
  <2>2. kb' \in [Paths -> Keyboard]
    <3>1. kb[p] \in Keyboard
      BY DEF DaemonInv, DaemonTypeOK
    <3>2. [kb[p] EXCEPT !.due = TRUE] \in Keyboard
      BY <3>1 DEF Keyboard
    <3> QED BY <2>1, <3>2 DEF Settled, DaemonInv, DaemonTypeOK
  <2>3. DaemonTypeOK'
    BY <2>1, <2>2 DEF Settled, DaemonInv, DaemonTypeOK, loop, world
  <2>4. LoopConsistent'
    BY <2>1 DEF Settled, DaemonInv, DaemonTypeOK, LoopConsistent, loop
  <2>5. PausedIsQuiet'
    BY <2>1 DEF Settled, DaemonInv, PausedIsQuiet, loop
  <2>6. StartupCounted'
    BY <2>1, CountUnchanged DEF Settled, DaemonInv, DaemonTypeOK, SameVerdict, loop
  <2> QED BY <2>3, <2>4, <2>5, <2>6 DEF DaemonInv
<1>2. CASE WindowDue \/ DebounceDue
  <2>1. dmn' \in MainState /\ SameVerdict(dmn, dmn')
    BY <1>2 DEF WindowDue, DebounceDue, DaemonInv, DaemonTypeOK, MainState, TimerStates,
       SameVerdict
  <2>2. UNCHANGED <<world, kb, loop>>
    BY <1>2 DEF WindowDue, DebounceDue
  <2>3. DaemonTypeOK'
    BY <2>1, <2>2 DEF DaemonInv, DaemonTypeOK, loop, world
  <2>4. LoopConsistent'
    BY <2>2 DEF DaemonInv, LoopConsistent, loop
  <2>5. PausedIsQuiet'
    BY <1>2, <2>2 DEF WindowDue, DebounceDue, DaemonInv, DaemonTypeOK, MainState,
       PausedIsQuiet, loop
  <2>6. StartupCounted'
    BY <2>1, <2>2, CountUnchanged DEF DaemonInv, loop
  <2> QED BY <2>3, <2>4, <2>5, <2>6 DEF DaemonInv
<1> QED BY <1>1, <1>2

-----------------------------------------------------------------------------
(* Startup and exit.                                                       *)

LEMMA NoKeyboardOK == NoKeyboard \in Keyboard
<1>1. <<>> \in Seq(KeyEvent)
  OBVIOUS
<1> QED BY <1>1 DEF NoKeyboard, Keyboard

LEMMA TypeKeeps ==
  ASSUME DaemonTypeOK, UNCHANGED world, kb' \in [Paths -> Keyboard], dmn' \in MainState,
         pc' \in {"boot", "load", "scan", "config", "wait", "pass", "exited"},
         serving' \in Paths \cup {NoPath, Control}, batch' \subseteq Callbacks
  PROVE  DaemonTypeOK'
  BY DEF DaemonTypeOK, world

LEMMA ExitKeeps ==
  ASSUME DaemonInv, NEW code \in {0, 1, kExitSessionUnsupported}, Exit(code),
         UNCHANGED world
  PROVE  DaemonInv'
<1>1. kb' \in [Paths -> Keyboard]
  BY NoKeyboardOK DEF Exit
<1>2. dmn' \in MainState
  BY DEF Exit, DaemonInv, DaemonTypeOK, MainState, TimerStates
<1>3. DaemonTypeOK'
  BY <1>1, <1>2, TypeKeeps DEF Exit, DaemonInv
<1>4. LoopConsistent'
  BY DaemonAssumption DEF Exit, LoopConsistent, NoKeyboard, NoPath
<1>5. PausedIsQuiet'
  BY DEF Exit, DaemonInv, DaemonTypeOK, MainState, PausedIsQuiet
<1>6. StartupCounted'
  BY DEF Exit, StartupCounted
<1> QED BY <1>3, <1>4, <1>5, <1>6 DEF DaemonInv

LEMMA InitHolds == Init => DaemonInv
<1> SUFFICES ASSUME Init PROVE DaemonInv
  OBVIOUS
<1>1. kb \in [Paths -> Keyboard]
  BY NoKeyboardOK DEF Init
<1>2. dmn \in MainState
  BY DEF Init, MainState, TimerStates
<1>3. plugs \in [Paths -> Nat] /\ down \in [Paths -> SUBSET DaemonKeys]
  BY DEF Init
<1>4. scene \in Scene /\ scene.plugged \subseteq Paths
  BY DaemonAssumption DEF Init, Scene
<1>5. <<>> \in Seq(Methods)
  OBVIOUS
<1>6. DaemonTypeOK
  BY <1>1, <1>2, <1>3, <1>4, <1>5 DEF Init, DaemonTypeOK, Config
<1>7. LoopConsistent
  BY DaemonAssumption DEF Init, LoopConsistent, NoKeyboard, NoPath
<1> QED BY <1>6, <1>7 DEF Init, DaemonInv, PausedIsQuiet, StartupCounted

LEMMA BootKeeps ==
  ASSUME DaemonInv, Load \/ WatchDevices \/ WatchConfig
  PROVE  DaemonInv'
<1>1. CASE WatchDevices \/ WatchConfig
  <2>1. UNCHANGED <<world, kb, dmn, serving, batch>>
    BY <1>1 DEF WatchDevices, WatchConfig, Goto
  <2>2. (pc = "load" /\ pc' = "scan") \/ (pc = "config" /\ pc' = "wait")
    BY <1>1 DEF WatchDevices, WatchConfig, Goto
  <2>3. DaemonTypeOK'
    BY <2>1, <2>2 DEF DaemonInv, DaemonTypeOK, world
  <2>4. LoopConsistent'
    BY <2>1, <2>2 DEF DaemonInv, LoopConsistent
  <2>5. PausedIsQuiet' /\ StartupCounted'
    BY <2>1, <2>2 DEF DaemonInv, PausedIsQuiet, StartupCounted, StartupSettling
  <2> QED BY <2>3, <2>4, <2>5 DEF DaemonInv
<1>2. CASE Load
  <2>1. CASE \E code \in {1, kExitSessionUnsupported} : Exit(code)
    BY <1>2, <2>1, ExitKeeps DEF Load
  <2>2. CASE dmn' = [dmn EXCEPT !.cfg = disk] /\ Goto("load") /\ UNCHANGED kb
    <3>1. dmn' \in MainState
      BY <2>2 DEF DaemonInv, DaemonTypeOK, MainState
    <3>2. DaemonTypeOK'
      BY <1>2, <2>2, <3>1, TypeKeeps DEF Load, Goto, DaemonInv, DaemonTypeOK
    <3>3. LoopConsistent'
      BY <1>2, <2>2 DEF Load, Goto, DaemonInv, LoopConsistent
    <3>4. PausedIsQuiet' /\ StartupCounted'
      BY <2>2 DEF Goto, DaemonInv, DaemonTypeOK, MainState, PausedIsQuiet, StartupCounted
    <3> QED BY <3>2, <3>3, <3>4 DEF DaemonInv
  <2> QED BY <1>2, <2>1, <2>2 DEF Load
<1> QED BY <1>1, <1>2

\* What a grab attempt leaves of a keyboard.
LEMMA GrabKeyboardKeeps ==
  ASSUME DaemonInv, NEW p \in Paths, NEW startup \in BOOLEAN
  PROVE  LET g == GrabKeyboard(p, startup)
         IN  /\ g \in Keyboard
             /\ g = kb[p] \/ (/\ kb[p].state = "none" /\ g.state = "settling"
                              /\ g.startup = startup /\ ~g.due /\ ~g.dead)
<1> DEFINE g == [NoKeyboard EXCEPT !.state = "settling", !.gen = plugs[p],
                                   !.startup = startup, !.read = down[p]]
<1>1. kb[p] \in Keyboard /\ plugs[p] \in Nat /\ down[p] \in SUBSET DaemonKeys
  BY DEF DaemonInv, DaemonTypeOK
<1>2. g \in Keyboard
  BY <1>1, NoKeyboardOK DEF Keyboard
<1>3. g.state = "settling" /\ g.startup = startup /\ ~g.due /\ ~g.dead
  BY DEF NoKeyboard
<1>4. GrabKeyboard(p, startup) = kb[p]
      \/ (kb[p].state = "none" /\ GrabKeyboard(p, startup) = g)
  BY DEF GrabKeyboard
<1> HIDE DEF g
<1> QED BY <1>1, <1>2, <1>3, <1>4

LEMMA ScanKeeps ==
  ASSUME DaemonInv, Scan
  PROVE  DaemonInv'
<1> DEFINE found == [p \in Paths |-> IF Eligible(p) THEN GrabKeyboard(p, TRUE) ELSE kb[p]]
           opened == {p \in Paths : found[p].state = "settling"}
<1>1. CASE opened = {}
  BY <1>1, ExitKeeps DEF Scan
<1>2. CASE opened # {}
  <2>1. /\ kb' = found /\ dmn' = [dmn EXCEPT !.pendingStartup = Cardinality(opened)]
        /\ pc = "scan" /\ pc' = "config" /\ UNCHANGED <<world, ready, serving, batch>>
    BY <1>2 DEF Scan, Goto
  <2>2. \A p \in Paths :
          /\ found[p] \in Keyboard
          /\ found[p] = kb[p] \/ (/\ found[p].state = "settling" /\ found[p].startup
                                  /\ ~found[p].due /\ ~found[p].dead)
    <3> SUFFICES ASSUME NEW p \in Paths
                 PROVE  /\ found[p] \in Keyboard
                        /\ found[p] = kb[p] \/ (/\ found[p].state = "settling"
                              /\ found[p].startup /\ ~found[p].due /\ ~found[p].dead)
      OBVIOUS
    <3>1. kb[p] \in Keyboard
      BY DEF DaemonInv, DaemonTypeOK
    <3>2. found[p] = GrabKeyboard(p, TRUE) \/ found[p] = kb[p]
      OBVIOUS
    <3> QED BY <3>1, <3>2, GrabKeyboardKeeps
  <2>3. \A p \in Paths : kb[p].state = "none" /\ ~kb[p].due /\ ~kb[p].dead
    <3>1. \A p \in Paths : kb[p] \in Keyboard
      BY DEF DaemonInv, DaemonTypeOK
    <3> QED BY <2>1, <3>1 DEF DaemonInv, LoopConsistent, Keyboard
  <2>4. found \in [Paths -> Keyboard]
    BY <2>2
  <2>5. Cardinality(opened) \in Int
    <3>1. opened \subseteq Paths
      OBVIOUS
    <3> HIDE DEF opened
    <3>2. IsFiniteSet(opened)
      BY <3>1, DaemonAssumption, FS_Subset
    <3>3. Cardinality(opened) \in Nat
      BY <3>2, FS_CardinalityType
    <3> QED BY <3>3
  <2>6. dmn' \in MainState /\ dmn'.pendingStartup = Cardinality(opened)
        /\ dmn'.paused = dmn.paused /\ dmn'.owned = dmn.owned /\ dmn'.window = dmn.window
    BY <2>1, <2>5 DEF DaemonInv, DaemonTypeOK, MainState
  <2>7. {p \in Paths : found[p].startup /\ found[p].state = "settling"} = opened
    BY <2>2, <2>3
  <2> HIDE DEF found, opened
  <2>8. DaemonTypeOK'
    BY <2>1, <2>4, <2>6, TypeKeeps DEF DaemonInv, DaemonTypeOK
  <2>9. LoopConsistent'
    BY <2>1, <2>2, <2>3, DaemonAssumption DEF DaemonInv, LoopConsistent, NoPath
  <2>10. PausedIsQuiet'
    BY <2>1, <2>6 DEF DaemonInv, PausedIsQuiet
  <2>11. StartupCounted'
    BY <1>2, <2>1, <2>6, <2>7 DEF StartupCounted, StartupSettling
  <2> QED BY <2>8, <2>9, <2>10, <2>11 DEF DaemonInv
<1> QED BY <1>1, <1>2

-----------------------------------------------------------------------------
(* A pass of the loop.                                                     *)

LEMMA WaitKeeps ==
  ASSUME DaemonInv, Wait
  PROVE  DaemonInv'
<1>1. UNCHANGED <<world, kb, dmn, serving, batch>> /\ pc = "wait" /\ pc' = "pass"
  BY DEF Wait
<1>2. DaemonTypeOK'
  BY <1>1 DEF DaemonInv, DaemonTypeOK, world
<1>3. LoopConsistent'
  BY <1>1 DEF DaemonInv, LoopConsistent
<1>4. PausedIsQuiet' /\ StartupCounted'
  BY <1>1 DEF DaemonInv, PausedIsQuiet, StartupCounted, StartupSettling
<1> QED BY <1>2, <1>3, <1>4 DEF DaemonInv

LEMMA ServeTimersKeeps ==
  ASSUME DaemonInv, ServeTimers
  PROVE  DaemonInv'
<1>1. /\ pc = "pass" /\ batch = {} /\ serving = NoPath
      /\ batch' = Due
      /\ kb' = [p \in Paths |-> [kb[p] EXCEPT !.due = FALSE]]
      /\ dmn' = [dmn EXCEPT !.window = IF @ = "due" THEN "off" ELSE @,
                            !.debounce = IF @ = "due" THEN "off" ELSE @]
      /\ UNCHANGED <<world, pc, serving>>
  BY DEF ServeTimers, Serve, Idle
<1>2. \A p \in Paths : /\ [kb[p] EXCEPT !.due = FALSE] \in Keyboard
                       /\ [kb[p] EXCEPT !.due = FALSE].state = kb[p].state
                       /\ [kb[p] EXCEPT !.due = FALSE].startup = kb[p].startup
                       /\ [kb[p] EXCEPT !.due = FALSE].dead = kb[p].dead
                       /\ ~[kb[p] EXCEPT !.due = FALSE].due
  <2> TAKE p \in Paths
  <2>1. kb[p] \in Keyboard
    BY DEF DaemonInv, DaemonTypeOK
  <2> QED BY <2>1 DEF Keyboard
<1>3. kb' \in [Paths -> Keyboard]
  BY <1>1, <1>2
<1>4. /\ dmn' \in MainState /\ SameVerdict(dmn, dmn')
      /\ dmn'.paused = dmn.paused /\ dmn'.owned = dmn.owned
      /\ dmn.window = "off" => dmn'.window = "off"
  BY <1>1 DEF DaemonInv, DaemonTypeOK, MainState, TimerStates, SameVerdict
<1>5. batch' \subseteq Callbacks
  BY <1>1 DEF Due, Callbacks
<1>6. \A p \in Paths : p \in batch' => kb[p].due
  BY <1>1, DaemonAssumption DEF Due
<1>7. dmn.window = "off" => "window" \notin batch'
  BY <1>1, DaemonAssumption DEF Due
<1>8. DaemonTypeOK'
  BY <1>1, <1>3, <1>4, <1>5, TypeKeeps DEF DaemonInv, DaemonTypeOK
<1>9. LoopConsistent'
  BY <1>1, <1>2, <1>6, DaemonAssumption DEF DaemonInv, LoopConsistent, NoPath
<1>10. PausedIsQuiet'
  BY <1>4, <1>7 DEF DaemonInv, PausedIsQuiet
<1>11. StartupCounted'
  BY <1>1, <1>2, <1>4, CountUnchanged DEF DaemonInv
<1> QED BY <1>8, <1>9, <1>10, <1>11 DEF DaemonInv

\* With the last startup grab comes the verdict.
LEMMA FinishStartupGrabKeeps ==
  ASSUME NEW d \in MainState, NEW grabbed \in BOOLEAN
  PROVE  LET f == FinishStartupGrab(d, grabbed)
         IN  /\ f \in MainState
             /\ f.paused = d.paused /\ f.owned = d.owned /\ f.window = d.window
             /\ f.pendingStartup = d.pendingStartup - 1
             /\ f.pendingStartup = 0 => f.startupGrabbed \/ (f.stop /\ f.exitCode = 1)
<1> DEFINE s == [d EXCEPT !.pendingStartup = @ - 1, !.startupGrabbed = @ \/ grabbed]
           t == [s EXCEPT !.exitCode = 1, !.stop = TRUE]
<1>1. /\ s \in MainState /\ s.paused = d.paused /\ s.owned = d.owned
      /\ s.window = d.window /\ s.pendingStartup = d.pendingStartup - 1
  <2>1. d.pendingStartup - 1 \in Int /\ (d.startupGrabbed \/ grabbed) \in BOOLEAN
    BY DEF MainState
  <2> QED BY <2>1 DEF MainState
<1>2. /\ t \in MainState /\ t.paused = s.paused /\ t.owned = s.owned
      /\ t.window = s.window /\ t.pendingStartup = s.pendingStartup
      /\ t.stop /\ t.exitCode = 1
  BY ZenonT(60), <1>1 DEF MainState
<1>3. FinishStartupGrab(d, grabbed)
      = IF s.pendingStartup = 0 /\ ~s.startupGrabbed THEN t ELSE s
  BY DEF FinishStartupGrab
<1> HIDE DEF s, t
<1> QED BY <1>1, <1>2, <1>3

\* A settle timer decides one startup grab, so the count goes down by one.
LEMMA SettleTimerKeeps ==
  ASSUME DaemonInv, NEW p \in Paths, SettleTimer(p)
  PROVE  DaemonInv'
<1> DEFINE grabbed == ~Gone(p) /\ Fate(p) = "free"
           k == IF grabbed THEN [kb[p] EXCEPT !.state = "grabbed"] ELSE NoKeyboard
<1>1. /\ p \in batch /\ batch' = batch \ {p}
      /\ kb' = [kb EXCEPT ![p] = k]
      /\ dmn' = IF kb[p].startup THEN FinishStartupGrab(dmn, grabbed) ELSE dmn
      /\ UNCHANGED <<world, pc, ready, serving>>
  BY DEF SettleTimer, DaemonInv, DaemonTypeOK
<1>2. /\ kb \in [Paths -> Keyboard] /\ kb[p] \in Keyboard
      /\ kb[p].state = "settling" /\ ~kb[p].due /\ ~kb[p].dead
      /\ serving = NoPath /\ pc = "pass"
  BY <1>1 DEF DaemonInv, DaemonTypeOK, LoopConsistent, Keyboard
<1>3. k \in Keyboard /\ k.state \in {"none", "grabbed"} /\ ~k.due /\ ~k.dead
  BY <1>2, NoKeyboardOK DEF Keyboard, NoKeyboard
<1>4. grabbed \in BOOLEAN
  BY DEF Gone
<1> HIDE DEF k, grabbed
<1>5. kb' \in [Paths -> Keyboard]
  BY <1>1, <1>2, <1>3
<1>6. /\ dmn' \in MainState /\ dmn'.paused = dmn.paused /\ dmn'.owned = dmn.owned
      /\ dmn'.window = dmn.window
  BY <1>1, <1>4, FinishStartupGrabKeeps DEF DaemonInv, DaemonTypeOK
<1>7. DaemonTypeOK'
  <2>1. batch' \subseteq Callbacks
    BY <1>1 DEF DaemonInv, DaemonTypeOK
  <2> QED BY <1>1, <1>5, <1>6, <2>1, TypeKeeps DEF DaemonInv, DaemonTypeOK
<1>8. LoopConsistent'
  BY <1>1, <1>2, <1>3, DaemonAssumption DEF DaemonInv, LoopConsistent, NoPath
<1>9. PausedIsQuiet'
  BY <1>1, <1>6 DEF DaemonInv, PausedIsQuiet
<1>10. StartupCounted'
  <2>1. /\ dmn.pendingStartup = Cardinality(StartupSettling)
        /\ StartupSettling = {} => dmn.startupGrabbed \/ (dmn.stop /\ dmn.exitCode = 1)
    BY <1>2 DEF DaemonInv, StartupCounted
  <2>2. StartupSettling' = StartupSettling \ {p}
    BY <1>1, <1>2, <1>3 DEF StartupSettling
  <2>3. CASE ~kb[p].startup
    <3>1. StartupSettling' = StartupSettling /\ dmn' = dmn
      BY <1>1, <2>2, <2>3 DEF StartupSettling
    <3> QED BY <2>1, <3>1 DEF StartupCounted
  <2>4. CASE kb[p].startup
    <3>1. IsFiniteSet(StartupSettling)
      <4>1. StartupSettling \subseteq Paths
        BY DEF StartupSettling
      <4> QED BY <4>1, DaemonAssumption, FS_Subset
    <3>2. p \in StartupSettling
      BY <1>2, <2>4 DEF StartupSettling
    <3>3. IsFiniteSet(StartupSettling \ {p})
          /\ Cardinality(StartupSettling \ {p}) = Cardinality(StartupSettling) - 1
      BY <3>1, <3>2, FS_RemoveElement
    <3>4. StartupSettling \ {p} = {} => Cardinality(StartupSettling \ {p}) = 0
      BY FS_EmptySet
    <3>5. dmn' = FinishStartupGrab(dmn, grabbed)
      BY <1>1, <2>4
    <3>6. /\ dmn'.pendingStartup = dmn.pendingStartup - 1
          /\ dmn'.pendingStartup = 0 =>
               dmn'.startupGrabbed \/ (dmn'.stop /\ dmn'.exitCode = 1)
      BY <3>5, <1>4, FinishStartupGrabKeeps DEF DaemonInv, DaemonTypeOK
    <3> QED BY <2>1, <2>2, <3>3, <3>4, <3>6 DEF StartupCounted
  <2> QED BY <2>3, <2>4
<1> QED BY <1>7, <1>8, <1>9, <1>10 DEF DaemonInv

\* Most steps of a pass leave the keyboards' states alone.
LEMMA PassKeeps ==
  ASSUME DaemonInv, DaemonTypeOK', pc = "pass", pc' = "pass",
         \A p \in Paths : SameKeyboard(kb[p], kb'[p]),
         batch' \subseteq batch,
         \A p \in Paths : p = serving' => kb[p].state = "grabbed",
         batch' # {} => serving' = NoPath,
         SameVerdict(dmn, dmn'), QuietWhenPaused(dmn'),
         batch' # {} /\ dmn'.paused => dmn.paused
  PROVE  DaemonInv'
<1>1. LoopConsistent'
  BY DEF DaemonInv, LoopConsistent, SameKeyboard
<1>2. PausedIsQuiet'
  BY DEF DaemonInv, PausedIsQuiet, QuietWhenPaused
<1>3. StartupCounted'
  BY CountUnchanged DEF DaemonInv, SameKeyboard
<1> QED BY <1>1, <1>2, <1>3 DEF DaemonInv

LEMMA QuietNow == ASSUME DaemonInv PROVE QuietWhenPaused(dmn) /\ SameVerdict(dmn, dmn)
  BY DEF DaemonInv, PausedIsQuiet, QuietWhenPaused, SameVerdict

LEMMA CallbacksKeep ==
  ASSUME DaemonInv, WindowTimer \/ ReloadTimer
  PROVE  DaemonInv'
<1>1. /\ batch # {} /\ batch' \subseteq batch
      /\ UNCHANGED <<world, kb, pc, ready, serving>>
  BY DEF WindowTimer, ReloadTimer
<1>2. serving = NoPath /\ pc = "pass"
  BY <1>1 DEF DaemonInv, LoopConsistent
<1>3. dmn \in MainState /\ disk \in Config /\ compositor \in BOOLEAN
  BY DEF DaemonInv, DaemonTypeOK
<1>4. /\ dmn' \in MainState /\ SameVerdict(dmn, dmn')
      /\ QuietWhenPaused(dmn') /\ (dmn'.paused => dmn.paused)
  <2>1. CASE WindowTimer
    <3>1. dmn' \in EngineTimeout(dmn, ~compositor) /\ (~compositor) \in BOOLEAN
      BY <1>3, <2>1 DEF WindowTimer
    <3> QED BY <1>3, <3>1, QuietNow, TimeoutKeeps DEF QuietWhenPaused
  <2>2. CASE ReloadTimer
    <3> DEFINE s == [dmn EXCEPT !.cfg = disk]
    <3>1. /\ s \in MainState /\ QuietWhenPaused(s) /\ SameVerdict(dmn, s)
          /\ s.paused = dmn.paused
      BY <1>3, QuietNow DEF MainState, QuietWhenPaused, SameVerdict
    <3>2. dmn' = s \/ (dmn' = SetPaused(s, FALSE) /\ s.paused)
      BY <2>2 DEF ReloadTimer, ReloadAll
    <3> HIDE DEF s
    <3>3. SetPaused(s, FALSE) \in MainState /\ QuietWhenPaused(SetPaused(s, FALSE))
          /\ SameVerdict(s, SetPaused(s, FALSE))
      BY <3>1, SetPausedKeeps
    <3> QED BY <3>1, <3>2, <3>3 DEF SameVerdict
  <2> QED BY <2>1, <2>2
<1>5. DaemonTypeOK'
  BY <1>1, <1>4, TypeKeeps DEF DaemonInv, DaemonTypeOK
<1>6. \A p \in Paths : SameKeyboard(kb[p], kb'[p]) /\ (p = serving' => FALSE)
  BY <1>1, <1>2, DaemonAssumption DEF SameKeyboard, NoPath
<1> QED BY <1>1, <1>2, <1>4, <1>5, <1>6, PassKeeps

LEMMA ServesKeep ==
  ASSUME DaemonInv, ServeSignal \/ ServeConfig \/ ServeControl
                    \/ (\E p \in Paths : ServeKeyboard(p))
  PROVE  DaemonInv'
<1>1. /\ UNCHANGED <<plugs, access, nodeEvents, down, disk, calls, signalled,
                     compositor, scene, kb, pc, batch>>
      /\ pc = "pass" /\ batch = {} /\ serving = NoPath
  BY DEF ServeSignal, ServeConfig, ServeControl, ServeKeyboard, Serve, LoopOver, Idle, world
<1>2. /\ dmn' \in MainState /\ SameVerdict(dmn, dmn') /\ dmn'.paused = dmn.paused
      /\ dmn'.owned = dmn.owned /\ dmn'.window = dmn.window
  <2>1. dmn' \in {dmn, [dmn EXCEPT !.stop = TRUE], [dmn EXCEPT !.debounce = "armed"]}
    BY DEF ServeSignal, ServeConfig, ServeControl, ServeKeyboard
  <2>2. dmn \in MainState
    BY DEF DaemonInv, DaemonTypeOK
  <2> QED BY <2>1, <2>2 DEF MainState, TimerStates, SameVerdict
<1>3. edited' \in BOOLEAN
  BY DEF ServeSignal, ServeConfig, ServeControl, ServeKeyboard, world, DaemonInv, DaemonTypeOK
<1>4. serving' \in Paths \cup {NoPath, Control}
      /\ (serving' \in Paths => kb[serving'].state = "grabbed")
  BY <1>1, DaemonAssumption DEF ServeSignal, ServeConfig, ServeControl, ServeKeyboard,
     NoPath, Control
<1>5. DaemonTypeOK'
  BY <1>1, <1>2, <1>3, <1>4 DEF DaemonInv, DaemonTypeOK
<1>6. QuietWhenPaused(dmn')
  BY <1>2, QuietNow DEF QuietWhenPaused
<1>7. \A p \in Paths : SameKeyboard(kb[p], kb'[p])
  BY <1>1 DEF SameKeyboard
<1> QED BY <1>1, <1>2, <1>4, <1>5, <1>6, <1>7, PassKeeps

LEMMA ControlKeeps ==
  ASSUME DaemonInv, ProcessCall \/ EndControl
  PROVE  DaemonInv'
<1>1. /\ UNCHANGED <<plugs, access, nodeEvents, down, disk, edited, signalled,
                     compositor, scene, kb, pc, batch>>
      /\ serving = Control /\ serving' \in {NoPath, Control}
  BY DEF ProcessCall, EndControl, loop, world
<1>2. pc = "pass" /\ batch = {}
  BY <1>1 DEF DaemonInv, LoopConsistent, NoPath, Control
<1>3. calls \in Seq(Methods)
  BY DEF DaemonInv, DaemonTypeOK
<1>4. calls' \in Seq(Methods)
  BY <1>3 DEF ProcessCall, EndControl, world
<1>5. dmn' \in MainState /\ SameVerdict(dmn, dmn') /\ QuietWhenPaused(dmn')
  <2>1. CASE ProcessCall
    <3>1. Head(calls) \in Methods /\ dmn' = Method(dmn, Head(calls))
      BY <1>3, <2>1 DEF ProcessCall
    <3>2. dmn \in MainState /\ QuietWhenPaused(dmn)
      BY QuietNow DEF DaemonInv, DaemonTypeOK
    <3> QED BY <3>1, <3>2, MethodKeeps
  <2>2. CASE EndControl
    BY <2>2, QuietNow DEF EndControl, DaemonInv, DaemonTypeOK
  <2> QED BY <2>1, <2>2
<1>6. DaemonTypeOK'
  BY <1>1, <1>4, <1>5 DEF DaemonInv, DaemonTypeOK
<1>7. \A p \in Paths : SameKeyboard(kb[p], kb'[p]) /\ p # serving'
  BY <1>1, DaemonAssumption DEF SameKeyboard, NoPath, Control
<1> QED BY <1>1, <1>2, <1>5, <1>6, <1>7, PassKeeps

LEMMA HotplugKeeps ==
  ASSUME DaemonInv, ServeHotplug
  PROVE  DaemonInv'
<1> DEFINE g(p) == GrabKeyboard(p, FALSE)
<1>1. /\ UNCHANGED <<plugs, access, down, disk, edited, calls, signalled,
                     compositor, scene, dmn, pc, serving, batch>>
      /\ nodeEvents' = {}
      /\ kb' = [p \in Paths |-> IF p \in nodeEvents /\ Eligible(p) THEN g(p) ELSE kb[p]]
      /\ pc = "pass" /\ batch = {} /\ serving = NoPath
  BY DEF ServeHotplug, Serve, Idle
<1>2. \A p \in Paths :
        /\ g(p) \in Keyboard
        /\ g(p) = kb[p] \/ (/\ kb[p].state = "none" /\ g(p).state = "settling"
                            /\ g(p).startup = FALSE /\ ~g(p).due /\ ~g(p).dead)
  BY GrabKeyboardKeeps
<1>3. \A p \in Paths : kb[p] \in Keyboard
  BY DEF DaemonInv, DaemonTypeOK
<1> HIDE DEF g
<1>4. \A p \in Paths :
        /\ kb'[p] \in Keyboard
        /\ kb'[p] = kb[p] \/ (/\ kb[p].state = "none" /\ kb'[p].state = "settling"
                              /\ kb'[p].startup = FALSE /\ ~kb'[p].due /\ ~kb'[p].dead)
  BY <1>1, <1>2, <1>3
<1>5. kb' \in [Paths -> Keyboard]
  BY <1>1, <1>2, <1>3
<1>6. DaemonTypeOK'
  BY <1>1, <1>5 DEF DaemonInv, DaemonTypeOK
<1>7. LoopConsistent'
  BY <1>1, <1>4, DaemonAssumption DEF DaemonInv, LoopConsistent, NoPath
<1>8. PausedIsQuiet'
  BY <1>1 DEF DaemonInv, PausedIsQuiet
<1>9. StartupCounted'
  BY <1>1, <1>4, CountUnchanged, QuietNow DEF DaemonInv
<1> QED BY <1>6, <1>7, <1>8, <1>9 DEF DaemonInv

LEMMA ReadEventKeeps ==
  ASSUME DaemonInv, ReadEvent
  PROVE  DaemonInv'
<1> DEFINE p == serving
           e == Head(kb[p].buffer)
           k(b) == [kb[p] EXCEPT !.buffer = Tail(@), !.read = ReadKey(@, e),
                                 !.app = IF b THEN @ ELSE ReadKey(@, e)]
<1>1. p \in Paths /\ kb[p].buffer # <<>> /\ UNCHANGED <<world, loop>>
  BY DEF ReadEvent
<1>2. /\ kb \in [Paths -> Keyboard] /\ kb[p] \in Keyboard
      /\ dmn \in MainState /\ compositor \in BOOLEAN
  BY <1>1 DEF DaemonInv, DaemonTypeOK
<1>3. e \in KeyEvent /\ Tail(kb[p].buffer) \in Seq(KeyEvent)
  BY <1>1, <1>2 DEF Keyboard
<1>4. PICK r \in Handler(dmn, e) :
        /\ dmn' = r.d
        /\ kb' = [kb EXCEPT ![p].buffer = Tail(@), ![p].read = ReadKey(@, e),
                            ![p].app = IF r.consumed THEN @ ELSE ReadKey(@, e)]
  BY DEF ReadEvent
<1>5. dmn' \in MainState /\ QuietWhenPaused(dmn') /\ SameVerdict(dmn, dmn')
      /\ r.consumed \in BOOLEAN
  <2> HIDE DEF e
  <2> QED BY <1>2, <1>3, <1>4, QuietNow, HandlerKeeps
<1>6. kb' = [kb EXCEPT ![p] = k(r.consumed)]
  BY <1>2, <1>4 DEF Keyboard
<1>7. k(r.consumed) \in Keyboard /\ SameKeyboard(kb[p], k(r.consumed))
  <2>1. \A keys \in SUBSET DaemonKeys : ReadKey(keys, e) \in SUBSET DaemonKeys
    BY <1>3 DEF ReadKey, KeyEvent
  <2> HIDE DEF e
  <2>2. k(r.consumed) \in Keyboard
    BY <1>2, <1>3, <1>5, <2>1 DEF Keyboard
  <2>3. SameKeyboard(kb[p], k(r.consumed))
    BY <1>2 DEF Keyboard, SameKeyboard
  <2> QED BY <2>2, <2>3
<1> HIDE DEF k
<1>8. kb' \in [Paths -> Keyboard] /\ \A q \in Paths : SameKeyboard(kb[q], kb'[q])
  <2>1. \A q \in Paths : SameKeyboard(kb[q], kb[q])
    BY DEF SameKeyboard
  <2> QED BY <1>1, <1>2, <1>6, <1>7, <2>1
<1>9. pc = "pass" /\ batch = {} /\ kb[p].state = "grabbed"
  BY <1>1, DaemonAssumption DEF DaemonInv, LoopConsistent, NoPath
<1>10. DaemonTypeOK'
  BY <1>1, <1>5, <1>8, TypeKeeps DEF DaemonInv, DaemonTypeOK, loop
<1> QED BY <1>1, <1>5, <1>8, <1>9, <1>10, PassKeeps DEF loop

LEMMA ResyncKeeps ==
  ASSUME DaemonInv, Resync
  PROVE  DaemonInv'
<1> DEFINE p == serving
           k == [kb[p] EXCEPT !.overrun = FALSE, !.read = down[p],
                              !.app = (@ \cup (down[p] \ kb[p].read)) \cap down[p]]
<1>1. p \in Paths /\ serving' = NoPath /\ UNCHANGED <<world, dmn, pc, ready, batch>>
  BY DEF Resync
<1>2. kb \in [Paths -> Keyboard] /\ kb[p] \in Keyboard /\ down[p] \in SUBSET DaemonKeys
  BY <1>1 DEF DaemonInv, DaemonTypeOK
<1>3. kb' = [kb EXCEPT ![p] = k]
  BY <1>2 DEF Resync, Keyboard
<1>4. k \in Keyboard /\ SameKeyboard(kb[p], k)
  BY <1>2 DEF Keyboard, SameKeyboard
<1> HIDE DEF k
<1>5. kb' \in [Paths -> Keyboard] /\ \A q \in Paths : SameKeyboard(kb[q], kb'[q])
  <2>1. \A q \in Paths : SameKeyboard(kb[q], kb[q])
    BY DEF SameKeyboard
  <2> QED BY <1>1, <1>2, <1>3, <1>4, <2>1
<1>6. DaemonTypeOK'
  BY <1>1, <1>5, TypeKeeps DEF DaemonInv, DaemonTypeOK
<1>7. pc = "pass" /\ batch = {}
  BY <1>1, DaemonAssumption DEF DaemonInv, LoopConsistent, NoPath
<1> QED BY <1>1, <1>5, <1>6, <1>7, QuietNow, PassKeeps, DaemonAssumption DEF NoPath

LEMMA EndDispatchKeeps ==
  ASSUME DaemonInv, EndDispatch
  PROVE  DaemonInv'
<1> DEFINE p == serving
           k == [kb[p] EXCEPT !.dead = Gone(p)]
<1>1. /\ p \in Paths /\ serving' = NoPath /\ kb' = [kb EXCEPT ![p] = k]
      /\ UNCHANGED <<world, dmn, pc, ready, batch>>
  BY DEF EndDispatch, DaemonInv, DaemonTypeOK
<1>2. /\ kb \in [Paths -> Keyboard] /\ kb[p] \in Keyboard
      /\ kb[p].state = "grabbed" /\ batch = {}
  BY <1>1, DaemonAssumption DEF DaemonInv, DaemonTypeOK, LoopConsistent, NoPath
<1>3. k \in Keyboard /\ k.state = kb[p].state /\ k.startup = kb[p].startup
      /\ k.due = kb[p].due
  BY <1>2 DEF Keyboard, Gone
<1> HIDE DEF k
<1>4. kb' \in [Paths -> Keyboard]
  BY <1>1, <1>2, <1>3
<1>5. DaemonTypeOK'
  BY <1>1, <1>4, TypeKeeps DEF DaemonInv, DaemonTypeOK
<1>6. LoopConsistent'
  BY <1>1, <1>2, <1>3, DaemonAssumption DEF DaemonInv, LoopConsistent, NoPath
<1>7. PausedIsQuiet'
  BY <1>1 DEF DaemonInv, PausedIsQuiet
<1>8. StartupCounted'
  BY <1>1, <1>2, <1>3, CountUnchanged, QuietNow DEF DaemonInv
<1> QED BY <1>5, <1>6, <1>7, <1>8 DEF DaemonInv

LEMMA EndPassKeeps ==
  ASSUME DaemonInv, EndPass
  PROVE  DaemonInv'
<1>1. CASE Exit(1) \/ Exit(dmn.exitCode)
  <2>1. dmn.exitCode \in {0, 1, kExitSessionUnsupported}
    BY DEF DaemonInv, DaemonTypeOK, MainState
  <2> QED BY <1>1, <2>1, ExitKeeps DEF EndPass
<1>2. CASE /\ kb' = [p \in Paths |-> IF kb[p].dead THEN NoKeyboard ELSE kb[p]]
           /\ pc' = "wait"
           /\ UNCHANGED <<dmn, ready, serving, batch>>
  <2>1. UNCHANGED world /\ pc = "pass" /\ batch = {} /\ serving = NoPath
    BY DEF EndPass, LoopOver, Idle
  <2>2. \A p \in Paths : kb[p] \in Keyboard
    BY DEF DaemonInv, DaemonTypeOK
  <2>3. kb' \in [Paths -> Keyboard]
    BY <1>2, <2>2, NoKeyboardOK
  <2>4. \A p \in Paths :
          \/ kb'[p] = kb[p]
          \/ /\ kb[p].state = "grabbed" /\ kb'[p].state = "none"
             /\ ~kb'[p].due /\ ~kb'[p].dead
    BY <1>2 DEF DaemonInv, LoopConsistent, NoKeyboard
  <2>5. DaemonTypeOK'
    BY <1>2, <2>1, <2>3, TypeKeeps DEF DaemonInv, DaemonTypeOK
  <2>6. LoopConsistent'
    BY <1>2, <2>1, <2>4, DaemonAssumption DEF DaemonInv, LoopConsistent, NoPath
  <2>7. PausedIsQuiet'
    BY <1>2 DEF DaemonInv, PausedIsQuiet
  <2>8. StartupCounted'
    BY <1>2, <2>1, <2>4, CountUnchanged, QuietNow DEF DaemonInv
  <2> QED BY <2>5, <2>6, <2>7, <2>8 DEF DaemonInv
<1> QED BY <1>1, <1>2 DEF EndPass

-----------------------------------------------------------------------------
LEMMA StepKeeps ==
  ASSUME DaemonInv, [Next]_vars
  PROVE  DaemonInv'
<1>1. CASE Outside \/ \E p \in Paths : GrantAccess(p)
  BY <1>1, KeysKeep, DevicesKeep, OthersKeep DEF Outside
<1>2. CASE Time
  BY <1>2, TimeKeeps DEF Time
<1>3. CASE Loop
  BY <1>3, BootKeeps, ScanKeeps, WaitKeeps, EndPassKeeps, ServeTimersKeeps, ServesKeep,
     HotplugKeeps, ControlKeeps, SettleTimerKeeps, CallbacksKeep, ReadEventKeeps,
     ResyncKeeps, EndDispatchKeeps DEF Loop
<1>4. CASE UNCHANGED vars
  <2>1. UNCHANGED <<world, kb, dmn, loop>>
    BY <1>4 DEF vars
  <2>2. DaemonTypeOK'
    BY <2>1, TypeKeeps DEF DaemonInv, DaemonTypeOK, loop
  <2> QED BY <2>1, <2>2, OutsideKeeps DEF SameKeyboard
<1> QED BY <1>1, <1>2, <1>3, <1>4 DEF Next

\* The invariant of the daemon's loop, for any set of keyboards and any course of
\* events outside (main.cpp).
THEOREM DaemonInvariant == Spec => []DaemonInv
<1>1. DaemonInv /\ [Next]_vars => DaemonInv'
  BY StepKeeps
<1> QED BY <1>1, InitHolds, PTL DEF Spec

\* main's variables keep their types (main.cpp 213-263 and 333-578).
THEOREM DaemonTypeCorrect == Spec => []DaemonTypeOK
<1>1. DaemonInv => DaemonTypeOK
  BY DEF DaemonInv
<1> QED BY <1>1, DaemonInvariant, PTL

\* Whoever pauses the daemon, in whatever state its engine is, leaves no gesture
\* half open and none begins before it is resumed (main.cpp 350-360).
THEOREM PausedStaysQuiet == Spec => []PausedIsQuiet
<1>1. DaemonInv => PausedIsQuiet
  BY DEF DaemonInv
<1> QED BY <1>1, DaemonInvariant, PTL

\* However the grabs of any number of keyboards end, and whatever is plugged and
\* unplugged meanwhile, none is lost from the count: the daemon never runs on
\* with every startup grab failed (main.cpp 496-578).
THEOREM StartupIsDecided == Spec => []StartupVerdict
<1>1. DaemonInv => StartupVerdict
  BY DEF DaemonInv, StartupCounted, StartupVerdict, Running
<1> QED BY <1>1, DaemonInvariant, PTL

LEMMA TailDiffers ==
  ASSUME NEW S, NEW s \in Seq(S), s # <<>>, NEW e \in S
  PROVE  Tail(s) # s /\ Tail(s) # Append(s, e)
<1>1. Len(Tail(s)) = Len(s) - 1 /\ Len(Append(s, e)) = Len(s) + 1 /\ Len(s) \in Nat
  OBVIOUS
<1>2. ASSUME Tail(s) = s PROVE FALSE
  <2>1. Len(Tail(s)) = Len(s)
    BY <1>2, Zenon
  <2> QED BY <1>1, <2>1
<1>3. ASSUME Tail(s) = Append(s, e) PROVE FALSE
  <2>1. Len(Tail(s)) = Len(Append(s, e))
    BY <1>3, Zenon
  <2> QED BY <1>1, <2>1
<1> QED BY <1>2, <1>3

\* Whatever step takes an event out of the buffer of the keyboard being served is
\* the step that hands it to the handler.
LEMMA OnlyReadEventReads ==
  ASSUME DaemonInv, [Next]_vars, NEW p \in Paths, Reads(p)
  PROVE  ReadEvent
<1>1. /\ serving = p /\ kb \in [Paths -> Keyboard] /\ kb[p] \in Keyboard
      /\ batch = {} /\ pc = "pass"
  BY DaemonAssumption DEF Reads, DaemonInv, DaemonTypeOK, LoopConsistent, NoPath
<1>2. kb[p].buffer \in Seq(KeyEvent) /\ kb[p].buffer # <<>>
  BY <1>1 DEF Keyboard, Reads
<1>3. /\ kb'[p].buffer # kb[p].buffer
      /\ \A e \in KeyEvent : kb'[p].buffer # Append(kb[p].buffer, e)
  <2>1. kb'[p].buffer = Tail(kb[p].buffer)
    BY DEF Reads
  <2>2. Head(kb[p].buffer) \in KeyEvent
    BY <1>2
  <2> QED BY <1>2, <2>1, <2>2, TailDiffers
<1>4. ~(\E q \in Paths, k \in DaemonKeys : KeyDown(q, k) \/ KeyUp(q, k) \/ KeyRepeat(q, k))
  <2> SUFFICES ASSUME NEW q \in Paths, NEW k \in DaemonKeys,
                      NEW value \in {"press", "release", "repeat"}, Arrive(q, k, value)
               PROVE  FALSE
    BY DEF KeyDown, KeyUp, KeyRepeat
  <2> DEFINE e == [key |-> k, value |-> value, direct |-> kb[q].state # "grabbed"]
  <2>1. kb' = kb \/ kb' = [kb EXCEPT ![q].buffer = Append(@, e)]
    BY DEF Arrive
  <2>3. e \in KeyEvent
    BY DEF KeyEvent
  <2> HIDE DEF e
  <2>2. kb'[p].buffer = kb[p].buffer \/ kb'[p].buffer = Append(kb[p].buffer, e)
    <3>1. CASE q = p
      BY <1>1, <2>1, <3>1 DEF Keyboard
    <3>2. CASE q # p
      BY <1>1, <2>1, <3>2
    <3> QED BY <3>1, <3>2
  <2> QED BY <1>3, <2>2, <2>3
<1>5. ~(\E q \in Paths : Plug(q) \/ Unplug(q) \/ GrantAccess(q) \/ Overrun(q))
  <2>1. ASSUME NEW q \in Paths, Plug(q) \/ Unplug(q) PROVE FALSE
    <3>1. plugs[q] \in Nat /\ plugs' = [plugs EXCEPT ![q] = @ + 1] /\ plugs' = plugs
      BY <2>1 DEF Plug, Unplug, Reads, DaemonInv, DaemonTypeOK
    <3> QED BY <3>1 DEF DaemonInv, DaemonTypeOK
  <2>2. ASSUME NEW q \in Paths, GrantAccess(q) PROVE FALSE
    BY <1>3, <2>2 DEF GrantAccess
  <2>3. ASSUME NEW q \in Paths, Overrun(q) PROVE FALSE
    <3>1. kb' = [kb EXCEPT ![q].buffer = <<>>, ![q].overrun = TRUE]
      BY <2>3 DEF Overrun
    <3>2. CASE q = p
      BY <1>1, <3>1, <3>2 DEF Keyboard, Reads
    <3>3. CASE q # p
      BY <1>1, <1>3, <3>1, <3>3
    <3> QED BY <3>2, <3>3
  <2> QED BY <2>1, <2>2, <2>3
<1>6. ~(Edit \/ (\E m \in Methods : Call(m)) \/ Signal \/ CompositorGoes)
  BY <1>3 DEF Edit, Call, Signal, CompositorGoes
<1>7. ~Time
  <2>1. ASSUME NEW q \in Paths, Settled(q) PROVE FALSE
    <3>1. kb'[p].buffer = kb[p].buffer
      BY <1>1, <2>1 DEF Settled, Keyboard
    <3> QED BY <1>3, <3>1
  <2> QED BY <1>3, <2>1 DEF Time, WindowDue, DebounceDue
<1>8. ~(Load \/ WatchDevices \/ Scan \/ WatchConfig \/ Wait)
  BY <1>1 DEF Load, WatchDevices, Scan, WatchConfig, Wait
<1>9. ~(EndPass \/ ServeTimers \/ ServeSignal \/ ServeHotplug \/ ServeConfig
        \/ ServeControl \/ WindowTimer \/ ReloadTimer
        \/ \E q \in Paths : ServeKeyboard(q) \/ SettleTimer(q))
  BY <1>1, DaemonAssumption DEF EndPass, ServeTimers, ServeSignal, ServeHotplug, ServeConfig,
     ServeControl, ServeKeyboard, SettleTimer, WindowTimer, ReloadTimer, Serve, LoopOver,
     Idle, NoPath
<1>10. ~(ProcessCall \/ EndControl)
  BY <1>1, DaemonAssumption DEF ProcessCall, EndControl, Control
<1>11. ~(Resync \/ EndDispatch)
  <2>1. Resync \/ EndDispatch => kb'[p].buffer = kb[p].buffer
    BY <1>1 DEF Resync, EndDispatch, Keyboard
  <2> QED BY <1>3, <2>1
<1>12. ~UNCHANGED vars
  BY <1>3 DEF vars
<1> QED BY <1>4, <1>5, <1>6, <1>7, <1>8, <1>9, <1>10, <1>11, <1>12
        DEF Next, Outside, Loop

\* However many events are still read when the connection to the compositor is
\* lost, on whichever keyboard: none of them is swallowed (main.cpp 418-427).
THEOREM DeadSinkAlwaysForwards == Spec => DeadSinkForwards
<1> DEFINE A == \A p \in Paths : dmn.sinkDead /\ Reads(p)
                  => kb'[p].app = ReadKey(kb[p].app, Head(kb[p].buffer))
<1>1. DaemonInv /\ [Next]_vars => [A]_vars
  <2> SUFFICES ASSUME DaemonInv, [Next]_vars, NEW p \in Paths, dmn.sinkDead, Reads(p)
               PROVE  kb'[p].app = ReadKey(kb[p].app, Head(kb[p].buffer))
    OBVIOUS
  <2> DEFINE e == Head(kb[p].buffer)
  <2>1. ReadEvent /\ serving = p
    BY OnlyReadEventReads DEF Reads
  <2>2. PICK r \in Handler(dmn, e) :
          kb' = [kb EXCEPT ![p].buffer = Tail(@), ![p].read = ReadKey(@, e),
                           ![p].app = IF r.consumed THEN @ ELSE ReadKey(@, e)]
    BY <2>1 DEF ReadEvent
  <2>3. ~r.consumed
    BY <2>2 DEF Handler
  <2>4. kb[p] \in Keyboard /\ kb \in [Paths -> Keyboard]
    BY DEF DaemonInv, DaemonTypeOK
  <2> QED BY <2>2, <2>3, <2>4 DEF Keyboard
<1> QED BY <1>1, DaemonInvariant, PTL DEF DeadSinkForwards, Spec
-----------------------------------------------------------------------------
(* One keyboard that loses nothing.                                        *)

\* The kernel drops no event and the keyboard stays (a key it would be unplugged with
\* stays owned by the engine; the run "unplug" shows what comes of it).
OneSteadyKeyboard ==
  /\ \E p \in Paths : Paths = {p}
  /\ \A s \in Scenes : s.drops = 0 /\ s.unplugs = 0

\* The unread events lead from the keys read as held to those that are held (h are
\* those in between), and none presses a held key.
Leads(b, from, to) ==
  \E h : /\ h[1] = from /\ h[Len(b) + 1] = to
         /\ \A i \in 1 .. Len(b) : /\ h[i + 1] = ReadKey(h[i], b[i])
                                   /\ b[i].value = "press" => b[i].key \notin h[i]

\* What a release will be swallowed for is held, and its press was swallowed.
InStep(k, d) ==
  ~d.stop => /\ k.app \subseteq k.read
             /\ ~d.sinkDead => d.owned \subseteq k.read \ k.app

\* A keyboard that has been opened is still the one that is plugged in; before it is
\* grabbed nothing of it has been handled.
Steady(k, d, n, held) ==
  /\ k.state # "none" => k.gen = n /\ n % 2 = 1 /\ Leads(k.buffer, k.read, held)
  /\ ~k.overrun /\ ~k.dead
  /\ k.state # "grabbed" => k.app = {} /\ d.owned = {}
  /\ InStep(k, d)

KeysInv ==
  /\ scene.drops = 0 /\ scene.unplugs = 0
  /\ \A p \in Paths : Steady(kb[p], dmn, plugs[p], down[p])

-----------------------------------------------------------------------------
(* The queue.                                                              *)

LEMMA NothingUnread ==
  ASSUME NEW b, b = <<>>, NEW s
  PROVE  Leads(b, s, s)
<1> DEFINE h == [i \in {1} |-> s]
<1>1. h[1] = s /\ Len(b) = 0
  OBVIOUS
<1> HIDE DEF h
<1>2. h[Len(b) + 1] = s /\ 1 .. Len(b) = {}
  BY <1>1
<1> QED BY <1>1, <1>2 DEF Leads

LEMMA Arrives ==
  ASSUME NEW b \in Seq(KeyEvent), NEW from, NEW to, Leads(b, from, to),
         NEW e \in KeyEvent, e.value = "press" => e.key \notin to
  PROVE  Leads(Append(b, e), from, ReadKey(to, e))
<1>1. PICK h : /\ h[1] = from /\ h[Len(b) + 1] = to
               /\ \A i \in 1 .. Len(b) : /\ h[i + 1] = ReadKey(h[i], b[i])
                                         /\ b[i].value = "press" => b[i].key \notin h[i]
  BY DEF Leads
<1> DEFINE n == Len(b)
           c == Append(b, e)
           last == ReadKey(to, e)
           g == [i \in 1 .. n + 2 |-> IF i = n + 2 THEN last ELSE h[i]]
<1>2. n \in Nat /\ Len(c) = n + 1 /\ c[n + 1] = e /\ \A i \in 1 .. n : c[i] = b[i]
  OBVIOUS
<1> HIDE DEF last, c
<1>3. \A i \in 1 .. n + 1 : g[i] = h[i]
  BY <1>2
<1>4. g[n + 2] = last
  BY <1>2
<1> HIDE DEF g, n
<1>5. g[1] = from /\ g[Len(c) + 1] = last
  BY <1>1, <1>2, <1>3, <1>4
<1>6. ASSUME NEW i \in 1 .. Len(c)
      PROVE  /\ g[i + 1] = ReadKey(g[i], c[i])
             /\ c[i].value = "press" => c[i].key \notin g[i]
  <2>1. CASE i = n + 1
    <3>1. g[i] = to /\ c[i] = e /\ g[i + 1] = last
      BY <1>1, <1>2, <1>3, <1>4, <2>1 DEF n
    <3> QED BY <3>1 DEF last
  <2>2. CASE i # n + 1
    <3>1. i \in 1 .. n /\ g[i] = h[i] /\ g[i + 1] = h[i + 1] /\ c[i] = b[i]
      BY <1>2, <1>3, <2>2
    <3> QED BY <1>1, <3>1 DEF n
  <2> QED BY <2>1, <2>2
<1> QED BY <1>5, <1>6 DEF Leads, last, c

LEMMA Taken ==
  ASSUME NEW b \in Seq(KeyEvent), b # <<>>, NEW from, NEW to, Leads(b, from, to)
  PROVE  /\ Leads(Tail(b), ReadKey(from, Head(b)), to)
         /\ Head(b).value = "press" => Head(b).key \notin from
<1>1. PICK h : /\ h[1] = from /\ h[Len(b) + 1] = to
               /\ \A i \in 1 .. Len(b) : /\ h[i + 1] = ReadKey(h[i], b[i])
                                         /\ b[i].value = "press" => b[i].key \notin h[i]
  BY DEF Leads
<1> DEFINE n == Len(b)
           c == Tail(b)
           g == [i \in 1 .. n |-> h[i + 1]]
<1>2. /\ n \in Nat /\ n >= 1 /\ Len(c) = n - 1 /\ Head(b) = b[1]
      /\ \A i \in 1 .. n - 1 : c[i] = b[i + 1]
  OBVIOUS
<1>3. /\ h[2] = ReadKey(from, Head(b))
      /\ Head(b).value = "press" => Head(b).key \notin from
  BY <1>1, <1>2
<1> HIDE DEF c
<1>4. \A i \in 1 .. n : g[i] = h[i + 1]
  OBVIOUS
<1> HIDE DEF g, n
<1>5. g[1] = h[2] /\ g[Len(c) + 1] = to
  BY <1>1, <1>2, <1>4 DEF n
<1>6. ASSUME NEW i \in 1 .. Len(c)
      PROVE  /\ g[i + 1] = ReadKey(g[i], c[i])
             /\ c[i].value = "press" => c[i].key \notin g[i]
  <2>1. i \in 1 .. n /\ i + 1 \in 1 .. n /\ c[i] = b[i + 1] /\ i + 1 \in Nat
    BY <1>2
  <2>2. g[i] = h[i + 1] /\ g[i + 1] = h[(i + 1) + 1]
    BY <1>4, <2>1
  <2> QED BY <1>1, <2>1, <2>2 DEF n
<1>7. Leads(c, h[2], to)
  BY <1>5, <1>6 DEF Leads
<1> QED BY <1>3, <1>7 DEF c

-----------------------------------------------------------------------------
(* The handler.                                                            *)

\* What the engine may do about the key of an event: it withholds no key but a
\* pressed one, and consumes the release it owns and no other.
Answered(d, e, r) ==
  /\ d.sinkDead => r.d.sinkDead
  /\ \/ r.d.owned \subseteq d.owned /\ ~r.consumed
        /\ ~(e.value = "release" /\ e.key \in d.owned)
     \/ r.d.owned \subseteq d.owned /\ r.consumed /\ e.value # "release"
     \/ r.d.owned \subseteq d.owned \cup {e.key} /\ r.consumed /\ e.value = "press"
     \/ r.d.owned = d.owned \ {e.key} /\ r.consumed /\ e.value = "release"
        /\ e.key \in d.owned

LEMMA EngineAnswers ==
  ASSUME NEW d \in MainState, NEW e \in KeyEvent, NEW gone \in BOOLEAN,
         NEW r \in EngineKey(d, e, gone)
  PROVE  Answered(d, e, r)
<1> DEFINE owns(x, o) == x \in MainState /\ x.owned \subseteq o /\ (d.sinkDead => x.sinkDead)
           off == [d EXCEPT !.window = "off"]
           settled  == MaySettle(d, gone)
           stepped  == UNION {Windows(x) : x \in settled}
           withheld == UNION {Withhold(x, e.key) : x \in settled}
           released == UNION {LetGo(x, e.key) : x \in {d, Commit(d, gone)}}
<1>1. \A x \in MainState : owns(x, d.owned) => owns(Commit(x, gone), d.owned)
  BY DEF Commit, MainState
<1>2. owns(d, d.owned) /\ owns(off, d.owned)
  BY DEF MainState, TimerStates
<1>3. \A x \in settled : owns(x, d.owned)
  <2>1. ASSUME NEW x, owns(x, d.owned), NEW o \in SUBSET d.owned
        PROVE  owns([x EXCEPT !.owned = o], d.owned)
    <3>1. [x EXCEPT !.owned = o] \in MainState /\ [x EXCEPT !.owned = o].owned = o
          /\ [x EXCEPT !.owned = o].sinkDead = x.sinkDead
      BY <2>1 DEF MainState
    <3> QED BY <2>1, <3>1
  <2>2. owns(Commit(off, gone), d.owned)
    BY <1>1, <1>2
  <2> HIDE DEF owns, off
  <2> QED BY <1>2, <2>1, <2>2 DEF MaySettle, Ends, Owning, off
<1>4. \A x, o : owns(x, o) => \A y \in Windows(x) : owns(y, o)
  BY DEF Windows, MainState, TimerStates
<1>5. \A y \in stepped : owns(y, d.owned)
  BY <1>3, <1>4
<1>6. ASSUME e.key \in Letters, NEW x, owns(x, d.owned)
      PROVE  \A y \in Withhold(x, e.key) : owns(y, d.owned \cup {e.key})
  <2>1. owns([x EXCEPT !.owned = @ \cup {e.key}], d.owned \cup {e.key})
    BY <1>6 DEF MainState
  <2> HIDE DEF owns
  <2> QED BY <1>4, <2>1 DEF Withhold
<1>7. e.key \in Letters => \A y \in withheld : owns(y, d.owned \cup {e.key})
  <2> HIDE DEF owns
  <2> QED BY <1>3, <1>6
<1>8. \A y \in released : y.owned = d.owned \ {e.key} /\ (d.sinkDead => y.sinkDead)
  <2>1. ASSUME NEW x \in MainState, x.owned = d.owned, d.sinkDead => x.sinkDead
        PROVE  \A y \in LetGo(x, e.key) :
                 y.owned = d.owned \ {e.key} /\ (d.sinkDead => y.sinkDead)
    BY <2>1 DEF LetGo, Windows, MainState
  <2>2. /\ Commit(d, gone) \in MainState /\ Commit(d, gone).owned = d.owned
        /\ d.sinkDead => Commit(d, gone).sinkDead
    BY DEF Commit, MainState
  <2> QED BY <2>1, <2>2
<1>9. \A ds, c : r \in Answers(ds, c) => r.d \in ds /\ r.consumed = c
  BY DEF Answers
<1>10. e.value \in {"press", "repeat", "release"}
  BY DEF KeyEvent
<1>11. \/ r \in Answers(settled, FALSE) /\ e.value # "release"
       \/ r \in Answers({d}, FALSE) /\ ~(e.value = "release" /\ e.key \in d.owned)
       \/ r \in Answers(stepped, TRUE) /\ e.value # "release"
       \/ r \in Answers(withheld, TRUE) /\ e.value = "press" /\ e.key \in Letters
       \/ r \in Answers(released, TRUE) /\ e.value = "release" /\ e.key \in d.owned
  BY <1>10 DEF EngineKey, Answers
<1> HIDE DEF settled, stepped, withheld, released
<1>12. CASE r \in Answers(settled, FALSE) /\ e.value # "release"
  BY <1>3, <1>9, <1>12 DEF Answered
<1>13. CASE r \in Answers({d}, FALSE) /\ ~(e.value = "release" /\ e.key \in d.owned)
  BY <1>2, <1>9, <1>13 DEF Answered
<1>14. CASE r \in Answers(stepped, TRUE) /\ e.value # "release"
  BY <1>5, <1>9, <1>14 DEF Answered
<1>15. CASE r \in Answers(withheld, TRUE) /\ e.value = "press" /\ e.key \in Letters
  BY <1>7, <1>9, <1>15 DEF Answered
<1>16. CASE r \in Answers(released, TRUE) /\ e.value = "release" /\ e.key \in d.owned
  BY <1>8, <1>9, <1>16 DEF Answered
<1> QED BY <1>11, <1>12, <1>14, <1>15, <1>16, <1>13

\* Whatever the handler answers, the clone stays in step with what was read.
LEMMA HandlerInStep ==
  ASSUME NEW d \in MainState, NEW e \in KeyEvent, NEW r \in Handler(d, e),
         NEW k, InStep(k, d), QuietWhenPaused(d), compositor \in BOOLEAN,
         e.value = "press" => e.key \notin k.read,
         NEW t, t.read = ReadKey(k.read, e),
         t.app = IF r.consumed THEN k.app ELSE ReadKey(k.app, e)
  PROVE  InStep(t, r.d)
<1> DEFINE s == [d EXCEPT !.shifts = ShiftFlags(d, e)]
<1>1. s \in MainState /\ s.owned = d.owned /\ s.sinkDead = d.sinkDead /\ s.stop = d.stop
      /\ s.paused = d.paused
  <2>1. ShiftFlags(d, e) \in SUBSET Shifts
    BY DEF ShiftFlags, MainState
  <2> QED BY <2>1 DEF MainState
<1>2. e.value \in {"press", "release", "repeat"}
  BY DEF KeyEvent
<1>3. ASSUME ~d.stop, ~d.sinkDead, Answered(d, e, r) PROVE InStep(t, r.d)
  <2>1. k.app \subseteq k.read /\ d.owned \subseteq k.read \ k.app
    BY <1>3 DEF InStep
  <2>2. CASE e.value = "press"
    <3>1. t.read = k.read \cup {e.key} /\ e.key \notin k.read
          /\ t.app = IF r.consumed THEN k.app ELSE k.app \cup {e.key}
      BY <2>2 DEF ReadKey
    <3>2. \/ r.d.owned \subseteq d.owned
          \/ r.d.owned \subseteq d.owned \cup {e.key} /\ r.consumed
      BY <1>3, <2>2 DEF Answered
    <3> QED BY <2>1, <3>1, <3>2 DEF InStep
  <2>3. CASE e.value = "release"
    <3>1. t.read = k.read \ {e.key}
          /\ t.app = IF r.consumed THEN k.app ELSE k.app \ {e.key}
      BY <2>3 DEF ReadKey
    <3>2. \/ r.d.owned \subseteq d.owned /\ ~r.consumed /\ e.key \notin d.owned
          \/ r.d.owned = d.owned \ {e.key} /\ e.key \in d.owned /\ r.consumed
      BY <1>3, <2>3 DEF Answered
    <3> QED BY <2>1, <3>1, <3>2 DEF InStep
  <2>4. CASE e.value = "repeat"
    <3>1. t.read = k.read /\ t.app = k.app
      BY <2>4 DEF ReadKey
    <3>2. r.d.owned \subseteq d.owned
      BY <1>3, <2>4 DEF Answered
    <3> QED BY <2>1, <3>1, <3>2 DEF InStep
  <2> QED BY <1>2, <2>2, <2>3, <2>4
<1>4. d.stop => r.d.stop
  BY HandlerKeeps DEF SameVerdict
<1>5. CASE d.stop
  BY <1>4, <1>5 DEF InStep
<1>6. CASE ~d.stop /\ d.sinkDead
  <2>1. r = [d |-> d, consumed |-> FALSE]
    BY <1>6 DEF Handler
  <2> QED BY <1>2, <1>6, <2>1 DEF InStep, ReadKey
<1>7. CASE ~d.stop /\ ~d.sinkDead /\ Shifts \subseteq s.shifts
  <2>1. r = [d |-> [s EXCEPT !.stop = TRUE], consumed |-> FALSE]
    BY <1>7 DEF Handler
  <2>2. r.d.stop
    BY <1>1, <2>1 DEF MainState
  <2> QED BY <2>2 DEF InStep
<1>8. CASE ~d.stop /\ ~d.sinkDead /\ ~(Shifts \subseteq s.shifts)
  <2>1. \/ e.value = "press" /\ r = [d |-> SetPaused(s, ~s.paused), consumed |-> TRUE]
        \/ s.paused /\ r = [d |-> s, consumed |-> FALSE]
        \/ ~s.paused /\ r \in EngineKey(s, e, ~compositor)
    BY <1>8 DEF Handler
  <2>2. CASE e.value = "press" /\ r = [d |-> SetPaused(s, ~s.paused), consumed |-> TRUE]
    <3>1. r.d.owned = {} /\ r.consumed
      BY <1>1, <2>2 DEF SetPaused, FocusChanged, MainState
    <3> QED BY <1>8, <2>2, <3>1 DEF InStep, ReadKey
  <2>3. CASE s.paused /\ r = [d |-> s, consumed |-> FALSE]
    <3>1. r.d.owned = {} /\ ~r.consumed
      BY <1>1, <2>3 DEF QuietWhenPaused
    <3> QED BY <1>2, <1>8, <3>1 DEF InStep, ReadKey
  <2>4. CASE ~s.paused /\ r \in EngineKey(s, e, ~compositor)
    <3>1. Answered(s, e, r)
      BY <1>1, <2>4, EngineAnswers
    <3>2. Answered(d, e, r)
      BY <1>1, <3>1 DEF Answered
    <3> QED BY <1>3, <1>8, <3>2
  <2> QED BY <2>1, <2>2, <2>3, <2>4
<1> QED BY <1>5, <1>6, <1>7, <1>8

-----------------------------------------------------------------------------
(* The steps.                                                              *)

SameKeys(a, b) == /\ b.state = a.state /\ b.gen = a.gen /\ b.overrun = a.overrun
                  /\ b.dead = a.dead /\ b.buffer = a.buffer
                  /\ b.read = a.read /\ b.app = a.app
Disowns(d, s) == /\ s.owned \subseteq d.owned
                 /\ d.stop => s.stop
                 /\ d.sinkDead => s.sinkDead

\* Most steps move no key and let the engine own no more.
LEMMA RestKeeps ==
  ASSUME KeysInv, scene'.drops = 0, scene'.unplugs = 0, down' = down,
         \A p \in Paths : kb[p].state = "none" \/ plugs'[p] = plugs[p],
         \A p \in Paths : SameKeys(kb[p], kb'[p]),
         Disowns(dmn, dmn')
  PROVE  KeysInv'
<1> SUFFICES ASSUME NEW p \in Paths
             PROVE  Steady(kb'[p], dmn', plugs'[p], down'[p])
  BY DEF KeysInv
<1>1. Steady(kb[p], dmn, plugs[p], down[p]) /\ SameKeys(kb[p], kb'[p])
  BY DEF KeysInv
<1>2. InStep(kb'[p], dmn')
  BY <1>1 DEF Steady, InStep, SameKeys, Disowns
<1> QED BY <1>1, <1>2 DEF Steady, SameKeys, Disowns

LEMMA SpendsOther ==
  ASSUME scene \in Scene, scene.drops = 0, scene.unplugs = 0,
         NEW what \in Happenings, Spend(what)
  PROVE  scene'.drops = 0 /\ scene'.unplugs = 0 /\ what \notin {"drops", "unplugs"}
<1>1. what \notin {"drops", "unplugs"}
  BY DEF Spend
<1>2. scene' = [scene EXCEPT !["drops"] = scene["drops"]]
      \/ scene' = [scene EXCEPT ![what] = scene[what] - 1]
  BY DEF Spend
<1>3. scene' = [scene EXCEPT ![what] = scene[what] - 1]
  BY DEF Spend
<1> QED BY <1>1, <1>3 DEF Scene, Happenings

LEMMA SceneStays ==
  ASSUME DaemonInv, KeysInv, [Next]_vars
  PROVE  scene'.drops = 0 /\ scene'.unplugs = 0
<1>1. scene \in Scene /\ scene.drops = 0 /\ scene.unplugs = 0
  BY DEF DaemonInv, DaemonTypeOK, KeysInv
<1>2. scene' = scene \/ \E what \in Happenings : Spend(what)
  <2>1. CASE Outside
    BY <2>1 DEF Outside, KeyDown, KeyUp, KeyRepeat, Plug, Unplug, Overrun, Edit, Call, Signal,
       CompositorGoes, Happenings
  <2>2. CASE Time \/ \E p \in Paths : GrantAccess(p)
    BY <2>2 DEF Time, Settled, WindowDue, DebounceDue, GrantAccess, world
  <2>3. CASE Loop
    BY <2>3 DEF Loop, world, Load, WatchDevices, Scan, WatchConfig, Wait, EndPass, ServeTimers,
       ServeSignal, ServeHotplug, ServeConfig, ServeControl, ProcessCall, EndControl,
       ServeKeyboard, SettleTimer, WindowTimer, ReloadTimer, ReadEvent, Resync, EndDispatch
  <2>4. CASE UNCHANGED vars
    BY <2>4 DEF vars, world
  <2> QED BY <2>1, <2>2, <2>3, <2>4 DEF Next
<1> QED BY <1>1, <1>2, SpendsOther

LEMMA TypesOf ==
  ASSUME DaemonInv, NEW p \in Paths
  PROVE  /\ kb \in [Paths -> Keyboard] /\ kb[p] \in Keyboard
         /\ kb[p].buffer \in Seq(KeyEvent) /\ kb[p].gen \in Nat
         /\ plugs \in [Paths -> Nat] /\ plugs[p] \in Nat
         /\ down \in [Paths -> SUBSET DaemonKeys] /\ down[p] \in SUBSET DaemonKeys
         /\ dmn \in MainState
         /\ compositor \in BOOLEAN /\ disk \in Config
<1>1. kb \in [Paths -> Keyboard]
  BY DEF DaemonInv, DaemonTypeOK
<1>2. kb[p] \in Keyboard
  BY <1>1
<1>3. kb[p].buffer \in Seq(KeyEvent) /\ kb[p].gen \in Nat
  BY <1>2 DEF Keyboard
<1> QED BY <1>1, <1>2, <1>3 DEF DaemonInv, DaemonTypeOK

LEMMA KeysSteps ==
  ASSUME DaemonInv, KeysInv, [Next]_vars, NEW p \in Paths, NEW k \in DaemonKeys,
         KeyDown(p, k) \/ KeyUp(p, k) \/ KeyRepeat(p, k)
  PROVE  KeysInv'
<1> DEFINE e(v) == [key |-> k, value |-> v, direct |-> kb[p].state # "grabbed"]
<1>1. PICK v \in {"press", "release", "repeat"} :
        /\ Arrive(p, k, v)
        /\ v = "press" => k \notin down[p]
        /\ down' = [down EXCEPT ![p] = ReadKey(down[p], e(v))]
  <2>1. CASE KeyDown(p, k)
    <3>1. ReadKey(down[p], e("press")) = down[p] \cup {k}
      BY DEF ReadKey
    <3> QED BY <2>1, <3>1 DEF KeyDown
  <2>2. CASE KeyUp(p, k)
    <3>1. ReadKey(down[p], e("release")) = down[p] \ {k}
      BY DEF ReadKey
    <3> QED BY <2>2, <3>1 DEF KeyUp
  <2>3. CASE KeyRepeat(p, k)
    <3>1. ReadKey(down[p], e("repeat")) = down[p]
      BY DEF ReadKey
    <3>2. down' = [down EXCEPT ![p] = down[p]]
      BY <2>3, TypesOf DEF KeyRepeat
    <3> QED BY <2>3, <3>1, <3>2 DEF KeyRepeat
  <2> QED BY <2>1, <2>2, <2>3
<1>2. e(v) \in KeyEvent /\ (e(v)).value = v /\ (e(v)).key = k
  BY DEF KeyEvent
<1>3. plugs' = plugs /\ dmn' = dmn
  BY DEF KeyDown, KeyUp, KeyRepeat
<1> DEFINE t == [kb[p] EXCEPT !.buffer = Append(@, e(v))]
<1>4. \/ kb' = kb /\ (~Opened(p) \/ kb[p].overrun)
      \/ kb' = [kb EXCEPT ![p] = t] /\ Opened(p)
  <2>1. [kb EXCEPT ![p].buffer = Append(@, e(v))] = [kb EXCEPT ![p] = t]
    BY TypesOf
  <2>2. kb' = IF ~Opened(p) \/ kb[p].overrun THEN kb
              ELSE [kb EXCEPT ![p].buffer = Append(@, e(v))]
    BY <1>1 DEF Arrive
  <2> HIDE DEF e, t
  <2> QED BY <2>1, <2>2
<1> HIDE DEF e
<1>5. /\ SameKeys(kb[p], [t EXCEPT !.buffer = kb[p].buffer])
      /\ t.buffer = Append(kb[p].buffer, e(v)) /\ t.state = kb[p].state /\ t.gen = kb[p].gen
      /\ t.overrun = kb[p].overrun /\ t.dead = kb[p].dead /\ t.read = kb[p].read
      /\ t.app = kb[p].app
  BY TypesOf DEF Keyboard, SameKeys
<1> HIDE DEF t
<1>6. Steady(kb[p], dmn, plugs[p], down[p])
  BY DEF KeysInv
<1>7. Steady(kb'[p], dmn', plugs'[p], down'[p])
  <2>1. down'[p] = ReadKey(down[p], e(v))
    BY <1>1, TypesOf
  <2>2. CASE kb' = kb /\ (~Opened(p) \/ kb[p].overrun)
    <3>1. kb[p].state = "none"
      BY <1>6, <2>2 DEF Opened, Steady
    <3> QED BY <1>3, <1>6, <2>2, <3>1 DEF Steady
  <2>3. CASE kb' = [kb EXCEPT ![p] = t] /\ Opened(p)
    <3>1. kb'[p] = t
      BY <2>3, TypesOf
    <3>2. Leads(kb[p].buffer, kb[p].read, down[p])
      BY <1>6, <2>3 DEF Steady, Opened
    <3>3. Leads(t.buffer, t.read, down'[p])
      BY <1>1, <1>2, <1>5, <2>1, <3>2, TypesOf, Arrives
    <3>4. InStep(t, dmn)
      BY <1>5, <1>6 DEF Steady, InStep
    <3> QED BY <1>3, <1>5, <1>6, <3>1, <3>3, <3>4 DEF Steady
  <2> QED BY <1>4, <2>2, <2>3
<1>8. \A q \in Paths \ {p} : kb'[q] = kb[q] /\ down'[q] = down[q]
  BY <1>1, <1>4, TypesOf
<1> QED BY <1>3, <1>7, <1>8, SceneStays DEF KeysInv

LEMMA DeviceSteps ==
  ASSUME DaemonInv, KeysInv, [Next]_vars, NEW p \in Paths,
         Plug(p) \/ Unplug(p) \/ Overrun(p) \/ GrantAccess(p)
  PROVE  KeysInv'
<1>1. ~Unplug(p) /\ ~Overrun(p)
  BY SpendsOther DEF Unplug, Overrun, DaemonInv, DaemonTypeOK, KeysInv, Happenings
<1>2. UNCHANGED <<down, kb, dmn>>
  BY <1>1 DEF Plug, GrantAccess
<1>3. \A q \in Paths : kb[q].state = "none" \/ plugs'[q] = plugs[q]
  <2>1. CASE GrantAccess(p)
    BY <2>1 DEF GrantAccess
  <2>2. CASE Plug(p)
    <3>1. kb[p].state = "none"
      BY <2>2 DEF Plug, Plugged, KeysInv, Steady
    <3> QED BY <2>2, <3>1, TypesOf DEF Plug
  <2> QED BY <1>1, <2>1, <2>2
<1> QED BY <1>2, <1>3, RestKeeps, SceneStays DEF SameKeys, Disowns

\* What leaves keyboards and keys alone, whatever it does to the rest.
LEMMA QuietSteps ==
  ASSUME DaemonInv, KeysInv, [Next]_vars,
         \/ Edit \/ (\E m \in Methods : Call(m)) \/ Signal \/ CompositorGoes
         \/ Time
         \/ WatchDevices \/ WatchConfig \/ Wait \/ ServeTimers \/ ServeSignal \/ ServeConfig
         \/ ServeControl \/ ProcessCall \/ EndControl \/ (\E p \in Paths : ServeKeyboard(p))
         \/ WindowTimer \/ ReloadTimer \/ UNCHANGED vars
  PROVE  KeysInv'
<1>1. UNCHANGED <<plugs, down>>
  BY DEF Edit, Call, Signal, CompositorGoes, Time, Settled, WindowDue, DebounceDue, WatchDevices,
     WatchConfig, Wait, ServeTimers, ServeSignal, ServeConfig, ServeControl, ProcessCall,
     EndControl, ServeKeyboard, WindowTimer, ReloadTimer, vars, world
<1>2. \A p \in Paths : SameKeys(kb[p], kb'[p])
  <2>1. CASE kb' = kb
    BY <2>1 DEF SameKeys
  <2>2. ASSUME NEW q \in Paths, NEW b \in BOOLEAN, NEW x, x = [kb[q] EXCEPT !.due = b]
        PROVE  SameKeys(kb[q], x)
    BY <2>2, TypesOf DEF SameKeys, Keyboard
  <2>3. ASSUME NEW p \in Paths, Settled(p)
        PROVE  \A q \in Paths : SameKeys(kb[q], kb'[q])
    <3>1. kb' = [kb EXCEPT ![p] = [kb[p] EXCEPT !.due = TRUE]]
      BY <2>3, TypesOf DEF Settled
    <3>2. kb'[p] = [kb[p] EXCEPT !.due = TRUE] /\ \A q \in Paths \ {p} : kb'[q] = kb[q]
      BY <3>1, TypesOf
    <3>3. SameKeys(kb[p], kb'[p])
      BY <2>2, <3>2
    <3> QED BY <3>2, <3>3 DEF SameKeys
  <2>4. CASE ServeTimers
    <3> SUFFICES ASSUME NEW q \in Paths PROVE SameKeys(kb[q], kb'[q])
      OBVIOUS
    <3>1. kb'[q] = [kb[q] EXCEPT !.due = FALSE]
      BY <2>4 DEF ServeTimers
    <3> QED BY <2>2, <3>1
  <2> QED BY <2>1, <2>3, <2>4 DEF Edit, Call, Signal, CompositorGoes, Time, WindowDue,
          DebounceDue, WatchDevices, WatchConfig, Wait, ServeSignal, ServeConfig, ServeControl,
          ProcessCall, EndControl, ServeKeyboard, WindowTimer, ReloadTimer, vars, Goto
<1>3. Disowns(dmn, dmn')
  <2>1. dmn \in MainState
    BY DEF DaemonInv, DaemonTypeOK
  <2>2. ASSUME NEW d \in MainState, NEW on \in BOOLEAN PROVE Disowns(d, SetPaused(d, on))
    BY DEF Disowns, SetPaused, FocusChanged, MainState
  <2>3. CASE dmn' = dmn
    BY <2>3 DEF Disowns
  <2>4. CASE WindowDue \/ DebounceDue \/ ServeTimers \/ ServeSignal \/ ServeConfig
    BY <2>1, <2>4 DEF WindowDue, DebounceDue, ServeTimers, ServeSignal, ServeConfig,
       Disowns, MainState
  <2>5. CASE WindowTimer
    <3>1. dmn' \in EngineTimeout(dmn, ~compositor) /\ (~compositor) \in BOOLEAN
      BY <2>5, TypesOf DEF WindowTimer, DaemonInv, DaemonTypeOK
    <3> QED BY <2>1, <3>1, TimeoutKeeps DEF Disowns, SameVerdict
  <2>6. CASE ReloadTimer
    <3> DEFINE s == [dmn EXCEPT !.cfg = disk]
    <3>1. s \in MainState /\ Disowns(dmn, s)
      BY <2>1 DEF Disowns, MainState, DaemonInv, DaemonTypeOK
    <3>2. dmn' = s \/ dmn' = SetPaused(s, FALSE)
      BY <2>6 DEF ReloadTimer, ReloadAll
    <3> HIDE DEF s
    <3>3. Disowns(s, SetPaused(s, FALSE))
      BY <2>2, <3>1
    <3> QED BY <3>1, <3>2, <3>3 DEF Disowns
  <2>7. CASE ProcessCall
    <3>1. Head(calls) \in Methods /\ dmn' = Method(dmn, Head(calls))
      BY <2>7 DEF ProcessCall, DaemonInv, DaemonTypeOK
    <3>2. \/ dmn' = [dmn EXCEPT !.stop = TRUE]
          \/ \E on \in BOOLEAN : dmn' = SetPaused(dmn, on)
      BY <2>1, <3>1 DEF Method, Methods, MainState
    <3>3. Disowns(dmn, [dmn EXCEPT !.stop = TRUE])
      BY <2>1 DEF Disowns, MainState
    <3> QED BY <2>1, <2>2, <3>2, <3>3
  <2> QED BY <2>3, <2>4, <2>6, <2>7, <2>5 DEF Edit, Call, Signal, CompositorGoes, Time, Settled,
          WatchDevices, WatchConfig, Wait, ServeControl, EndControl, ServeKeyboard, vars, Goto
<1> QED BY <1>1, <1>2, <1>3, RestKeeps, SceneStays

LEMMA GrabSteps ==
  ASSUME DaemonInv, KeysInv, [Next]_vars, UNCHANGED <<plugs, down>>, Disowns(dmn, dmn'),
         kb' \in [Paths -> Keyboard],
         \A p \in Paths : \/ kb'[p] = kb[p]
                          \/ /\ Eligible(p)
                             /\ \E b \in BOOLEAN : kb'[p] = GrabKeyboard(p, b)
  PROVE  KeysInv'
<1> SUFFICES ASSUME NEW p \in Paths
             PROVE  Steady(kb'[p], dmn', plugs[p], down[p])
  BY SceneStays DEF KeysInv
<1>1. Steady(kb[p], dmn, plugs[p], down[p])
  BY DEF KeysInv
<1>2. InStep(kb[p], dmn')
  BY <1>1 DEF Steady, InStep, Disowns
<1>3. CASE kb'[p] = kb[p]
  BY <1>1, <1>2, <1>3 DEF Steady, Disowns
<1>4. CASE Eligible(p) /\ kb[p].state = "none" /\ \E b \in BOOLEAN :
             kb'[p] = [NoKeyboard EXCEPT !.state = "settling", !.gen = plugs[p],
                                         !.startup = b, !.read = down[p]]
  <2>1. /\ kb'[p].state = "settling" /\ kb'[p].gen = plugs[p] /\ kb'[p].read = down[p]
        /\ kb'[p].app = {} /\ kb'[p].buffer = <<>> /\ ~kb'[p].overrun /\ ~kb'[p].dead
    BY <1>4 DEF NoKeyboard
  <2>2. dmn.owned = {} /\ dmn'.owned = {}
    BY <1>1, <1>4 DEF Steady, Disowns
  <2>3. Leads(kb'[p].buffer, down[p], down[p])
    BY <2>1, NothingUnread
  <2>4. plugs[p] % 2 = 1
    BY <1>4 DEF Eligible, Plugged
  <2> QED BY <2>1, <2>2, <2>3, <2>4 DEF Steady, InStep
<1> QED BY <1>3, <1>4 DEF GrabKeyboard

\* No keyboard is left, and the engine owns nothing.
LEMMA ExitSteps ==
  ASSUME DaemonInv, KeysInv, [Next]_vars, NEW code, Exit(code)
  PROVE  KeysInv'
<1> SUFFICES ASSUME NEW p \in Paths
             PROVE  Steady(kb'[p], dmn', plugs'[p], down'[p])
  BY SceneStays DEF KeysInv
<1>1. kb'[p] = NoKeyboard /\ dmn'.owned = {}
  BY DEF Exit, DaemonInv, DaemonTypeOK, MainState
<1> QED BY <1>1 DEF Steady, InStep, NoKeyboard

LEMMA BootSteps ==
  ASSUME DaemonInv, KeysInv, [Next]_vars, Load \/ Scan \/ ServeHotplug
  PROVE  KeysInv'
<1>1. CASE \E code : Exit(code)
  BY <1>1, ExitSteps
<1>2. CASE Load /\ ~\E code : Exit(code)
  <2>1. UNCHANGED <<plugs, down, kb>> /\ dmn' = [dmn EXCEPT !.cfg = disk]
    BY <1>2 DEF Load, world
  <2>2. Disowns(dmn, dmn')
    BY <2>1 DEF Disowns, DaemonInv, DaemonTypeOK, MainState
  <2> QED BY <2>1, <2>2, RestKeeps, SceneStays DEF SameKeys
<1>3. CASE Scan /\ ~\E code : Exit(code)
  <2> DEFINE found == [p \in Paths |-> IF Eligible(p) THEN GrabKeyboard(p, TRUE) ELSE kb[p]]
  <2>1. UNCHANGED <<plugs, down>> /\ kb' = found
    BY <1>3 DEF Scan, world
  <2>2. Disowns(dmn, dmn')
    BY <1>3 DEF Scan, Disowns, DaemonInv, DaemonTypeOK, MainState
  <2>3. DaemonInv'
    BY StepKeeps
  <2>4. kb' \in [Paths -> Keyboard]
    BY <2>3 DEF DaemonInv, DaemonTypeOK
  <2> QED BY <2>1, <2>2, <2>4, GrabSteps
<1>4. CASE ServeHotplug
  <2>1. /\ UNCHANGED <<plugs, down, dmn>>
        /\ kb' = [p \in Paths |-> IF p \in nodeEvents /\ Eligible(p)
                                  THEN GrabKeyboard(p, FALSE) ELSE kb[p]]
    BY <1>4 DEF ServeHotplug
  <2>3. DaemonInv'
    BY StepKeeps
  <2>4. kb' \in [Paths -> Keyboard]
    BY <2>3 DEF DaemonInv, DaemonTypeOK
  <2> QED BY <2>1, <2>4, GrabSteps DEF Disowns
<1> QED BY <1>1, <1>2, <1>3, <1>4

\* A failed grab has handled no event.
LEMMA SettleSteps ==
  ASSUME DaemonInv, KeysInv, [Next]_vars, NEW p \in Paths, SettleTimer(p)
  PROVE  KeysInv'
<1> DEFINE t == [kb[p] EXCEPT !.state = "grabbed"]
<1>1. /\ UNCHANGED <<plugs, down>> /\ kb[p].state = "settling"
      /\ kb' = [kb EXCEPT ![p] = t] \/ kb' = [kb EXCEPT ![p] = NoKeyboard]
  BY DEF SettleTimer, world, DaemonInv, LoopConsistent
<1>2. Disowns(dmn, dmn')
  <2>1. \A b \in BOOLEAN : Disowns(dmn, FinishStartupGrab(dmn, b))
    BY DEF FinishStartupGrab, Disowns, DaemonInv, DaemonTypeOK, MainState
  <2>2. (~Gone(p) /\ Fate(p) = "free") \in BOOLEAN
    BY DEF Gone
  <2> QED BY <2>1, <2>2 DEF SettleTimer, Disowns
<1>3. \A q \in Paths : Steady(kb[q], dmn, plugs[q], down[q])
  BY DEF KeysInv
<1>4. dmn.owned = {} /\ dmn'.owned = {} /\ kb[p].app = {}
  BY <1>1, <1>2, <1>3 DEF Steady, Disowns
<1>5. \A q \in Paths \ {p} : kb'[q] = kb[q]
  BY <1>1, TypesOf
<1>6. \A q \in Paths \ {p} : Steady(kb'[q], dmn', plugs'[q], down'[q])
  <2> SUFFICES ASSUME NEW q \in Paths \ {p}
               PROVE  Steady(kb'[q], dmn', plugs'[q], down'[q])
    OBVIOUS
  <2>1. InStep(kb[q], dmn')
    BY <1>2, <1>3 DEF Steady, InStep, Disowns
  <2> QED BY <1>1, <1>3, <1>4, <1>5, <2>1 DEF Steady
<1>7. Steady(kb'[p], dmn', plugs'[p], down'[p])
  <2>1. CASE kb' = [kb EXCEPT ![p] = NoKeyboard]
    <3>1. kb'[p] = NoKeyboard
      BY <2>1, TypesOf
    <3> QED BY <1>4, <3>1 DEF Steady, InStep, NoKeyboard
  <2>2. CASE kb' = [kb EXCEPT ![p] = t]
    <3>1. kb'[p] = t
      BY <2>2, TypesOf
    <3>2. /\ t.state = "grabbed" /\ t.gen = kb[p].gen /\ t.buffer = kb[p].buffer
          /\ t.read = kb[p].read /\ t.app = kb[p].app /\ t.overrun = kb[p].overrun
          /\ t.dead = kb[p].dead
      BY TypesOf DEF Keyboard
    <3> HIDE DEF t
    <3> QED BY <1>1, <1>3, <1>4, <3>1, <3>2 DEF Steady, InStep
  <2> QED BY <1>1, <2>1, <2>2
<1> QED BY <1>6, <1>7, SceneStays DEF KeysInv

LEMMA ReadSteps ==
  ASSUME DaemonInv, KeysInv, [Next]_vars, \E p \in Paths : Paths = {p}, ReadEvent
  PROVE  KeysInv'
<1> DEFINE p == serving
           e == Head(kb[p].buffer)
           t(b) == [kb[p] EXCEPT !.buffer = Tail(@), !.read = ReadKey(@, e),
                                 !.app = IF b THEN @ ELSE ReadKey(@, e)]
<1>1. p \in Paths /\ kb[p].buffer # <<>> /\ UNCHANGED <<plugs, down>>
  BY DEF ReadEvent, world
<1>2. Paths = {p}
  BY <1>1
<1>3. Steady(kb[p], dmn, plugs[p], down[p])
  BY <1>1 DEF KeysInv
<1>4. kb[p].state = "grabbed"
  BY <1>1 DEF DaemonInv, LoopConsistent
<1>5. e \in KeyEvent
  BY <1>1, TypesOf
<1>6. PICK r \in Handler(dmn, e) : dmn' = r.d /\ kb' = [kb EXCEPT ![p] = t(r.consumed)]
  BY ZenonT(60), <1>1, TypesOf DEF ReadEvent, Keyboard
<1>7. /\ Leads(Tail(kb[p].buffer), ReadKey(kb[p].read, e), down[p])
      /\ e.value = "press" => e.key \notin kb[p].read
  <2>1. Leads(kb[p].buffer, kb[p].read, down[p])
    BY <1>3, <1>4 DEF Steady
  <2> QED BY <1>1, <2>1, TypesOf, Taken
<1> HIDE DEF e
<1>8. LET x == t(r.consumed)
      IN  /\ x.state = kb[p].state /\ x.gen = kb[p].gen /\ x.buffer = Tail(kb[p].buffer)
          /\ x.read = ReadKey(kb[p].read, e) /\ x.overrun = kb[p].overrun
          /\ x.dead = kb[p].dead
          /\ x.app = IF r.consumed THEN kb[p].app ELSE ReadKey(kb[p].app, e)
  BY <1>1, TypesOf DEF Keyboard
<1>9. kb'[p] = t(r.consumed)
  BY <1>1, <1>6, TypesOf
<1> HIDE DEF t
<1>10. InStep(kb'[p], dmn')
  <2>1. InStep(kb[p], dmn)
    BY <1>3 DEF Steady
  <2> QED BY <1>1, <1>5, <1>6, <1>7, <1>8, <1>9, <2>1, TypesOf, QuietNow, HandlerInStep
<1>11. Steady(kb'[p], dmn', plugs'[p], down'[p])
  BY <1>1, <1>3, <1>4, <1>7, <1>8, <1>9, <1>10 DEF Steady
<1> QED BY <1>2, <1>11, SceneStays DEF KeysInv

LEMMA EndSteps ==
  ASSUME DaemonInv, KeysInv, [Next]_vars, EndPass \/ EndDispatch \/ Resync
  PROVE  KeysInv'
<1>1. CASE \E code : Exit(code)
  BY <1>1, ExitSteps
<1>2. CASE EndPass /\ ~\E code : Exit(code)
  <2>1. /\ UNCHANGED <<plugs, down, dmn>>
        /\ kb' = [p \in Paths |-> IF kb[p].dead THEN NoKeyboard ELSE kb[p]]
    BY <1>2 DEF EndPass, world
  <2>2. \A p \in Paths : kb'[p] = kb[p]
    BY <2>1 DEF KeysInv, Steady
  <2> QED BY <2>1, <2>2, RestKeeps, SceneStays DEF SameKeys, Disowns
<1>3. CASE EndDispatch
  <2> DEFINE p == serving
             t == [kb[p] EXCEPT !.dead = Gone(p)]
  <2>1. p \in Paths /\ UNCHANGED <<plugs, down, dmn>> /\ kb' = [kb EXCEPT ![p] = t]
    BY <1>3 DEF EndDispatch, DaemonInv, DaemonTypeOK, world
  <2>2. kb[p].state = "grabbed"
    BY <2>1 DEF DaemonInv, LoopConsistent
  <2>3. ~Gone(p) /\ ~kb[p].dead
    BY <2>1, <2>2 DEF KeysInv, Steady, Gone
  <2>4. t = kb[p]
    BY <2>1, <2>3, TypesOf DEF Keyboard, Gone
  <2>5. \A q \in Paths : kb'[q] = kb[q]
    BY <2>1, <2>4, TypesOf
  <2> QED BY <2>1, <2>5, RestKeeps, SceneStays DEF SameKeys, Disowns
<1>4. CASE Resync
  BY <1>4 DEF Resync, KeysInv, Steady
<1> QED BY <1>1, <1>2, <1>3, <1>4

LEMMA KeysInvariant ==
  ASSUME OneSteadyKeyboard
  PROVE  Spec => []KeysInv
<1>1. Init => KeysInv
  <2> SUFFICES ASSUME Init PROVE KeysInv
    OBVIOUS
  <2>1. scene.drops = 0 /\ scene.unplugs = 0
    BY DEF Init, OneSteadyKeyboard
  <2>2. \A p \in Paths : kb[p] = NoKeyboard /\ dmn.owned = {}
    BY DEF Init
  <2> QED BY <2>1, <2>2 DEF KeysInv, Steady, InStep, NoKeyboard
<1>2. DaemonInv /\ KeysInv /\ [Next]_vars => KeysInv'
  <2> SUFFICES ASSUME DaemonInv, KeysInv, [Next]_vars PROVE KeysInv'
    OBVIOUS
  <2>1. \E p \in Paths : Paths = {p}
    BY DEF OneSteadyKeyboard
  <2>2. CASE Outside \/ \E p \in Paths : GrantAccess(p)
    BY <2>2, KeysSteps, DeviceSteps, QuietSteps DEF Outside
  <2>3. CASE Time \/ UNCHANGED vars
    BY <2>3, QuietSteps
  <2>4. CASE Loop
    BY <2>1, <2>4, QuietSteps, BootSteps, SettleSteps, ReadSteps, EndSteps DEF Loop
  <2> QED BY <2>2, <2>3, <2>4 DEF Next
<1> QED BY <1>1, <1>2, DaemonInvariant, PTL DEF Spec

\* On one keyboard that loses nothing no key stays pressed on the clone, through every
\* pause, resume, reload and loss of the compositor and whatever the engine answers,
\* until the daemon is told to stop (main.cpp 417-452, evdev_key_source.cpp 109-147).
THEOREM NoKeyStaysBehind ==
  ASSUME OneSteadyKeyboard
  PROVE  Spec => []NoKeyLeftBehind
<1>1. KeysInv => NoKeyLeftBehind
  BY DEF KeysInv, Steady, InStep, NoKeyLeftBehind
<1> QED BY <1>1, KeysInvariant, PTL
=============================================================================
