------------------------------- MODULE Engine -------------------------------
(***************************************************************************)
(* The gesture engine (src/src/engine/engine.cpp, gesture_state.h): a      *)
(* mapped key's press is withheld until a leader, a release, another key   *)
(* or the clock decides whether its plain character or one of its variants *)
(* is committed.                                                           *)
(*                                                                         *)
(* Beside the engine the module keeps what surrounds it: the keys that are *)
(* physically down on each grabbed keyboard, the kernel's auto-repeat (one *)
(* key per keyboard, the last one pressed, stopped by any release), and    *)
(* the keys the applications hold down on each keyboard's uinput clone.    *)
(*                                                                         *)
(* The members of GestureState and the engine's own members that a handler *)
(* changes are the fields of one record, eng, so that a handler that calls *)
(* helpers one after the other is a composition of operators on it.  Three *)
(* of its fields are the outputs of the last step and read by properties   *)
(* only: out (the texts given to TextSink::commit, each with the key whose *)
(* press it answers), decision (what became of the key event, "Focus" for  *)
(* a focus change) and used (the input whose variant recordUsage counted). *)
(*                                                                         *)
(* Time: the window, auto-select and overlay-show timers are all armed by  *)
(* startGesture, so their deadlines are ticks since startUsec; elapsed is  *)
(* that age.  The two flash timers and the usage timer fire at any time.   *)
(***************************************************************************)
EXTENDS AccentWindow, LeaderClassify, ProfileCycle, FiniteSets

CONSTANTS
  Keyboards,      \* grabbed keyboards
  KeyText,        \* the text a key resolves to, "" for none
  Inputs,         \* the texts a mapping may have as its input
  Variants,       \* the texts a mapping may have as its outputs
  ProfileList,    \* profiles.conf: a sequence of [name, favorite]
  ProfileMap,     \* the mapping each profile name composes to
  Shortcuts,      \* what Ctrl and a key mean: "", "next", "prev" or a profile
  Configs,        \* the settings the engine may start with
  Reloads,        \* what a config reload may bring: [config, active, map]
  Unreliable,     \* keyboards that may disappear or drop events with keys down
  MaxDown,        \* bound: keys held at once on one keyboard
  MaxElapsed      \* bound: ticks counted for one gesture

NoText  == ""
NoTimer == 0
ProfileNames == {ProfileList[i].name : i \in DOMAIN ProfileList}

DelayConfig == [lowercase: Nat \ {0}, uppercase: Nat \ {0}, lowercaseMin: Nat,
                uppercaseMin: Nat, unlimited: BOOLEAN]
LeaderConfig == [alt: BOOLEAN, altGr: BOOLEAN, builtIn: SUBSET Keys,
                 custom1: Keys \cup {NoKey}, custom2: Keys \cup {NoKey},
                 reverse: SUBSET Keys]
EngineConfig == [delay: DelayConfig, leader: LeaderConfig, whitelist: BOOLEAN,
                 overlayEnabled: BOOLEAN, showOnTrigger: BOOLEAN,
                 progressBar: BOOLEAN, sortByFrequency: BOOLEAN,
                 autoSelect: BOOLEAN, autoSelectMs: Nat \ {0},
                 leaderAutoRepeat: BOOLEAN]
\* A mapping takes each mapped input to its variants, in cycling order.
IsUmlautMap(m) ==
  /\ DOMAIN m \subseteq Inputs
  /\ m = [i \in DOMAIN m |-> m[i]]
  /\ \A i \in DOMAIN m : m[i] \in Seq(Variants)

ASSUME EngineAssumption ==
  /\ KeyText \in [Keys -> STRING]
  /\ Inputs \cup {NoText} \subseteq STRING /\ Variants \subseteq STRING
  /\ \A k \in Keys : IsModifierSym(k) => KeyText[k] = NoText
  /\ NoText \notin Inputs
  /\ Shortcuts \in [Keys -> {"", "next", "prev"} \cup ProfileNames]
  /\ \A k \in Keys : IsModifierSym(k) => Shortcuts[k] = ""
  /\ DOMAIN ProfileMap = ProfileNames
  /\ \A p \in ProfileNames : IsUmlautMap(ProfileMap[p])
  /\ ProfileList \in Seq([name: STRING, favorite: BOOLEAN])
  /\ ProfileList # <<>> /\ "" \notin ProfileNames
  /\ Configs \subseteq EngineConfig
  /\ \A r \in Reloads : /\ r.config \in EngineConfig
                        /\ r.active \in ProfileNames
                        /\ IsUmlautMap(r.map)
  /\ Unreliable \subseteq Keyboards
  /\ MaxDown \in Nat /\ MaxElapsed \in Nat

VARIABLES
  eng,        \* the engine: GestureState, overlay and usage members, outputs
  config,     \* config_
  umlautMap,  \* umlautMap_ (storedMap_ has the same variants, in file order)
  active,     \* profiles_.active
  down,       \* keys physically down, per keyboard
  rep,        \* the key the kernel auto-repeats, per keyboard
  app,        \* keys down on the clone, as the applications see them
  lost        \* modifiers whose release the resolver never saw

vars == <<eng, config, umlautMap, active, down, rep, app, lost>>

-----------------------------------------------------------------------------
(* State *)

\* The overlay-show timer with the input and the variants its callback captured.
NoShow == [due |-> NoTimer, input |-> NoText, variants |-> <<>>]

\* The panel keeps the texts it was given, whatever the mapping becomes.
Hidden == [kind |-> "hidden", variants |-> <<>>, index |-> -1]
Profile == [Hidden EXCEPT !.kind = "profile"]
Panel(variants, index) == [kind |-> "variants", variants |-> variants, index |-> index]

\* applyUsageTracking: usageTimer is 0 when unarmed, else which of the two
\* nested callbacks is armed.
ApplyUsageTracking(s, c) ==
  IF c.sortByFrequency
  THEN [s EXCEPT !.usageTimer = IF @ = 0 THEN 1 ELSE @]
  ELSE [s EXCEPT !.usageDirty = FALSE, !.usageTimer = 0]

Fresh(s) == [s EXCEPT !.out = <<>>, !.decision = "None", !.used = NoText]

IdleState ==
  [waitingKey |-> NoText, waitingKeyCode |-> NoKey, inputKeyPressed |-> FALSE,
   elapsed |-> 0, cyclingInput |-> NoText, cyclingIndex |-> 0,
   committedCode |-> NoKey, committedSuppressRepeats |-> FALSE,
   consumedAltCode |-> NoKey, windowTimer |-> NoTimer,
   autoSelectTimer |-> NoTimer, overlayShowTimer |-> NoShow,
   overlayHideTimer |-> FALSE, profileFlashTimer |-> FALSE, overlayVisible |-> FALSE, panel |-> Hidden,
   usageDirty |-> FALSE, usageTimer |-> 0,
   out |-> <<>>, decision |-> "None", used |-> NoText]

\* Frequency sorting, at run time from the stored order: which order results
\* depends on all counts, so any may.
Reorderings(variants) ==
  {r \in [DOMAIN variants -> Variants] :
     {r[i] : i \in DOMAIN r} = {variants[i] : i \in DOMAIN variants}}

\* The runtime maps a stored map may become (the daemon's buildRuntimeMaps).
BuildRuntimeMaps(m, c) ==
  {n \in [DOMAIN m -> UNION {Reorderings(m[i]) : i \in DOMAIN m}] :
     \A i \in DOMAIN m : n[i] \in IF c.sortByFrequency THEN Reorderings(m[i]) ELSE {m[i]}}

Init ==
  /\ config \in Configs
  /\ active = ProfileList[1].name
  /\ umlautMap \in BuildRuntimeMaps(ProfileMap[active], config)
  /\ eng = ApplyUsageTracking(IdleState, config)
  /\ down = [kb \in Keyboards |-> {}]
  /\ rep = [kb \in Keyboards |-> NoKey]
  /\ app = [kb \in Keyboards |-> {}]
  /\ lost = {}

Waiting(s) == s.waitingKey # NoText
Cycling(s) == s.cyclingInput # NoText
GestureActive(s) == Waiting(s) \/ Cycling(s)

\* nullptr (no mapping, or one without variants) is the empty sequence.
VariantsFor(input) == IF input \in DOMAIN umlautMap THEN umlautMap[input] ELSE <<>>
WindowFor(s) == EffectiveWindow(config.delay, s.waitingKey)
Expired(s) == IsWindowExpired(WindowFor(s), s.elapsed)

\* isFilteredApp: the daemon never learns an app id, so currentApp_ is always
\* empty, which only whitelist mode filters.
Filtered == config.whitelist

ResetWaiting(s) == [s EXCEPT !.waitingKey = NoText, !.waitingKeyCode = NoKey,
                             !.inputKeyPressed = FALSE]
ResetCycling(s) == [s EXCEPT !.cyclingInput = NoText, !.cyclingIndex = 0]
ArmCommitted(s, k, suppress) ==
  [s EXCEPT !.committedCode = k, !.committedSuppressRepeats = suppress]
ClearCommitted(s) == ArmCommitted(s, NoKey, FALSE)
CancelGestureTimers(s) ==
  [s EXCEPT !.windowTimer = NoTimer, !.autoSelectTimer = NoTimer,
            !.overlayShowTimer = NoShow, !.overlayHideTimer = FALSE]

-----------------------------------------------------------------------------
(* Overlay *)

OverlayShowVariants(s, variants, index) ==
  IF ~config.overlayEnabled THEN s
  ELSE [s EXCEPT !.profileFlashTimer = FALSE, !.overlayVisible = TRUE,
                 !.panel = Panel(variants, index)]

OverlayHideAll(s) ==
  IF ~config.overlayEnabled \/ ~s.overlayVisible THEN s
  ELSE [s EXCEPT !.panel = Hidden, !.overlayVisible = FALSE]

HideTriggerOverlay(s) ==
  LET t == [s EXCEPT !.overlayShowTimer = NoShow]
  IN  IF config.showOnTrigger \/ config.progressBar THEN OverlayHideAll(t) ELSE t

FlashCommitOverlay(s, variants) ==
  [OverlayShowVariants([s EXCEPT !.overlayShowTimer = NoShow], variants, 0)
     EXCEPT !.overlayHideTimer = TRUE]

\* startProgressOverlay and scheduleTriggerOverlay: both first drop a pending
\* flash hide; the progress bar shows the panel at once, the trigger overlay
\* after the minimum hold, both with the variants there are now.
ShowGestureOverlay(s, input, variants) ==
  LET enabled == /\ config.overlayEnabled
                 /\ config.progressBar \/ config.showOnTrigger
                 /\ variants # <<>>
      t       == [s EXCEPT !.overlayHideTimer = FALSE]
      min     == EffectiveWindow(config.delay, input).min
  IN  IF ~enabled THEN s
      ELSE IF config.progressBar \/ min = 0 THEN OverlayShowVariants(t, variants, -1)
      ELSE [t EXCEPT !.overlayShowTimer =
              [due |-> min, input |-> input, variants |-> variants]]

-----------------------------------------------------------------------------
(* Commits *)

\* sink_.commit, noting the key whose press the text answers.
CommitText(s, code, text) ==
  [s EXCEPT !.out = Append(@, [code |-> code, text |-> text])]

\* recordUsage: the count itself only matters for the order of the variants,
\* which Resort picks.
CommitVariant(s, input, variant) ==
  [CommitText(s, s.waitingKeyCode, variant)
     EXCEPT !.used = IF config.sortByFrequency THEN input ELSE NoText,
            !.usageDirty = @ \/ config.sortByFrequency]

\* Mutant: the window timer outlives the commit.
CommitPendingKeyMutant(s) ==
  IF ~Waiting(s) THEN s
  ELSE [ResetWaiting(CommitText(HideTriggerOverlay(s), s.waitingKeyCode, s.waitingKey))
          EXCEPT !.autoSelectTimer = NoTimer]

CommitPendingKey(s) ==
  IF ~Waiting(s) THEN s
  ELSE [ResetWaiting(CommitText(HideTriggerOverlay(s), s.waitingKeyCode, s.waitingKey))
          EXCEPT !.windowTimer = NoTimer, !.autoSelectTimer = NoTimer]

\* Mutants: the cycle is reset before its value is read; the overlay stays.
CommitCyclingValueMutant(s) ==
  LET variants == VariantsFor(s.cyclingInput)
  IN  IF ~Cycling(s) THEN s
      ELSE OverlayHideAll(ResetCycling(ResetWaiting(
             IF variants = <<>> THEN s
             ELSE CommitVariant(s, s.cyclingInput, variants[1]))))
CommitCyclingValueOverlayMutant(s) ==
  LET variants == VariantsFor(s.cyclingInput)
      t == IF s.cyclingIndex < Len(variants)
           THEN CommitVariant(s, s.cyclingInput, variants[s.cyclingIndex + 1])
           ELSE s
  IN  IF ~Cycling(s) THEN s ELSE ResetCycling(ResetWaiting(t))

CommitCyclingValue(s) ==
  LET variants == VariantsFor(s.cyclingInput)
      t == IF s.cyclingIndex < Len(variants)
           THEN CommitVariant(s, s.cyclingInput, variants[s.cyclingIndex + 1])
           ELSE s
  IN  IF ~Cycling(s) THEN s
      ELSE OverlayHideAll(ResetCycling(ResetWaiting(t)))

CommitGesture(s) == CommitCyclingValue(CommitPendingKey(s))

\* The window elapsed while the key is down: its plain character is committed
\* and its release, an orphan to the application, is armed to be consumed.
CommitExpired(s) ==
  IF s.inputKeyPressed
  THEN ArmCommitted(CommitPendingKey(s), s.waitingKeyCode, FALSE)
  ELSE CommitPendingKey(s)

-----------------------------------------------------------------------------
(* Gesture *)

Consume(s) == [s EXCEPT !.decision = "Consume"]
Forward(s) == [s EXCEPT !.decision = "Forward"]

\* variants: those of the key's input, after the commits before it.
StartGesture(s, k, variants) ==
  LET input == KeyText[k]
      w     == EffectiveWindow(config.delay, input)
      t     == [s EXCEPT !.waitingKey = input, !.waitingKeyCode = k,
                         !.inputKeyPressed = TRUE, !.elapsed = 0,
                         !.windowTimer = IF w.unlimited THEN NoTimer ELSE w.max,
                         !.autoSelectTimer =
                           IF config.autoSelect THEN config.autoSelectMs ELSE NoTimer]
  IN  Consume(ShowGestureOverlay(t, input, variants))

\* Mutant: the waiting phase is left open.
EnterCyclingMutant(s, input, index) ==
  IF VariantsFor(input) = <<>> THEN s
  ELSE OverlayShowVariants([s EXCEPT !.cyclingInput = input, !.cyclingIndex = index],
                           VariantsFor(input), index)

EnterCycling(s, input, index) ==
  IF VariantsFor(input) = <<>> THEN s
  ELSE OverlayShowVariants([s EXCEPT !.cyclingInput = input, !.cyclingIndex = index,
                                     !.waitingKey = NoText],
                           VariantsFor(input), index)

\* A leader press on an open gesture is swallowed; Alt's release will be too.
ConsumeLeader(s, k) ==
  Consume([s EXCEPT !.consumedAltCode = IF IsAltLeaderSym(k) THEN k ELSE @])

\* Mutants: the remainder of a negative index (C++'s -1 % n); a step that the
\* overlay is not told about.
StepCyclingMutant(s, k) ==
  LET n    == Len(VariantsFor(s.cyclingInput))
      next == s.cyclingIndex + LeaderStep(config.leader, k)
  IN  IF n = 1 THEN s ELSE [s EXCEPT !.cyclingIndex = IF next < 0 THEN next ELSE next % n]
StepCyclingOverlayMutant(s, k) ==
  LET n    == Len(VariantsFor(s.cyclingInput))
      next == (s.cyclingIndex + LeaderStep(config.leader, k)) % n
  IN  IF n = 1 THEN s ELSE [s EXCEPT !.cyclingIndex = next]

\* A further leader steps the selection.
StepCycling(s, k) ==
  LET variants == VariantsFor(s.cyclingInput)
      n        == Len(variants)
      next     == (s.cyclingIndex + LeaderStep(config.leader, k)) % n
  IN  IF n = 1 THEN s
      ELSE OverlayShowVariants([s EXCEPT !.cyclingIndex = next], variants, next)

\* The first leader inside the window opens the cycle, or commits the only
\* variant there is.
OpenGesture(s, k) ==
  LET input    == s.waitingKey
      variants == VariantsFor(input)
      start    == IF LeaderStep(config.leader, k) < 0 THEN Len(variants) - 1 ELSE 0
      flashed  == IF s.overlayVisible THEN FlashCommitOverlay(s, variants)
                  ELSE HideTriggerOverlay(s)
      t        == IF Len(variants) > 1 THEN EnterCycling(s, input, start)
                  ELSE ResetWaiting(ArmCommitted(
                         CommitVariant(flashed, input, variants[1]), s.waitingKeyCode, TRUE))
  IN  [t EXCEPT !.autoSelectTimer = NoTimer, !.windowTimer = NoTimer]

\* handleLeader.
HandleLeader(s0, k) ==
  LET s == [s0 EXCEPT !.overlayShowTimer = NoShow]
      tooEarly == /\ ~Cycling(s) /\ Waiting(s)
                  /\ IsBeforeMinHold(WindowFor(s), s.elapsed)
      steps    == Cycling(s) /\ VariantsFor(s.cyclingInput) # <<>>
      opens    == /\ Waiting(s) /\ ~Expired(s)
                  /\ VariantsFor(s.waitingKey) # <<>>
  IN  IF tooEarly THEN Forward(CommitPendingKey(ArmCommitted(s, s.waitingKeyCode, TRUE)))
      ELSE IF Cycling(s) /\ ~s.inputKeyPressed THEN Forward(OverlayHideAll(ResetCycling(s)))
      ELSE IF steps THEN ConsumeLeader(StepCycling(s, k), k)
      ELSE IF opens THEN ConsumeLeader(OpenGesture(s, k), k)
      ELSE Forward([s EXCEPT !.consumedAltCode = NoKey])

-----------------------------------------------------------------------------
(* Profiles *)

IsSwitch(name) == name # active /\ name \in ProfileNames

\* switchToProfileName: nothing for no, the same or an unknown profile; else
\* the gesture is committed against the old map and the name is flashed.
SwitchToProfile(s, name) ==
  LET t == ResetCycling(ResetWaiting(CancelGestureTimers(
             IF Cycling(s) THEN CommitCyclingValue(s) ELSE CommitPendingKey(s))))
  IN  IF ~IsSwitch(name) THEN s
      ELSE [t EXCEPT !.panel = Profile, !.overlayVisible = TRUE,
                     !.profileFlashTimer = TRUE]

ShortcutTarget(k) ==
  LET step(delta) == CycleTarget(CycleEntries(ProfileList), active, delta)
  IN  CASE Shortcuts[k] = "next" -> step(1)
        [] Shortcuts[k] = "prev" -> step(-1)
        [] OTHER -> Shortcuts[k]

-----------------------------------------------------------------------------
(* Key events.  The kernel's view changes first, then the engine decides,  *)
(* then a forwarded event reaches the keyboard's clone.                    *)

\* modifierMask: one xkb state serves all keyboards.
Mods == {ModOf[k] : k \in lost \cup UNION {down[kb] : kb \in Keyboards}} \ {""}

PhysicalPress(kb, k) ==
  /\ k \notin down[kb]
  /\ Cardinality(down[kb]) < MaxDown
  /\ down' = [down EXCEPT ![kb] = @ \cup {k}]
  /\ rep' = [rep EXCEPT ![kb] = k]

PhysicalRelease(kb, k) ==
  /\ k \in down[kb]
  /\ down' = [down EXCEPT ![kb] = @ \ {k}]
  /\ rep' = [rep EXCEPT ![kb] = NoKey]

\* A committed variant re-sorts its input's variants.
Resorted(s) ==
  IF s.used \notin DOMAIN umlautMap THEN {umlautMap}
  ELSE {[umlautMap EXCEPT ![s.used] = r] : r \in Reorderings(umlautMap[s.used])}
Resort(s) == umlautMap' \in Resorted(s)

DeliverPress(kb, k, s) ==
  /\ eng' = s
  /\ app' = IF s.decision = "Forward" THEN [app EXCEPT ![kb] = @ \cup {k}] ELSE app

DeliverRelease(kb, k, s) ==
  /\ eng' = s
  /\ app' = IF s.decision = "Forward" THEN [app EXCEPT ![kb] = @ \ {k}] ELSE app

(* onKeyEvent, press: the first alternative that applies. *)

PressFiltered(kb, k) ==
  /\ Filtered
  /\ DeliverPress(kb, k, Forward(Fresh(eng)))
  /\ UNCHANGED <<umlautMap, active>>

IsProfileShortcut(k) == Mods = {"Ctrl"} /\ Shortcuts[k] # ""

PressProfileShortcut(kb, k) ==
  /\ ~Filtered
  /\ IsProfileShortcut(k)
  /\ LET name == ShortcutTarget(k) IN
       /\ DeliverPress(kb, k, Consume(SwitchToProfile(Fresh(eng), name)))
       /\ IF IsSwitch(name)
          THEN /\ active' = name
               /\ umlautMap' \in BuildRuntimeMaps(ProfileMap[name], config)
          ELSE UNCHANGED <<active, umlautMap>>

AltAsLeader(k) ==
  /\ (config.leader.alt /\ IsAltSym(k)) \/ (config.leader.altGr /\ IsAltGrSym(k))
  /\ GestureActive(eng)

\* A modifier is no input and no leader; Alt and AltGr are while a gesture is open.
PressModifier(kb, k) ==
  /\ ~Filtered
  /\ IsModifierSym(k) /\ ~AltAsLeader(k)
  /\ DeliverPress(kb, k, Forward(Fresh(eng)))
  /\ UNCHANGED <<umlautMap, active>>

\* What is left reaches the gesture logic, after a window the timer was too
\* late for is settled.
Settled == IF Waiting(eng) /\ Expired(eng) THEN CommitExpired(Fresh(eng)) ELSE Fresh(eng)

IsGestureKey(k) ==
  /\ ~Filtered
  /\ ~IsProfileShortcut(k)
  /\ IsModifierSym(k) => AltAsLeader(k)

WithShortcutModifier(k) ==
  ~AltAsLeader(k) /\ Mods \cap {"Ctrl", "Alt", "Super"} # {}

\* Alt alone, held as the leader of this gesture or the last one.
AltBypass(k) ==
  /\ WithShortcutModifier(k)
  /\ config.leader.alt \/ config.leader.altGr
  /\ Mods \cap {"Ctrl", "Alt", "Super"} = {"Alt"}
  /\ GestureActive(Settled) \/ Settled.consumedAltCode # NoKey

PressShortcut(kb, k) ==
  /\ IsGestureKey(k)
  /\ WithShortcutModifier(k) /\ ~AltBypass(k)
  /\ LET s == [CommitGesture(Settled) EXCEPT !.inputKeyPressed = FALSE] IN
       DeliverPress(kb, k, Forward(s)) /\ Resort(s)
  /\ UNCHANGED active

ReachesPress(k) ==
  IsGestureKey(k) /\ (WithShortcutModifier(k) => AltBypass(k))

IsLeaderFor(s, k) ==
  LET type == ClassifyLeader(config.leader, k)
  IN  /\ type # "None"
      /\ GestureActive(s) => IsDualCustomAllowed(config.leader, type, s.waitingKeyCode)

PressLeader(kb, k) ==
  /\ ReachesPress(k)
  /\ IsLeaderFor(Settled, k)
  /\ LET s == HandleLeader(Settled, k) IN DeliverPress(kb, k, s) /\ Resort(s)
  /\ UNCHANGED active

\* Rollover: a mapped key ends the open gesture and starts its own, with the
\* order the commit leaves behind.
PressMapped(kb, k) ==
  /\ ReachesPress(k)
  /\ ~IsLeaderFor(Settled, k)
  /\ KeyText[k] \in DOMAIN umlautMap
  /\ LET s == CommitGesture(Settled) IN
       /\ Resort(s)
       /\ DeliverPress(kb, k, StartGesture(s, k, umlautMap'[KeyText[k]]))
  /\ UNCHANGED active

\* Mutant: a plain key does not end the gesture.
PressOtherMutant(kb, k) ==
  /\ ReachesPress(k)
  /\ ~IsLeaderFor(Settled, k)
  /\ KeyText[k] \notin DOMAIN umlautMap
  /\ DeliverPress(kb, k, Forward([Settled EXCEPT !.consumedAltCode = NoKey]))
  /\ UNCHANGED <<active, umlautMap>>

\* Any other key ends the gesture and passes through; with Alt still held as a
\* leader its character is committed instead.
PressOther(kb, k) ==
  /\ ReachesPress(k)
  /\ ~IsLeaderFor(Settled, k)
  /\ KeyText[k] \notin DOMAIN umlautMap
  /\ LET s == [CommitGesture(Settled) EXCEPT !.consumedAltCode = NoKey]
         t == IF AltBypass(k) /\ KeyText[k] # NoText
              THEN Consume(CommitText(s, k, KeyText[k])) ELSE Forward(s)
     IN  DeliverPress(kb, k, t) /\ Resort(s)
  /\ UNCHANGED active

Press(kb, k) ==
  /\ PhysicalPress(kb, k)
  /\ \/ PressFiltered(kb, k)
     \/ PressProfileShortcut(kb, k)
     \/ PressModifier(kb, k)
     \/ PressShortcut(kb, k)
     \/ PressLeader(kb, k)
     \/ PressMapped(kb, k)
     \/ PressOther(kb, k)
  /\ UNCHANGED <<config, lost>>

(* handleRepeat.  A forwarded repeat changes nothing on the clone. *)

RepeatOwnKey(k) ==
  /\ GestureActive(eng) /\ k = eng.waitingKeyCode
  /\ eng' = Consume(Fresh(eng)) /\ UNCHANGED umlautMap

LeaderRepeats(k) ==
  /\ config.leaderAutoRepeat /\ Cycling(eng)
  /\ ~(GestureActive(eng) /\ k = eng.waitingKeyCode)
  /\ IsLeaderFor(eng, k)

RepeatLeader(k) ==
  /\ LeaderRepeats(k)
  /\ LET s == HandleLeader(Fresh(eng), k) IN eng' = s /\ Resort(s)

\* Mutant: the restarted gesture keeps its key armed as committed.
RepeatCommittedMutant(k) ==
  /\ ~(GestureActive(eng) /\ k = eng.waitingKeyCode) /\ ~LeaderRepeats(k)
  /\ k = eng.committedCode
  /\ eng' = IF eng.committedSuppressRepeats THEN Consume(Fresh(eng))
            ELSE IF KeyText[k] \in DOMAIN umlautMap
                 THEN StartGesture(Fresh(eng), k, umlautMap[KeyText[k]])
            ELSE Forward(Fresh(eng))
  /\ UNCHANGED umlautMap

\* The repeats of a committed key are swallowed, or start over.
RepeatCommitted(k) ==
  /\ ~(GestureActive(eng) /\ k = eng.waitingKeyCode) /\ ~LeaderRepeats(k)
  /\ k = eng.committedCode
  /\ eng' = IF eng.committedSuppressRepeats THEN Consume(Fresh(eng))
            ELSE LET s == ClearCommitted(Fresh(eng)) IN
                   IF KeyText[k] \in DOMAIN umlautMap
                   THEN StartGesture(s, k, umlautMap[KeyText[k]]) ELSE Forward(s)
  /\ UNCHANGED umlautMap

RepeatOther(k) ==
  /\ ~(GestureActive(eng) /\ k = eng.waitingKeyCode) /\ ~LeaderRepeats(k)
  /\ k # eng.committedCode
  /\ eng' = IF GestureActive(eng) THEN Consume(Fresh(eng)) ELSE Forward(Fresh(eng))
  /\ UNCHANGED umlautMap

Repeat(kb) ==
  /\ rep[kb] # NoKey
  /\ \/ Filtered /\ eng' = Forward(Fresh(eng)) /\ UNCHANGED umlautMap
     \/ ~Filtered /\ \/ RepeatOwnKey(rep[kb])
                     \/ RepeatLeader(rep[kb])
                     \/ RepeatCommitted(rep[kb])
                     \/ RepeatOther(rep[kb])
  /\ UNCHANGED <<config, active, down, rep, app, lost>>

(* handleRelease: the first of the owners of this release. *)

ReleaseAlt(k) == k = eng.consumedAltCode
ReleaseCommitted(k) == ~ReleaseAlt(k) /\ k = eng.committedCode
ReleaseGesture(k) ==
  /\ ~ReleaseAlt(k) /\ ~ReleaseCommitted(k)
  /\ GestureActive(eng) /\ eng.inputKeyPressed /\ k = eng.waitingKeyCode

\* Mutants: the consumed releases do not clear what they were armed for; the
\* release of a press that was answered answers it again.
HandleReleaseMutant(k) ==
  LET s == Fresh(eng) IN
  CASE Filtered -> Forward(s)
    [] ~Filtered /\ (ReleaseAlt(k) \/ ReleaseCommitted(k)) -> Consume(s)
    [] ~Filtered /\ ReleaseGesture(k) ->
         Consume(IF Cycling(s) THEN CommitCyclingValue(s) ELSE CommitPendingKey(s))
    [] OTHER -> Forward(s)

HandleReleaseTwiceMutant(k) ==
  LET s == Fresh(eng) IN
  CASE Filtered -> Forward(s)
    [] ~Filtered /\ ReleaseAlt(k) -> Consume([s EXCEPT !.consumedAltCode = NoKey])
    [] ~Filtered /\ ReleaseCommitted(k) ->
         Consume(CommitText(ClearCommitted(s), k, KeyText[k]))
    [] ~Filtered /\ ReleaseGesture(k) ->
         Consume(IF Cycling(s) THEN CommitCyclingValue(s) ELSE CommitPendingKey(s))
    [] OTHER -> Forward(s)

HandleRelease(k) ==
  LET s == Fresh(eng) IN
  CASE Filtered -> Forward(s)
    [] ~Filtered /\ ReleaseAlt(k) -> Consume([s EXCEPT !.consumedAltCode = NoKey])
    [] ~Filtered /\ ReleaseCommitted(k) -> Consume(ClearCommitted(s))
    [] ~Filtered /\ ReleaseGesture(k) ->
         Consume(IF Cycling(s) THEN CommitCyclingValue(s) ELSE CommitPendingKey(s))
    [] OTHER -> Forward(s)

Release(kb, k) ==
  /\ PhysicalRelease(kb, k)
  /\ DeliverRelease(kb, k, HandleRelease(k))
  /\ Resort(HandleRelease(k))
  /\ UNCHANGED <<config, active, lost>>

-----------------------------------------------------------------------------
(* Timers.  Due and fired are two things: a key may be handled in between. *)

Tick ==
  /\ Waiting(eng) \/ eng.overlayShowTimer # NoShow
  /\ eng.elapsed < MaxElapsed
  /\ eng' = [Fresh(eng) EXCEPT !.elapsed = @ + 1]
  /\ UNCHANGED <<config, umlautMap, active, down, rep, app, lost>>

\* Mutant: a timer that fires exactly on time finds the window not expired.
WindowTimeoutMutant ==
  /\ eng.windowTimer # NoTimer /\ eng.elapsed >= eng.windowTimer
  /\ LET s == [Fresh(eng) EXCEPT !.windowTimer = NoTimer] IN
       eng' = IF Waiting(s) /\ Expired(s) THEN CommitExpired(s) ELSE s
  /\ UNCHANGED <<config, umlautMap, active, down, rep, app, lost>>

WindowTimeout ==
  /\ eng.windowTimer # NoTimer /\ eng.elapsed >= eng.windowTimer
  /\ LET s == [Fresh(eng) EXCEPT !.windowTimer = NoTimer] IN
       eng' = IF Waiting(s) THEN CommitExpired(s) ELSE s
  /\ UNCHANGED <<config, umlautMap, active, down, rep, app, lost>>

AutoSelect ==
  /\ eng.autoSelectTimer # NoTimer /\ eng.elapsed >= eng.autoSelectTimer
  /\ LET s == [Fresh(eng) EXCEPT !.autoSelectTimer = NoTimer] IN
       eng' = IF Waiting(s) /\ ~Cycling(s) /\ s.inputKeyPressed
              THEN EnterCycling([s EXCEPT !.windowTimer = NoTimer], s.waitingKey, 0)
              ELSE s
  /\ UNCHANGED <<config, umlautMap, active, down, rep, app, lost>>

OverlayShow ==
  /\ eng.overlayShowTimer # NoShow /\ eng.elapsed >= eng.overlayShowTimer.due
  /\ LET s     == [Fresh(eng) EXCEPT !.overlayShowTimer = NoShow]
         timer == eng.overlayShowTimer
     IN  eng' = IF s.waitingKey = timer.input /\ ~Cycling(s)
                THEN OverlayShowVariants(s, timer.variants, -1) ELSE s
  /\ UNCHANGED <<config, umlautMap, active, down, rep, app, lost>>

OverlayHide ==
  /\ eng.overlayHideTimer
  /\ eng' = OverlayHideAll([Fresh(eng) EXCEPT !.overlayHideTimer = FALSE])
  /\ UNCHANGED <<config, umlautMap, active, down, rep, app, lost>>

\* Mutant: the flash is hidden like any other panel.
ProfileFlashMutant ==
  /\ eng.profileFlashTimer
  /\ eng' = OverlayHideAll([Fresh(eng) EXCEPT !.profileFlashTimer = FALSE])
  /\ UNCHANGED <<config, umlautMap, active, down, rep, app, lost>>

\* The profile flash hides whether or not the overlay is enabled.
ProfileFlash ==
  /\ eng.profileFlashTimer
  /\ eng' = [Fresh(eng) EXCEPT !.profileFlashTimer = FALSE, !.panel = Hidden,
                               !.overlayVisible = FALSE]
  /\ UNCHANGED <<config, umlautMap, active, down, rep, app, lost>>

\* Mutant: the inner callback does not re-arm.
UsageFlushMutant ==
  /\ eng.usageTimer # 0
  /\ eng' = [Fresh(eng) EXCEPT !.usageDirty = FALSE,
                               !.usageTimer = IF @ = 1 THEN 2 ELSE 0]
  /\ UNCHANGED <<config, umlautMap, active, down, rep, app, lost>>

\* The outer callback flushes and arms the inner one, the inner one flushes and
\* re-arms the outer one if usage is still tracked.
UsageFlush ==
  /\ eng.usageTimer # 0
  /\ LET s == [Fresh(eng) EXCEPT !.usageDirty = FALSE] IN
       eng' = IF eng.usageTimer = 1 THEN [s EXCEPT !.usageTimer = 2]
              ELSE ApplyUsageTracking([s EXCEPT !.usageTimer = 0], config)
  /\ UNCHANGED <<config, umlautMap, active, down, rep, app, lost>>

-----------------------------------------------------------------------------
(* Calls from the daemon and the world.                                    *)

\* The gesture is dropped without a commit (the daemon calls this when the
\* engine is paused or resumed).
FocusChanged ==
  /\ eng' = [OverlayHideAll(ClearCommitted(ResetCycling(ResetWaiting(
               CancelGestureTimers(Fresh(eng))))))
               EXCEPT !.consumedAltCode = NoKey, !.usageDirty = FALSE,
                      !.decision = "Focus"]
  /\ UNCHANGED <<config, umlautMap, active, down, rep, app, lost>>

\* The daemon's reload: setConfig, setProfiles, setMappings, whatever gesture
\* is open.  Switching the overlay off also makes its process quit.
Reload ==
  \E r \in Reloads :
    /\ config' = r.config
    /\ active' = r.active
    /\ umlautMap' \in BuildRuntimeMaps(r.map, r.config)
    /\ LET s == ApplyUsageTracking(Fresh(eng), r.config) IN
         eng' = IF config.overlayEnabled /\ ~r.config.overlayEnabled
                THEN [s EXCEPT !.panel = Hidden] ELSE s
    /\ UNCHANGED <<down, rep, app, lost>>

\* A keyboard disappears with keys down: its clone goes with it, neither the
\* engine nor the resolver is told.
Unplug(kb) ==
  /\ down[kb] # {}
  /\ down' = [down EXCEPT ![kb] = {}]
  /\ rep' = [rep EXCEPT ![kb] = NoKey]
  /\ app' = [app EXCEPT ![kb] = {}]
  /\ lost' = lost \cup {k \in down[kb] : IsModifierSym(k)}
  /\ eng' = Fresh(eng)
  /\ UNCHANGED <<config, umlautMap, active>>

\* SYN_DROPPED: what changed meanwhile is replayed to the resolver and to the
\* clone, past the engine.
SynDropped(kb) ==
  \E now \in SUBSET Keys \ {down[kb]} :
    /\ Cardinality(now) <= MaxDown
    /\ down' = [down EXCEPT ![kb] = now]
    /\ \E k \in now \cup {NoKey} : rep' = [rep EXCEPT ![kb] = k]
    /\ app' = [app EXCEPT ![kb] = (@ \cup (now \ down[kb])) \cap now]
    /\ eng' = Fresh(eng)
    /\ UNCHANGED <<config, umlautMap, active, lost>>

Timers ==
  \/ WindowTimeout
  \/ AutoSelect
  \/ OverlayShow
  \/ OverlayHide
  \/ ProfileFlash
  \/ UsageFlush

Next ==
  \/ \E kb \in Keyboards, k \in Keys : Press(kb, k) \/ Release(kb, k)
  \/ \E kb \in Keyboards : Repeat(kb)
  \/ \E kb \in Unreliable : Unplug(kb) \/ SynDropped(kb)
  \/ Tick
  \/ Timers
  \/ FocusChanged
  \/ Reload

Spec == Init /\ [][Next]_vars

\* The event loop keeps time and runs every callback that is due; nothing is
\* assumed of the user.
FairSpec ==
  /\ Spec
  /\ WF_vars(Tick)
  /\ WF_vars(WindowTimeout) /\ WF_vars(AutoSelect) /\ WF_vars(OverlayShow)
  /\ WF_vars(OverlayHide) /\ WF_vars(ProfileFlash) /\ WF_vars(UsageFlush)
=============================================================================
