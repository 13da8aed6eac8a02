---------------------------- MODULE EngineProofs ----------------------------
(***************************************************************************)
(* Type correctness of the gesture engine, for every keyboard layout, set  *)
(* of mappings, profile list, configuration and any number of keyboards,   *)
(* with reloads, unplugged keyboards and dropped events; then, on one      *)
(* keyboard that loses no event, that every release has one owner.         *)
(*                                                                         *)
(* Each helper of the engine takes the record eng to a record: one lemma   *)
(* says so for each, in the order the helpers are defined, and a handler's *)
(* lemma follows from those of the helpers it composes.                    *)
(***************************************************************************)
EXTENDS EngineProperties, TLAPS, SequenceTheorems

-----------------------------------------------------------------------------
(* Mappings *)

\* Inputs and variants are texts.
LEMMA TextTypes ==
  /\ Inputs \cup {NoText} \subseteq STRING /\ Variants \subseteq STRING
  /\ \A k \in Keys : KeyText[k] \in STRING
BY EngineAssumption DEF EngineAssumption

\* A reordering of variants is again a sequence of variants (usage_sort.h).
LEMMA ReorderingType ==
  ASSUME NEW v \in Seq(Variants), NEW r \in Reorderings(v)
  PROVE  r \in Seq(Variants)
<1>1. DOMAIN v = 1..Len(v) /\ Len(v) \in Nat  OBVIOUS
<1>2. r \in [1..Len(v) -> Variants]  BY <1>1 DEF Reorderings
<1> QED BY <1>1, <1>2

\* A runtime map of a mapping is a mapping (buildRuntimeMaps).
LEMMA RuntimeMapType ==
  ASSUME NEW m, IsUmlautMap(m), NEW c, NEW n \in BuildRuntimeMaps(m, c)
  PROVE  IsUmlautMap(n)
<1>1. /\ n = [i \in DOMAIN m |-> n[i]]
      /\ DOMAIN n = DOMAIN m
  BY DEF BuildRuntimeMaps
<1>2. ASSUME NEW i \in DOMAIN n PROVE n[i] \in Seq(Variants)
  <2>1. m[i] \in Seq(Variants)  BY <1>1 DEF IsUmlautMap
  <2>2. n[i] \in Reorderings(m[i]) \/ n[i] = m[i]  BY <1>1 DEF BuildRuntimeMaps
  <2> QED BY <2>1, <2>2, ReorderingType
<1> QED BY <1>1, <1>2 DEF IsUmlautMap

\* Re-sorting the used input keeps the map a mapping (recordUsage).
LEMMA ResortType ==
  ASSUME IsUmlautMap(umlautMap), NEW s, Resort(s)
  PROVE  IsUmlautMap(umlautMap')
<1>1. CASE s.used \notin DOMAIN umlautMap
  BY <1>1 DEF Resort, Resorted, IsUmlautMap
<1>2. CASE s.used \in DOMAIN umlautMap
  <2>1. PICK r \in Reorderings(umlautMap[s.used]) :
          umlautMap' = [umlautMap EXCEPT ![s.used] = r]
    BY <1>2 DEF Resort, Resorted
  <2>2. r \in Seq(Variants)  BY <1>2, ReorderingType DEF IsUmlautMap
  <2> QED BY <2>1, <2>2 DEF IsUmlautMap
<1> QED BY <1>1, <1>2

\* The key's variants after it are a sequence of variants.
LEMMA ResortMapped ==
  ASSUME IsUmlautMap(umlautMap), NEW s, Resort(s), NEW input \in DOMAIN umlautMap
  PROVE  umlautMap'[input] \in Seq(Variants)
<1>1. DOMAIN umlautMap' = DOMAIN umlautMap
  BY DEF Resort, Resorted
<1> QED BY <1>1, ResortType DEF IsUmlautMap

\* The variants of any text are a sequence of variants, empty for an unmapped
\* one (variantsFor).
LEMMA VariantsForType ==
  ASSUME IsUmlautMap(umlautMap), NEW input
  PROVE  /\ VariantsFor(input) \in Seq(Variants)
         /\ Len(VariantsFor(input)) \in Nat
         /\ VariantsFor(input) # <<>> => Len(VariantsFor(input)) > 0
         /\ \A i \in 1..Len(VariantsFor(input)) : VariantsFor(input)[i] \in STRING
<1>1. <<>> \in Seq(Variants)  OBVIOUS
<1>2. VariantsFor(input) \in Seq(Variants)  BY <1>1 DEF VariantsFor, IsUmlautMap
<1>3. \A v \in Seq(Variants) : /\ Len(v) \in Nat
                               /\ v # <<>> => Len(v) > 0
                               /\ \A i \in 1..Len(v) : v[i] \in Variants
  OBVIOUS
<1> QED BY <1>2, <1>3, TextTypes

\* The bounds of a window are natural numbers (effectiveWindow).
LEMMA EffectiveWindowType ==
  ASSUME NEW c \in EngineConfig, NEW input
  PROVE  /\ EffectiveWindow(c.delay, input).max \in Nat
         /\ EffectiveWindow(c.delay, input).min \in Nat
BY DEF EffectiveWindow, EngineConfig, DelayConfig

-----------------------------------------------------------------------------
(* Helpers *)

Config == config \in EngineConfig /\ IsUmlautMap(umlautMap)

\* The engine as it starts.
LEMMA IdleType == IdleState \in EngineState
<1>1. <<>> \in Seq(Commits) /\ <<>> \in Seq(Variants)  OBVIOUS
<1> QED BY <1>1 DEF IdleState, EngineState, NoText, NoKey, NoTimer, NoShow, Hidden

\* A step starts with no outputs.
LEMMA FreshType ==
  ASSUME NEW s \in EngineState PROVE Fresh(s) \in EngineState
<1>1. <<>> \in Seq(Commits)  OBVIOUS
<1> QED BY <1>1 DEF Fresh, EngineState, NoText

\* The overlay-show timer and the panels are records with a list of texts.
ShowTimer == [due: Nat, input: Inputs \cup {NoText}, variants: Seq(Variants)]
Shown == [kind: {"hidden", "profile", "variants"}, variants: Seq(Variants), index: Int]

\* Dropping the overlay-show timer keeps the record's type.
LEMMA NoShowType ==
  /\ NoShow \in ShowTimer
  /\ \A s \in EngineState : [s EXCEPT !.overlayShowTimer = NoShow] \in EngineState
<1>1. <<>> \in Seq(Variants)  OBVIOUS
<1>2. NoShow \in ShowTimer  BY <1>1 DEF NoShow, ShowTimer, NoTimer
<1> QED BY ZenonT(60), <1>2 DEF EngineState, ShowTimer

\* The operators that only set fields to constants.
LEMMA SettersType ==
  ASSUME NEW s \in EngineState
  PROVE  /\ ResetWaiting(s) \in EngineState
         /\ ResetCycling(s) \in EngineState
         /\ ClearCommitted(s) \in EngineState
         /\ CancelGestureTimers(s) \in EngineState
         /\ Consume(s) \in EngineState
         /\ Forward(s) \in EngineState
<1>1. ResetWaiting(s) \in EngineState  BY DEF ResetWaiting, EngineState, NoText, NoKey
<1>2. ResetCycling(s) \in EngineState  BY DEF ResetCycling, EngineState, NoText
<1>3. ClearCommitted(s) \in EngineState  BY DEF ClearCommitted, ArmCommitted, EngineState, NoKey
<1>4. CancelGestureTimers(s) \in EngineState
  <2>1. NoTimer \in Nat  BY DEF NoTimer
  <2> QED BY ZenonT(60), <2>1, NoShowType DEF CancelGestureTimers, EngineState, ShowTimer
<1>5. Consume(s) \in EngineState  BY DEF Consume, EngineState
<1>6. Forward(s) \in EngineState  BY DEF Forward, EngineState
<1> QED BY <1>1, <1>2, <1>3, <1>4, <1>5, <1>6

\* Arming a committed key (armCommitted) keeps the record's type.
LEMMA ArmCommittedType ==
  ASSUME NEW s \in EngineState, NEW k \in Keys \cup {NoKey}, NEW b \in BOOLEAN
  PROVE  ArmCommitted(s, k, b) \in EngineState
BY DEF ArmCommitted, EngineState

\* Switching usage tracking (applyUsageTracking) does: its timer is one of three.
LEMMA ApplyUsageTrackingType ==
  ASSUME NEW s \in EngineState, NEW c
  PROVE  ApplyUsageTracking(s, c) \in EngineState
<1>1. ASSUME NEW t \in EngineState, NEW n \in 0..2
      PROVE  [t EXCEPT !.usageTimer = n] \in EngineState
  BY ZenonT(60) DEF EngineState
<1>2. [s EXCEPT !.usageDirty = FALSE, !.usageTimer = 0] \in EngineState
  <2>1. [s EXCEPT !.usageDirty = FALSE] \in EngineState  BY DEF EngineState
  <2>2. 0 \in 0..2  OBVIOUS
  <2> QED BY <1>1, <2>1, <2>2
<1> DEFINE n == IF s.usageTimer = 0 THEN 1 ELSE s.usageTimer
<1>3. n \in 0..2
  <2>1. s.usageTimer \in 0..2  BY DEF EngineState
  <2> QED BY <2>1
<1>4. CASE c.sortByFrequency
  <2>1. ApplyUsageTracking(s, c) = [s EXCEPT !.usageTimer = n]  BY <1>4 DEF ApplyUsageTracking
  <2> HIDE DEF n
  <2> QED BY <1>1, <1>3, <2>1
<1>5. CASE ~c.sortByFrequency  BY <1>2, <1>5 DEF ApplyUsageTracking
<1> QED BY <1>4, <1>5

\* The two panels without variants are panels.
LEMMA HiddenType == Hidden \in Shown /\ Profile \in Shown
<1>1. <<>> \in Seq(Variants)  OBVIOUS
<1>2. Hidden \in Shown  BY <1>1 DEF Hidden, Shown
<1>3. Profile \in Shown
  <2> HIDE DEF Hidden
  <2> QED BY <1>2 DEF Profile, Shown
<1> QED BY <1>2, <1>3

\* Showing variants keeps the record's type.
LEMMA OverlayShowVariantsType ==
  ASSUME NEW s \in EngineState, NEW v \in Seq(Variants), NEW i \in Int
  PROVE  OverlayShowVariants(s, v, i) \in EngineState
<1>1. Panel(v, i) \in Shown
  BY DEF Panel, Shown
<1>2. [s EXCEPT !.profileFlashTimer = FALSE, !.overlayVisible = TRUE,
                !.panel = Panel(v, i)] \in EngineState
  BY ZenonT(60), <1>1 DEF EngineState, Shown
<1> QED BY <1>2 DEF OverlayShowVariants

\* Hiding the overlay does.
LEMMA OverlayHideAllType ==
  ASSUME NEW s \in EngineState PROVE OverlayHideAll(s) \in EngineState
<1>1. [s EXCEPT !.panel = Hidden, !.overlayVisible = FALSE] \in EngineState
  BY ZenonT(60), HiddenType DEF EngineState, Shown
<1> QED BY <1>1 DEF OverlayHideAll

\* Hiding the preview (hideTriggerOverlay) does.
LEMMA HideTriggerOverlayType ==
  ASSUME NEW s \in EngineState PROVE HideTriggerOverlay(s) \in EngineState
BY NoShowType, OverlayHideAllType DEF HideTriggerOverlay

\* Flashing the only variant (flashCommitOverlay) does.
LEMMA FlashCommitOverlayType ==
  ASSUME NEW s \in EngineState, NEW v \in Seq(Variants)
  PROVE  FlashCommitOverlay(s, v) \in EngineState
<1>1. OverlayShowVariants([s EXCEPT !.overlayShowTimer = NoShow], v, 0) \in EngineState
  BY NoShowType, OverlayShowVariantsType
<1> QED BY ZenonT(60), <1>1 DEF FlashCommitOverlay, EngineState

\* The previews at the start of a gesture (startProgressOverlay and
\* scheduleTriggerOverlay) do: the minimum hold they wait for is a time.
LEMMA ShowGestureOverlayType ==
  ASSUME Config, NEW s \in EngineState, NEW input \in Inputs \cup {NoText},
         NEW v \in Seq(Variants)
  PROVE  ShowGestureOverlay(s, input, v) \in EngineState
<1> DEFINE t   == [s EXCEPT !.overlayHideTimer = FALSE]
           min == EffectiveWindow(config.delay, input).min
<1>1. t \in EngineState  BY DEF EngineState
<1>2. OverlayShowVariants(t, v, -1) \in EngineState  BY <1>1, OverlayShowVariantsType
<1>3. min \in Nat  BY EffectiveWindowType DEF Config
<1>4. [t EXCEPT !.overlayShowTimer = [due |-> min, input |-> input, variants |-> v]]
        \in EngineState
  <2> HIDE DEF min, t
  <2> QED BY ZenonT(60), <1>1, <1>3 DEF EngineState
<1> QED BY <1>2, <1>4 DEF ShowGestureOverlay

\* A text given to the sink extends the outputs.
LEMMA CommitTextType ==
  ASSUME NEW s \in EngineState, NEW k \in Keys \cup {NoKey}, NEW t \in STRING
  PROVE  CommitText(s, k, t) \in EngineState
<1>1. [code |-> k, text |-> t] \in Commits  BY DEF Commits
<1>2. s.out \in Seq(Commits)  BY DEF EngineState
<1>3. Append(s.out, [code |-> k, text |-> t]) \in Seq(Commits)  BY <1>1, <1>2, AppendProperties
<1> QED BY <1>3 DEF CommitText, EngineState

\* So does a variant (commitVariant and recordUsage).
LEMMA CommitVariantType ==
  ASSUME Config, NEW s \in EngineState, NEW input \in Inputs \cup {NoText}, NEW v \in STRING
  PROVE  CommitVariant(s, input, v) \in EngineState
<1>1. s.waitingKeyCode \in Keys \cup {NoKey}  BY DEF EngineState
<1>2. CommitText(s, s.waitingKeyCode, v) \in EngineState  BY <1>1, CommitTextType
<1>3. config.sortByFrequency \in BOOLEAN  BY DEF Config, EngineConfig
<1>4. ASSUME NEW t \in EngineState, NEW u \in Inputs \cup {NoText}, NEW d \in BOOLEAN
      PROVE  [t EXCEPT !.used = u, !.usageDirty = d] \in EngineState
  BY ZenonT(60) DEF EngineState
<1>5. (IF config.sortByFrequency THEN input ELSE NoText) \in Inputs \cup {NoText}
  OBVIOUS
<1>6. (CommitText(s, s.waitingKeyCode, v).usageDirty \/ config.sortByFrequency) \in BOOLEAN
  OBVIOUS
<1> QED BY <1>2, <1>4, <1>5, <1>6 DEF CommitVariant

\* Committing the plain character (commitPendingKey) keeps the type.
LEMMA CommitPendingKeyType ==
  ASSUME NEW s \in EngineState PROVE CommitPendingKey(s) \in EngineState
<1> DEFINE t == ResetWaiting(CommitText(HideTriggerOverlay(s), s.waitingKeyCode, s.waitingKey))
<1>1. s.waitingKeyCode \in Keys \cup {NoKey} /\ s.waitingKey \in STRING
  <2>1. s.waitingKeyCode \in Keys \cup {NoKey} /\ s.waitingKey \in Inputs \cup {NoText}
    BY DEF EngineState
  <2> HIDE DEF t
  <2> QED BY <2>1, TextTypes
<1>2. t \in EngineState  BY <1>1, HideTriggerOverlayType, CommitTextType, SettersType
<1>3. [t EXCEPT !.windowTimer = NoTimer, !.autoSelectTimer = NoTimer] \in EngineState
  <2> HIDE DEF t
  <2> QED BY ZenonT(60), <1>2 DEF EngineState, NoTimer
<1> QED BY <1>3 DEF CommitPendingKey

\* Committing the selected variant (commitCyclingValue) does: an index that is
\* out of the range of the variants is never applied.
LEMMA CommitCyclingValueType ==
  ASSUME Config, NEW s \in EngineState PROVE CommitCyclingValue(s) \in EngineState
<1> DEFINE v == VariantsFor(s.cyclingInput)
           t == IF s.cyclingIndex < Len(v)
                THEN CommitVariant(s, s.cyclingInput, v[s.cyclingIndex + 1]) ELSE s
<1>1. s.cyclingInput \in Inputs \cup {NoText} /\ s.cyclingIndex \in Nat  BY DEF EngineState
<1>2. ASSUME s.cyclingIndex < Len(v) PROVE v[s.cyclingIndex + 1] \in STRING
  <2>1. Len(v) \in Nat /\ \A i \in 1..Len(v) : v[i] \in STRING
    BY VariantsForType DEF Config
  <2> HIDE DEF v
  <2> QED BY <1>1, <1>2, <2>1
<1>3. t \in EngineState  BY <1>1, <1>2, CommitVariantType
<1>4. OverlayHideAll(ResetCycling(ResetWaiting(t))) \in EngineState
  <2> HIDE DEF t
  <2> QED BY <1>3, SettersType, OverlayHideAllType
<1> QED BY <1>4 DEF CommitCyclingValue

\* Committing whichever of the two is open does.
LEMMA CommitGestureType ==
  ASSUME Config, NEW s \in EngineState PROVE CommitGesture(s) \in EngineState
BY CommitPendingKeyType, CommitCyclingValueType DEF CommitGesture

\* Settling an elapsed window does.
LEMMA CommitExpiredType ==
  ASSUME NEW s \in EngineState PROVE CommitExpired(s) \in EngineState
<1>1. s.waitingKeyCode \in Keys \cup {NoKey}  BY DEF EngineState
<1> QED BY <1>1, CommitPendingKeyType, ArmCommittedType DEF CommitExpired

\* Withholding a mapped key (startGesture) does.
LEMMA StartGestureType ==
  ASSUME Config, NEW s \in EngineState, NEW k \in Keys, KeyText[k] \in Inputs,
         NEW v \in Seq(Variants)
  PROVE  StartGesture(s, k, v) \in EngineState
<1> DEFINE w == EffectiveWindow(config.delay, KeyText[k])
           wt == IF w.unlimited THEN NoTimer ELSE w.max
           at == IF config.autoSelect THEN config.autoSelectMs ELSE NoTimer
           t == [s EXCEPT !.waitingKey = KeyText[k], !.waitingKeyCode = k,
                          !.inputKeyPressed = TRUE, !.elapsed = 0,
                          !.windowTimer = wt, !.autoSelectTimer = at]
<1>1. wt \in Nat  BY EffectiveWindowType DEF Config, NoTimer
<1>2. at \in Nat  BY DEF Config, EngineConfig, NoTimer
<1>3. t \in EngineState
  <2> HIDE DEF wt, at
  <2> QED BY <1>1, <1>2 DEF EngineState
<1>4. Consume(ShowGestureOverlay(t, KeyText[k], v)) \in EngineState
  <2> HIDE DEF t
  <2> QED BY <1>3, ShowGestureOverlayType, SettersType
<1> QED BY <1>4 DEF StartGesture

\* Opening the cycle (enterCycling) does.
LEMMA EnterCyclingType ==
  ASSUME Config, NEW s \in EngineState, NEW input \in Inputs \cup {NoText}, NEW i \in Nat
  PROVE  EnterCycling(s, input, i) \in EngineState
<1> DEFINE t == [s EXCEPT !.cyclingInput = input, !.cyclingIndex = i, !.waitingKey = NoText]
<1>1. t \in EngineState  BY DEF EngineState, NoText
<1>2. VariantsFor(input) \in Seq(Variants)  BY VariantsForType DEF Config
<1>3. OverlayShowVariants(t, VariantsFor(input), i) \in EngineState
  <2> HIDE DEF t
  <2> QED BY <1>1, <1>2, OverlayShowVariantsType
<1> QED BY <1>3 DEF EnterCycling

\* Swallowing a leader does.
LEMMA ConsumeLeaderType ==
  ASSUME NEW s \in EngineState, NEW k \in Keys
  PROVE  ConsumeLeader(s, k) \in EngineState
<1>1. ASSUME NEW a \in Keys \cup {NoKey} PROVE [s EXCEPT !.consumedAltCode = a] \in EngineState
  BY DEF EngineState
<1>2. s.consumedAltCode \in Keys \cup {NoKey}  BY DEF EngineState
<1> QED BY <1>1, <1>2, SettersType DEF ConsumeLeader

\* A remainder is below its modulus, whatever the sign of the dividend.
LEMMA ModuloType ==
  ASSUME NEW a \in Int, NEW n \in Nat, n > 0 PROVE a % n \in 0..(n-1)
OBVIOUS

\* A step through the cycle leaves the index a natural number, forwards and
\* backwards (cycleCyclingIndex).
LEMMA StepCyclingType ==
  ASSUME Config, NEW s \in EngineState, NEW k \in Keys,
         VariantsFor(s.cyclingInput) # <<>>
  PROVE  StepCycling(s, k) \in EngineState
<1> DEFINE n    == Len(VariantsFor(s.cyclingInput))
           next == (s.cyclingIndex + LeaderStep(config.leader, k)) % n
           t    == [s EXCEPT !.cyclingIndex = next]
<1>1. n \in Nat /\ n > 0  BY VariantsForType DEF Config
<1>2. s.cyclingIndex + LeaderStep(config.leader, k) \in Int
  BY DEF EngineState, LeaderStep
<1>3. next \in Nat  BY <1>1, <1>2, ModuloType
<1>4. t \in EngineState
  <2> HIDE DEF next
  <2> QED BY <1>3 DEF EngineState
<1>5. VariantsFor(s.cyclingInput) \in Seq(Variants)  BY VariantsForType DEF Config
<1>6. OverlayShowVariants(t, VariantsFor(s.cyclingInput), next) \in EngineState
  <2> HIDE DEF next, t
  <2> QED BY <1>3, <1>4, <1>5, OverlayShowVariantsType
<1> QED BY <1>6 DEF StepCycling

\* The first leader keeps the type: the index it starts from is in range.
LEMMA OpenGestureType ==
  ASSUME Config, NEW s \in EngineState, NEW k \in Keys, VariantsFor(s.waitingKey) # <<>>
  PROVE  OpenGesture(s, k) \in EngineState
<1> DEFINE input    == s.waitingKey
           variants == VariantsFor(input)
           start    == IF LeaderStep(config.leader, k) < 0 THEN Len(variants) - 1 ELSE 0
           flashed  == IF s.overlayVisible THEN FlashCommitOverlay(s, variants)
                       ELSE HideTriggerOverlay(s)
           single   == ResetWaiting(ArmCommitted(CommitVariant(flashed, input, variants[1]),
                                                 s.waitingKeyCode, TRUE))
           t        == IF Len(variants) > 1 THEN EnterCycling(s, input, start) ELSE single
<1>1. input \in Inputs \cup {NoText} /\ s.waitingKeyCode \in Keys \cup {NoKey}
  BY DEF EngineState
<1>2. /\ Len(variants) \in Nat /\ Len(variants) > 0
      /\ variants[1] \in STRING /\ variants \in Seq(Variants)
  <2>1. /\ Len(variants) \in Nat /\ Len(variants) > 0 /\ variants \in Seq(Variants)
        /\ \A i \in 1..Len(variants) : variants[i] \in STRING
    BY VariantsForType DEF Config
  <2> HIDE DEF variants
  <2> QED BY <2>1
<1>3. start \in Nat
  <2> HIDE DEF variants
  <2> QED BY <1>2
<1>4. EnterCycling(s, input, start) \in EngineState
  <2> HIDE DEF start, input
  <2> QED BY <1>1, <1>3, EnterCyclingType
<1>5. flashed \in EngineState
  <2> HIDE DEF variants
  <2> QED BY <1>2, FlashCommitOverlayType, HideTriggerOverlayType
<1>6. single \in EngineState
  <2> HIDE DEF flashed, input, variants
  <2> QED BY <1>1, <1>2, <1>5, CommitVariantType, ArmCommittedType, SettersType
<1>7. t \in EngineState  BY <1>4, <1>6
<1>8. [t EXCEPT !.autoSelectTimer = NoTimer, !.windowTimer = NoTimer] \in EngineState
  <2> HIDE DEF t
  <2> QED BY ZenonT(60), <1>7 DEF EngineState, NoTimer
<1> QED BY <1>8 DEF OpenGesture

\* A leader (handleLeader) does, in each of its branches.
LEMMA HandleLeaderType ==
  ASSUME Config, NEW s \in EngineState, NEW k \in Keys
  PROVE  HandleLeader(s, k) \in EngineState
<1> DEFINE t == [s EXCEPT !.overlayShowTimer = NoShow]
<1>1. t \in EngineState  BY NoShowType
<1> HIDE DEF t
<1>2. Forward(CommitPendingKey(ArmCommitted(t, t.waitingKeyCode, TRUE))) \in EngineState
  <2>1. t.waitingKeyCode \in Keys \cup {NoKey}  BY <1>1 DEF EngineState
  <2> QED BY <1>1, <2>1, ArmCommittedType, CommitPendingKeyType, SettersType
<1>3. Forward(OverlayHideAll(ResetCycling(t))) \in EngineState
  BY <1>1, OverlayHideAllType, SettersType
<1>4. ASSUME VariantsFor(t.cyclingInput) # <<>>
      PROVE  ConsumeLeader(StepCycling(t, k), k) \in EngineState
  BY <1>1, <1>4, StepCyclingType, ConsumeLeaderType
<1>5. ASSUME VariantsFor(t.waitingKey) # <<>>
      PROVE  ConsumeLeader(OpenGesture(t, k), k) \in EngineState
  BY <1>1, <1>5, OpenGestureType, ConsumeLeaderType
<1>6. Forward([t EXCEPT !.consumedAltCode = NoKey]) \in EngineState
  <2>1. [t EXCEPT !.consumedAltCode = NoKey] \in EngineState
    BY ZenonT(60), <1>1 DEF EngineState, NoKey
  <2> QED BY <2>1, SettersType
<1> QED BY <1>2, <1>3, <1>4, <1>5, <1>6 DEF HandleLeader, t

\* A profile switch (switchToProfileName) does.
LEMMA SwitchToProfileType ==
  ASSUME Config, NEW s \in EngineState, NEW name
  PROVE  SwitchToProfile(s, name) \in EngineState
<1> DEFINE c == IF Cycling(s) THEN CommitCyclingValue(s) ELSE CommitPendingKey(s)
           t == ResetCycling(ResetWaiting(CancelGestureTimers(c)))
<1>1. c \in EngineState  BY CommitCyclingValueType, CommitPendingKeyType
<1>2. t \in EngineState
  <2> HIDE DEF c
  <2> QED BY <1>1, SettersType
<1>3. [t EXCEPT !.panel = Profile, !.overlayVisible = TRUE, !.profileFlashTimer = TRUE]
        \in EngineState
  <2> HIDE DEF t
  <2> QED BY ZenonT(60), <1>2, HiddenType DEF EngineState, Shown
<1> QED BY <1>3 DEF SwitchToProfile

\* The engine after the late-timer check of a press has its type.
LEMMA SettledType ==
  ASSUME Config, eng \in EngineState PROVE Settled \in EngineState
BY FreshType, CommitExpiredType DEF Settled

-----------------------------------------------------------------------------
(* Steps *)

\* What a key event does to the clone keeps it a function to sets of keys.
LEMMA DeliverType ==
  ASSUME TypeOK, NEW kb \in Keyboards, NEW k \in Keys, NEW s \in EngineState,
         DeliverPress(kb, k, s) \/ DeliverRelease(kb, k, s)
  PROVE  eng' \in EngineState /\ app' \in [Keyboards -> SUBSET Keys]
<1>1. app \in [Keyboards -> SUBSET Keys]  BY DEF TypeOK
<1>2. [app EXCEPT ![kb] = @ \cup {k}] \in [Keyboards -> SUBSET Keys]  BY <1>1
<1>3. [app EXCEPT ![kb] = @ \ {k}] \in [Keyboards -> SUBSET Keys]  BY <1>1
<1> QED BY <1>1, <1>2, <1>3 DEF DeliverPress, DeliverRelease

\* A press leaves every variable with its type.
LEMMA PressType ==
  ASSUME TypeOK, NEW kb \in Keyboards, NEW k \in Keys, Press(kb, k)
  PROVE  TypeOK'
<1>1. Config /\ eng \in EngineState /\ active \in ProfileNames  BY DEF TypeOK, Config
<1>2. Fresh(eng) \in EngineState /\ Settled \in EngineState
  BY <1>1, FreshType, SettledType
<1>3. CommitGesture(Settled) \in EngineState  BY <1>1, <1>2, CommitGestureType
<1>4. /\ down' \in [Keyboards -> SUBSET Keys]
      /\ rep' \in [Keyboards -> Keys \cup {NoKey}]
  BY DEF Press, PhysicalPress, TypeOK
<1>5. config' \in EngineConfig /\ lost' \subseteq Keys  BY DEF Press, TypeOK
<1> DEFINE Typed == /\ eng' \in EngineState /\ app' \in [Keyboards -> SUBSET Keys]
                    /\ IsUmlautMap(umlautMap') /\ active' \in ProfileNames
<1> SUFFICES Typed  BY <1>4, <1>5 DEF TypeOK, IsUmlautMap
<1>6. CASE PressFiltered(kb, k) \/ PressModifier(kb, k)
  <2>1. DeliverPress(kb, k, Forward(Fresh(eng))) /\ UNCHANGED <<umlautMap, active>>
    BY <1>6 DEF PressFiltered, PressModifier
  <2>2. Forward(Fresh(eng)) \in EngineState  BY <1>2, SettersType
  <2>3. eng' \in EngineState /\ app' \in [Keyboards -> SUBSET Keys]  BY <2>1, <2>2, DeliverType
  <2>4. IsUmlautMap(umlautMap')  BY <1>1, <2>1 DEF IsUmlautMap, Config
  <2> QED BY <1>1, <2>1, <2>3, <2>4
<1>7. CASE PressProfileShortcut(kb, k)
  <2> DEFINE name == ShortcutTarget(k)
             s    == Consume(SwitchToProfile(Fresh(eng), name))
  <2>1. s \in EngineState  BY <1>1, <1>2, SwitchToProfileType, SettersType
  <2>2. eng' \in EngineState /\ app' \in [Keyboards -> SUBSET Keys]
    BY <1>7, <2>1, DeliverType DEF PressProfileShortcut
  <2>3. CASE IsSwitch(name)
    <3>1. IsUmlautMap(ProfileMap[name])
      BY <2>3, EngineAssumption DEF IsSwitch, EngineAssumption
    <3>2. umlautMap' \in BuildRuntimeMaps(ProfileMap[name], config) /\ active' = name
      BY <1>7, <2>3 DEF PressProfileShortcut
    <3>3. IsUmlautMap(umlautMap')  BY <3>1, <3>2, RuntimeMapType
    <3> QED BY <2>2, <2>3, <3>2, <3>3 DEF IsSwitch
  <2>4. CASE ~IsSwitch(name)
    <3>1. UNCHANGED <<active, umlautMap>>  BY <1>7, <2>4 DEF PressProfileShortcut
    <3>2. IsUmlautMap(umlautMap')  BY <1>1, <3>1 DEF IsUmlautMap, Config
    <3> QED BY <1>1, <2>2, <3>1, <3>2
  <2> QED BY <2>3, <2>4
<1>8. ASSUME NEW s \in EngineState, NEW t, DeliverPress(kb, k, s), Resort(t), UNCHANGED active
      PROVE  Typed
  <2>1. eng' \in EngineState /\ app' \in [Keyboards -> SUBSET Keys]  BY <1>8, DeliverType
  <2>2. IsUmlautMap(umlautMap')  BY <1>1, <1>8, ResortType DEF Config
  <2> QED BY <1>1, <1>8, <2>1, <2>2
<1>9. CASE PressShortcut(kb, k)
  <2> DEFINE t == [CommitGesture(Settled) EXCEPT !.inputKeyPressed = FALSE]
  <2>1. t \in EngineState  BY <1>3 DEF EngineState
  <2>2. Forward(t) \in EngineState  BY <2>1, SettersType
  <2> QED BY <1>8, <1>9, <2>2 DEF PressShortcut
<1>10. CASE PressLeader(kb, k)
  <2>1. HandleLeader(Settled, k) \in EngineState  BY <1>1, <1>2, HandleLeaderType
  <2> QED BY <1>8, <1>10, <2>1 DEF PressLeader
<1>11. CASE PressMapped(kb, k)
  <2>1. KeyText[k] \in Inputs  BY <1>1, <1>11 DEF PressMapped, Config, IsUmlautMap
  <2>2. umlautMap'[KeyText[k]] \in Seq(Variants)
    BY <1>1, <1>11, ResortMapped DEF PressMapped, Config
  <2>3. StartGesture(CommitGesture(Settled), k, umlautMap'[KeyText[k]]) \in EngineState
    BY <1>1, <1>3, <2>1, <2>2, StartGestureType
  <2> QED BY <1>8, <1>11, <2>3 DEF PressMapped
<1>12. CASE PressOther(kb, k)
  <2> DEFINE s == [CommitGesture(Settled) EXCEPT !.consumedAltCode = NoKey]
             t == IF AltBypass(k) /\ KeyText[k] # NoText
                  THEN Consume(CommitText(s, k, KeyText[k])) ELSE Forward(s)
  <2>1. s \in EngineState  BY <1>3 DEF EngineState, NoKey
  <2>2. KeyText[k] \in STRING  BY TextTypes
  <2>3. t \in EngineState
    <3> HIDE DEF s
    <3> QED BY <2>1, <2>2, CommitTextType, SettersType
  <2>4. DeliverPress(kb, k, t) /\ Resort(s) /\ UNCHANGED active  BY <1>12 DEF PressOther
  <2> HIDE DEF s, t
  <2> QED BY <1>8, <2>3, <2>4
<1> QED BY <1>6, <1>7, <1>9, <1>10, <1>11, <1>12 DEF Press

\* A step that leaves all but the engine, the map and the keys' state alone.
LEMMA EngineOnly ==
  ASSUME TypeOK, eng' \in EngineState,
         UNCHANGED <<config, umlautMap, active, down, rep, app, lost>>
  PROVE  TypeOK'
BY DEF TypeOK, IsUmlautMap

\* A repeat leaves every variable with its type.
LEMMA RepeatType ==
  ASSUME TypeOK, NEW kb \in Keyboards, Repeat(kb)
  PROVE  TypeOK'
<1> DEFINE k == rep[kb]
<1>1. Config /\ eng \in EngineState /\ k \in Keys
  BY DEF TypeOK, Config, Repeat
<1>2. Fresh(eng) \in EngineState  BY <1>1, FreshType
<1>3. UNCHANGED <<config, active, down, rep, app, lost>>  BY DEF Repeat
<1>4. SUFFICES eng' \in EngineState /\ IsUmlautMap(umlautMap')
  BY <1>3 DEF TypeOK, IsUmlautMap
<1>5. ASSUME NEW s \in EngineState, eng' = s, UNCHANGED umlautMap
      PROVE  eng' \in EngineState /\ IsUmlautMap(umlautMap')
  BY <1>1, <1>5 DEF Config, IsUmlautMap
<1>6. Consume(Fresh(eng)) \in EngineState /\ Forward(Fresh(eng)) \in EngineState
  BY <1>2, SettersType
<1> HIDE DEF k
<1>7. CASE RepeatOwnKey(k)  BY <1>5, <1>6, <1>7 DEF RepeatOwnKey
<1>8. CASE RepeatLeader(k)
  <2>1. HandleLeader(Fresh(eng), k) \in EngineState  BY <1>1, <1>2, HandleLeaderType
  <2>2. IsUmlautMap(umlautMap')  BY <1>1, <1>8, ResortType DEF Config, RepeatLeader
  <2> QED BY <1>8, <2>1, <2>2 DEF RepeatLeader
<1>9. CASE RepeatCommitted(k)
  <2> DEFINE s == ClearCommitted(Fresh(eng))
  <2>1. s \in EngineState  BY <1>2, SettersType
  <2>2. Forward(s) \in EngineState  BY <2>1, SettersType
  <2>3. ASSUME KeyText[k] \in DOMAIN umlautMap
        PROVE  StartGesture(s, k, umlautMap[KeyText[k]]) \in EngineState
    <3>1. KeyText[k] \in Inputs /\ umlautMap[KeyText[k]] \in Seq(Variants)
      BY <1>1, <2>3 DEF Config, IsUmlautMap
    <3> HIDE DEF s
    <3> QED BY <1>1, <2>1, <3>1, StartGestureType
  <2> QED BY <1>5, <1>6, <1>9, <2>2, <2>3 DEF RepeatCommitted
<1>10. CASE RepeatOther(k)  BY <1>5, <1>6, <1>10 DEF RepeatOther
<1> QED BY <1>5, <1>6, <1>7, <1>8, <1>9, <1>10 DEF Repeat, k

\* A release leaves every variable with its type.
LEMMA ReleaseType ==
  ASSUME TypeOK, NEW kb \in Keyboards, NEW k \in Keys, Release(kb, k)
  PROVE  TypeOK'
<1> DEFINE s == Fresh(eng)
<1>1. Config /\ eng \in EngineState  BY DEF TypeOK, Config
<1>2. s \in EngineState  BY <1>1, FreshType
<1>3. /\ down' \in [Keyboards -> SUBSET Keys]
      /\ rep' \in [Keyboards -> Keys \cup {NoKey}]
  BY DEF Release, PhysicalRelease, TypeOK
<1>4. config' \in EngineConfig /\ lost' \subseteq Keys /\ active' \in ProfileNames
  BY DEF Release, TypeOK
<1>5. HandleRelease(k) \in EngineState
  <2>1. Forward(s) \in EngineState /\ Consume(ClearCommitted(s)) \in EngineState
    BY <1>2, SettersType
  <2>2. Consume([s EXCEPT !.consumedAltCode = NoKey]) \in EngineState
    <3>1. [s EXCEPT !.consumedAltCode = NoKey] \in EngineState  BY <1>2 DEF EngineState, NoKey
    <3> QED BY <3>1, SettersType
  <2>3. Consume(IF Cycling(s) THEN CommitCyclingValue(s) ELSE CommitPendingKey(s)) \in EngineState
    BY <1>1, <1>2, CommitCyclingValueType, CommitPendingKeyType, SettersType
  <2> HIDE DEF s
  <2> QED BY <2>1, <2>2, <2>3 DEF HandleRelease, s
<1>6. eng' \in EngineState /\ app' \in [Keyboards -> SUBSET Keys]
  BY <1>5, DeliverType DEF Release
<1>7. IsUmlautMap(umlautMap')  BY <1>1, ResortType DEF Release, Config
<1> QED BY <1>3, <1>4, <1>6, <1>7 DEF TypeOK, IsUmlautMap

\* A timer's callback leaves every variable with its type.
LEMMA TimerType ==
  ASSUME TypeOK, Timers
  PROVE  TypeOK'
<1>1. Config /\ eng \in EngineState  BY DEF TypeOK, Config
<1>2. Fresh(eng) \in EngineState  BY <1>1, FreshType
<1>3. CASE WindowTimeout
  <2> DEFINE s == [Fresh(eng) EXCEPT !.windowTimer = NoTimer]
  <2>1. s \in EngineState  BY <1>2 DEF EngineState, NoTimer
  <2>2. CommitExpired(s) \in EngineState
    <3> HIDE DEF s
    <3> QED BY <2>1, CommitExpiredType
  <2>3. eng' \in EngineState  BY <1>3, <2>1, <2>2 DEF WindowTimeout
  <2> QED BY <1>3, <2>3, EngineOnly DEF WindowTimeout
<1>4. CASE AutoSelect
  <2> DEFINE s == [Fresh(eng) EXCEPT !.autoSelectTimer = NoTimer]
             t == [s EXCEPT !.windowTimer = NoTimer]
  <2>1. s \in EngineState  BY <1>2 DEF EngineState, NoTimer
  <2>2. t \in EngineState
    <3> HIDE DEF s
    <3> QED BY <2>1 DEF EngineState, NoTimer
  <2>3. s.waitingKey \in Inputs \cup {NoText}  BY <2>1 DEF EngineState
  <2>4. EnterCycling(t, s.waitingKey, 0) \in EngineState
    <3> HIDE DEF s, t
    <3> QED BY <1>1, <2>2, <2>3, EnterCyclingType
  <2>5. eng' \in EngineState  BY <1>4, <2>1, <2>4 DEF AutoSelect
  <2> QED BY <1>4, <2>5, EngineOnly DEF AutoSelect
<1>5. CASE OverlayShow
  <2> DEFINE s     == [Fresh(eng) EXCEPT !.overlayShowTimer = NoShow]
             shown == eng.overlayShowTimer.variants
  <2>1. s \in EngineState  BY <1>2, NoShowType
  <2>2. shown \in Seq(Variants)  BY <1>1 DEF EngineState
  <2>3. OverlayShowVariants(s, shown, -1) \in EngineState
    <3> HIDE DEF s, shown
    <3> QED BY <2>1, <2>2, OverlayShowVariantsType
  <2>4. eng' \in EngineState  BY <1>5, <2>1, <2>3 DEF OverlayShow
  <2> QED BY <1>5, <2>4, EngineOnly DEF OverlayShow
<1>6. CASE OverlayHide
  <2> DEFINE s == [Fresh(eng) EXCEPT !.overlayHideTimer = FALSE]
  <2>1. s \in EngineState  BY <1>2 DEF EngineState
  <2>2. eng' \in EngineState  BY <1>6, <2>1, OverlayHideAllType DEF OverlayHide
  <2> QED BY <1>6, <2>2, EngineOnly DEF OverlayHide
<1>7. CASE ProfileFlash
  <2>1. eng' \in EngineState  BY <1>2, <1>7, HiddenType DEF ProfileFlash, EngineState, Shown
  <2> QED BY <1>7, <2>1, EngineOnly DEF ProfileFlash
<1>8. CASE UsageFlush
  <2> DEFINE s == [Fresh(eng) EXCEPT !.usageDirty = FALSE]
  <2>1. s \in EngineState  BY <1>2 DEF EngineState
  <2>2. ASSUME NEW n \in 0..2 PROVE [s EXCEPT !.usageTimer = n] \in EngineState
    <3> HIDE DEF s
    <3> QED BY <2>1 DEF EngineState
  <2>3. 0 \in 0..2 /\ 2 \in 0..2  OBVIOUS
  <2>4. ApplyUsageTracking([s EXCEPT !.usageTimer = 0], config) \in EngineState
    BY <2>2, <2>3, ApplyUsageTrackingType
  <2>5. eng' \in EngineState  BY <1>8, <2>2, <2>3, <2>4 DEF UsageFlush
  <2> QED BY <1>8, <2>5, EngineOnly DEF UsageFlush
<1> QED BY <1>3, <1>4, <1>5, <1>6, <1>7, <1>8 DEF Timers

\* The clock and what the world does leave every variable with its type.
LEMMA WorldType ==
  ASSUME TypeOK, Tick \/ FocusChanged \/ Reload \/ \E kb \in Unreliable : Unplug(kb) \/ SynDropped(kb)
  PROVE  TypeOK'
<1>1. Config /\ eng \in EngineState  BY DEF TypeOK, Config
<1>2. Fresh(eng) \in EngineState  BY <1>1, FreshType
<1>3. CASE Tick
  <2> DEFINE s == Fresh(eng)
             n == s.elapsed + 1
  <2>1. n \in Nat  BY <1>2 DEF EngineState
  <2>2. [s EXCEPT !.elapsed = n] \in EngineState
    <3> HIDE DEF s, n
    <3> QED BY <1>2, <2>1 DEF EngineState, s
  <2> QED BY <1>3, <2>2, EngineOnly DEF Tick
<1>4. CASE FocusChanged
  <2> DEFINE s == OverlayHideAll(ClearCommitted(ResetCycling(ResetWaiting(
                    CancelGestureTimers(Fresh(eng))))))
             t == [s EXCEPT !.consumedAltCode = NoKey, !.usageDirty = FALSE, !.decision = "Focus"]
  <2>1. s \in EngineState  BY <1>2, SettersType, OverlayHideAllType
  <2>2. t \in EngineState
    <3> HIDE DEF s
    <3> QED BY <2>1 DEF EngineState, NoKey
  <2>3. eng' = t  BY <1>4 DEF FocusChanged
  <2> QED BY <1>4, <2>2, <2>3, EngineOnly DEF FocusChanged
<1>5. CASE Reload
  <2>1. PICK r \in Reloads :
          /\ config' = r.config /\ active' = r.active
          /\ umlautMap' \in BuildRuntimeMaps(r.map, r.config)
          /\ eng' = IF config.overlayEnabled /\ ~r.config.overlayEnabled
                    THEN [ApplyUsageTracking(Fresh(eng), r.config) EXCEPT !.panel = Hidden]
                    ELSE ApplyUsageTracking(Fresh(eng), r.config)
          /\ UNCHANGED <<down, rep, app, lost>>
    BY <1>5 DEF Reload
  <2>2. r.config \in EngineConfig /\ r.active \in ProfileNames /\ IsUmlautMap(r.map)
    BY EngineAssumption DEF EngineAssumption
  <2>3. IsUmlautMap(umlautMap')  BY <2>1, <2>2, RuntimeMapType
  <2> DEFINE s == ApplyUsageTracking(Fresh(eng), r.config)
  <2>4. s \in EngineState  BY <1>2, ApplyUsageTrackingType
  <2>5. [s EXCEPT !.panel = Hidden] \in EngineState
    <3> HIDE DEF s
    <3> QED BY ZenonT(60), <2>4, HiddenType DEF EngineState, Shown
  <2>6. eng' \in EngineState  BY <2>1, <2>4, <2>5
  <2> QED BY <2>1, <2>2, <2>3, <2>6 DEF TypeOK, IsUmlautMap
<1>6. ASSUME NEW kb \in Unreliable, Unplug(kb) \/ SynDropped(kb)
      PROVE  TypeOK'
  <2>1. kb \in Keyboards  BY EngineAssumption DEF EngineAssumption
  <2>2. eng' \in EngineState  BY <1>2, <1>6 DEF Unplug, SynDropped
  <2>3. down' \in [Keyboards -> SUBSET Keys]  BY <1>6, <2>1 DEF Unplug, SynDropped, TypeOK
  <2>4. rep' \in [Keyboards -> Keys \cup {NoKey}]  BY <1>6, <2>1 DEF Unplug, SynDropped, TypeOK
  <2>5. app' \in [Keyboards -> SUBSET Keys]  BY <1>6, <2>1 DEF Unplug, SynDropped, TypeOK
  <2>6. lost' \subseteq Keys  BY <1>6, <2>1 DEF Unplug, SynDropped, TypeOK
  <2>7. UNCHANGED <<config, umlautMap, active>>  BY <1>6 DEF Unplug, SynDropped
  <2> QED BY <2>2, <2>3, <2>4, <2>5, <2>6, <2>7 DEF TypeOK, IsUmlautMap
<1> QED BY <1>3, <1>4, <1>5, <1>6

\* Every member of the engine and of its surroundings keeps its type: no cycle
\* index, timer or mapping ever leaves its range.
THEOREM TypeCorrect == Spec => []TypeOK
<1>1. Init => TypeOK
  <2> SUFFICES ASSUME Init PROVE TypeOK  OBVIOUS
  <2>1. config \in EngineConfig  BY EngineAssumption DEF Init, EngineAssumption
  <2>2. active \in ProfileNames
    <3>1. ProfileList \in Seq([name: STRING, favorite: BOOLEAN]) /\ ProfileList # <<>>
      BY EngineAssumption DEF EngineAssumption
    <3>2. 1 \in DOMAIN ProfileList  BY <3>1
    <3> QED BY <3>2 DEF Init, ProfileNames
  <2>3. IsUmlautMap(ProfileMap[active])  BY <2>2, EngineAssumption DEF EngineAssumption
  <2>4. IsUmlautMap(umlautMap)  BY <2>3, RuntimeMapType DEF Init
  <2>5. eng \in EngineState  BY IdleType, ApplyUsageTrackingType DEF Init
  <2> QED BY <2>1, <2>2, <2>4, <2>5 DEF Init, TypeOK, NoKey
<1>2. TypeOK /\ [Next]_vars => TypeOK'
  <2> SUFFICES ASSUME TypeOK, [Next]_vars PROVE TypeOK'  OBVIOUS
  <2>1. CASE UNCHANGED vars  BY <2>1 DEF vars, TypeOK, IsUmlautMap
  <2>2. CASE Next  BY <2>2, PressType, ReleaseType, RepeatType, TimerType, WorldType DEF Next
  <2> QED BY <2>1, <2>2
<1> QED BY <1>1, <1>2, PTL DEF Spec

-----------------------------------------------------------------------------
(***************************************************************************)
(* One gesture at a time, and no key stuck or swallowed by mistake, for    *)
(* every layout, set of mappings and profiles, with reloads, as long as    *)
(* there is one keyboard that loses no event (module Engine shows what     *)
(* happens otherwise, see the run unplug).                                 *)
(*                                                                         *)
(* The argument: a release has at most one owner (OwnerShape), every owner *)
(* waits for a key that is held and that the application never saw, and    *)
(* the key the kernel repeats is the last one pressed, so that the repeats *)
(* of a committed key never meet an open gesture (LastPressed).            *)
(***************************************************************************)

\* The keyboard and the settings the theorems are about: one keyboard, no app
\* filter, Alt leaders not combined with leaders that repeat, and leaders other
\* than Alt that are no modifiers ("a modifier never becomes part of a leader",
\* CustomLeaderRow.qml:57).
SteadySettings(c) ==
  /\ ~c.whitelist
  /\ ~(c.leaderAutoRepeat /\ (c.leader.alt \/ c.leader.altGr))
  /\ \A k \in Keys : k \in c.leader.builtIn \/ k = c.leader.custom1 \/ k = c.leader.custom2
                       => ~IsModifierSym(k)
OneSteadyKeyboard ==
  /\ \E kb : Keyboards = {kb}
  /\ Unreliable = {}
  /\ \A c \in Configs : SteadySettings(c)
  /\ \A r \in Reloads : SteadySettings(r.config)

Owned(s) == ~(Waiting(s) /\ Cycling(s)) /\ OwnerShape(s)

\* The keys whose release is waited for.
Held(s) == {s.waitingKeyCode, s.committedCode, s.consumedAltCode} \ {NoKey}

\* The members of the record that decide who owns a release.
Same(s, t) ==
  /\ t.waitingKey = s.waitingKey /\ t.waitingKeyCode = s.waitingKeyCode
  /\ t.inputKeyPressed = s.inputKeyPressed /\ t.cyclingInput = s.cyclingInput
  /\ t.committedCode = s.committedCode /\ t.consumedAltCode = s.consumedAltCode

\* t has no gesture and the same armed releases as s.
Ended(s, t) ==
  /\ t.waitingKey = NoText /\ t.waitingKeyCode = NoKey /\ t.inputKeyPressed = FALSE
  /\ t.cyclingInput = NoText
  /\ t.committedCode = s.committedCode /\ t.consumedAltCode = s.consumedAltCode

Safe ==
  /\ TypeOK /\ SteadySettings(config)
  /\ OneGesture /\ OneOwner /\ SwallowedAreHeld /\ NoStuckKeys

-----------------------------------------------------------------------------
(* Which helpers leave the owners alone *)

\* With the same owners everything about them is the same.
LEMMA SameOwners ==
  ASSUME NEW s, NEW t, Same(s, t)
  PROVE  /\ Waiting(t) <=> Waiting(s)
         /\ Cycling(t) <=> Cycling(s)
         /\ GestureActive(t) <=> GestureActive(s)
         /\ Owned(s) => Owned(t)
         /\ Held(t) = Held(s)
BY DEF Same, Waiting, Cycling, GestureActive, Owned, OwnerShape, Held

\* Sameness composes.
LEMMA SameTransitive ==
  ASSUME NEW s, NEW t, NEW u, Same(s, t), Same(t, u)
  PROVE  Same(s, u)
BY DEF Same

\* Outputs, decisions and timers own no release.
LEMMA SettersFrame ==
  ASSUME NEW s \in EngineState
  PROVE  /\ Same(s, Fresh(s))
         /\ Same(s, Consume(s)) /\ Consume(s).decision = "Consume"
         /\ Same(s, Forward(s)) /\ Forward(s).decision = "Forward"
         /\ Same(s, CancelGestureTimers(s))
<1>1. Same(s, Fresh(s))  BY DEF Same, Fresh, EngineState
<1>2. Same(s, Consume(s)) /\ Consume(s).decision = "Consume"  BY DEF Same, Consume, EngineState
<1>3. Same(s, Forward(s)) /\ Forward(s).decision = "Forward"  BY DEF Same, Forward, EngineState
<1>4. Same(s, CancelGestureTimers(s))  BY DEF Same, CancelGestureTimers, EngineState
<1> QED BY <1>1, <1>2, <1>3, <1>4

\* Neither does the overlay.
LEMMA OverlayFrame ==
  ASSUME NEW s \in EngineState
  PROVE  /\ Same(s, OverlayHideAll(s))
         /\ Same(s, HideTriggerOverlay(s))
         /\ \A v \in Seq(Variants), i \in Int :
              /\ Same(s, OverlayShowVariants(s, v, i))
              /\ Same(s, FlashCommitOverlay(s, v))
         /\ \A input \in Inputs \cup {NoText}, v \in Seq(Variants) :
              Same(s, ShowGestureOverlay(s, input, v))
<1>1. ASSUME NEW t \in EngineState, NEW v, NEW j
      PROVE  Same(t, OverlayShowVariants(t, v, j))
  BY DEF OverlayShowVariants, Same, EngineState
<1>2. ASSUME NEW t \in EngineState PROVE Same(t, OverlayHideAll(t))
  BY DEF OverlayHideAll, Same, EngineState
<1>3. ASSUME NEW t \in EngineState, NEW n PROVE Same(t, [t EXCEPT !.overlayShowTimer = n])
  BY DEF Same, EngineState
<1>4. [s EXCEPT !.overlayShowTimer = NoShow] \in EngineState
  BY NoShowType
<1>5. Same(s, HideTriggerOverlay(s))
  BY <1>2, <1>3, <1>4, SameTransitive DEF HideTriggerOverlay
<1>6. ASSUME NEW t \in EngineState, NEW b PROVE Same(t, [t EXCEPT !.overlayHideTimer = b])
  BY DEF Same, EngineState
<1>7. ASSUME NEW v \in Seq(Variants) PROVE Same(s, FlashCommitOverlay(s, v))
  <2> DEFINE t == [s EXCEPT !.overlayShowTimer = NoShow]
             u == OverlayShowVariants(t, v, 0)
  <2>1. u \in EngineState  BY <1>4, OverlayShowVariantsType
  <2>2. Same(s, t) /\ Same(t, u)  BY <1>1, <1>3, <1>4
  <2>3. Same(u, [u EXCEPT !.overlayHideTimer = TRUE])
    <3> HIDE DEF u
    <3> QED BY <1>6, <2>1
  <2> HIDE DEF t, u
  <2>4. FlashCommitOverlay(s, v) = [u EXCEPT !.overlayHideTimer = TRUE]
    BY DEF FlashCommitOverlay, t, u
  <2> QED BY <2>2, <2>3, <2>4, SameTransitive
<1>8. ASSUME NEW input, NEW v PROVE Same(s, ShowGestureOverlay(s, input, v))
  <2> DEFINE t == [s EXCEPT !.overlayHideTimer = FALSE]
             n == [due |-> EffectiveWindow(config.delay, input).min, input |-> input,
                   variants |-> v]
  <2>1. t \in EngineState  BY DEF EngineState
  <2>2. Same(s, t)  BY <1>6
  <2>3. Same(t, OverlayShowVariants(t, v, -1))
    <3> HIDE DEF t
    <3> QED BY <1>1, <2>1
  <2>4. Same(t, [t EXCEPT !.overlayShowTimer = n])
    <3> HIDE DEF t, n
    <3> QED BY <1>3, <2>1
  <2>5. Same(s, s)  BY DEF Same
  <2>6. \/ ShowGestureOverlay(s, input, v) = s
        \/ ShowGestureOverlay(s, input, v) = OverlayShowVariants(t, v, -1)
        \/ ShowGestureOverlay(s, input, v) = [t EXCEPT !.overlayShowTimer = n]
    BY DEF ShowGestureOverlay
  <2> HIDE DEF t, n
  <2> QED BY <2>2, <2>3, <2>4, <2>5, <2>6, SameTransitive
<1> QED BY <1>1, <1>2, <1>5, <1>7, <1>8

\* Nor a committed text.
LEMMA CommitFrame ==
  ASSUME Config, NEW s \in EngineState, NEW input \in Inputs \cup {NoText},
         NEW k \in Keys \cup {NoKey}, NEW v \in STRING
  PROVE  Same(s, CommitText(s, k, v)) /\ Same(s, CommitVariant(s, input, v))
<1>1. ASSUME NEW c \in Keys \cup {NoKey} PROVE Same(s, CommitText(s, c, v))
  BY DEF CommitText, Same, EngineState
<1> DEFINE t == CommitText(s, s.waitingKeyCode, v)
<1>2. s.waitingKeyCode \in Keys \cup {NoKey}  BY DEF EngineState
<1>3. t \in EngineState  BY <1>2, CommitTextType
<1>4. ASSUME NEW u, NEW d PROVE Same(t, [t EXCEPT !.used = u, !.usageDirty = d])
  <2> HIDE DEF t
  <2> QED BY <1>3 DEF Same, EngineState
<1>5. Same(s, CommitVariant(s, input, v))
  <2> DEFINE u == [t EXCEPT !.used = IF config.sortByFrequency THEN input ELSE NoText,
                            !.usageDirty = @ \/ config.sortByFrequency]
  <2>1. CommitVariant(s, input, v) = u  BY DEF CommitVariant
  <2>2. Same(t, u)
    <3> HIDE DEF t
    <3> QED BY <1>4
  <2> QED BY <1>1, <1>2, <2>1, <2>2, SameTransitive
<1> QED BY <1>1, <1>5

-----------------------------------------------------------------------------
(* Which helpers end, open or continue a gesture *)

\* Committing the plain character ends a waiting gesture and changes no other.
LEMMA CommitPendingKeyEnds ==
  ASSUME NEW s \in EngineState
  PROVE  LET t == CommitPendingKey(s) IN
         /\ ~Waiting(s) => t = s
         /\ Waiting(s) => /\ t.waitingKey = NoText /\ t.waitingKeyCode = NoKey
                          /\ t.inputKeyPressed = FALSE
                          /\ t.cyclingInput = s.cyclingInput
                          /\ t.committedCode = s.committedCode
                          /\ t.consumedAltCode = s.consumedAltCode
<1> DEFINE a == HideTriggerOverlay(s)
           b == CommitText(a, s.waitingKeyCode, s.waitingKey)
           c == ResetWaiting(b)
<1>1. s.waitingKeyCode \in Keys \cup {NoKey} /\ s.waitingKey \in Inputs \cup {NoText}
  BY DEF EngineState
<1>2. a \in EngineState /\ Same(s, a)  BY HideTriggerOverlayType, OverlayFrame DEF NoText
<1>3. s.waitingKey \in STRING  BY <1>1, TextTypes
<1>4. b \in EngineState
  <2> HIDE DEF a
  <2> QED BY <1>1, <1>2, <1>3, CommitTextType
<1>5. Same(a, b)
  <2> HIDE DEF a
  <2> QED BY <1>1, <1>2, <1>3 DEF CommitText, Same, EngineState
<1>6. Same(s, b)
  <2> HIDE DEF a, b
  <2> QED BY <1>2, <1>5, SameTransitive
<1>7. c \in EngineState  BY <1>4, SettersType
<1>8. /\ c.waitingKey = NoText /\ c.waitingKeyCode = NoKey /\ c.inputKeyPressed = FALSE
      /\ c.cyclingInput = b.cyclingInput
      /\ c.committedCode = b.committedCode /\ c.consumedAltCode = b.consumedAltCode
  <2> HIDE DEF b
  <2> QED BY <1>4 DEF ResetWaiting, EngineState
<1>9. Same(c, [c EXCEPT !.windowTimer = NoTimer, !.autoSelectTimer = NoTimer])
  <2> HIDE DEF c
  <2> QED BY <1>7 DEF Same, EngineState
<1>10. CommitPendingKey(s) = IF ~Waiting(s) THEN s
                             ELSE [c EXCEPT !.windowTimer = NoTimer, !.autoSelectTimer = NoTimer]
  BY DEF CommitPendingKey
<1> HIDE DEF a, b, c
<1> QED BY <1>6, <1>8, <1>9, <1>10 DEF Same

\* Committing the selected variant ends the cycle.
LEMMA CommitCyclingValueEnds ==
  ASSUME Config, NEW s \in EngineState
  PROVE  LET t == CommitCyclingValue(s) IN
         /\ ~Cycling(s) => t = s
         /\ Cycling(s) => Ended(s, t)
<1> DEFINE v == VariantsFor(s.cyclingInput)
           a == IF s.cyclingIndex < Len(v)
                THEN CommitVariant(s, s.cyclingInput, v[s.cyclingIndex + 1]) ELSE s
           b == ResetCycling(ResetWaiting(a))
<1>1. s.cyclingInput \in Inputs \cup {NoText} /\ s.cyclingIndex \in Nat  BY DEF EngineState
<1>2. ASSUME s.cyclingIndex < Len(v) PROVE v[s.cyclingIndex + 1] \in STRING
  <2>1. Len(v) \in Nat /\ \A i \in 1..Len(v) : v[i] \in STRING
    BY VariantsForType DEF Config
  <2> HIDE DEF v
  <2> QED BY <1>1, <1>2, <2>1
<1>3. a \in EngineState  BY <1>1, <1>2, CommitVariantType
<1>4. Same(s, a)
  <2>1. Same(s, s)  BY DEF Same
  <2>2. NoKey \in Keys \cup {NoKey}  OBVIOUS
  <2> HIDE DEF v
  <2> QED BY <1>1, <1>2, <2>1, <2>2, CommitFrame
<1>5. b \in EngineState
  <2> HIDE DEF a
  <2> QED BY <1>3, SettersType
<1>6. Ended(a, b)
  <2> HIDE DEF a
  <2> QED BY <1>3 DEF Ended, ResetCycling, ResetWaiting, EngineState
<1>7. Same(b, OverlayHideAll(b))
  <2> HIDE DEF b
  <2> QED BY <1>5, OverlayFrame DEF NoText
<1>8. CommitCyclingValue(s) = IF ~Cycling(s) THEN s ELSE OverlayHideAll(b)
  BY DEF CommitCyclingValue
<1> HIDE DEF a, b
<1> QED BY <1>4, <1>6, <1>7, <1>8 DEF Same, Ended

\* The flag of a typed record is a truth value.
LEMMA EngineStateFields ==
  ASSUME NEW s \in EngineState PROVE s.inputKeyPressed \in BOOLEAN
BY DEF EngineState

\* Whichever is open, committing the gesture ends it.
LEMMA CommitGestureEnds ==
  ASSUME Config, NEW s \in EngineState, Owned(s)
  PROVE  Ended(s, CommitGesture(s))
<1> DEFINE a == CommitPendingKey(s)
           t == CommitCyclingValue(a)
<1>1. a \in EngineState  BY CommitPendingKeyType
<1>2. /\ ~Cycling(a) => t = a
      /\ Cycling(a) => Ended(a, t)
  BY <1>1, CommitCyclingValueEnds
<1>3. CASE Waiting(s)
  <2>1. ~Cycling(s)  BY <1>3 DEF Owned
  <2>2. Ended(s, a)  BY <1>3, <2>1, CommitPendingKeyEnds DEF Ended, Cycling
  <2>3. ~Cycling(a)  BY <2>2 DEF Ended, Cycling
  <2> QED BY <1>2, <2>2, <2>3 DEF CommitGesture
<1>4. CASE ~Waiting(s)
  <2>1. a = s  BY <1>4, CommitPendingKeyEnds
  <2>2. CASE Cycling(s)  BY <1>2, <2>1, <2>2 DEF CommitGesture
  <2>3. CASE ~Cycling(s)
    <3>1. Ended(s, s)  BY <1>4, <2>3, EngineStateFields
            DEF Ended, Owned, OwnerShape, GestureActive, Waiting, Cycling
    <3> QED BY <1>2, <2>1, <2>3, <3>1 DEF CommitGesture
  <2> QED BY <2>2, <2>3
<1> QED BY <1>3, <1>4

\* A record with no gesture owns no more than the releases that are armed.
LEMMA EndedOwners ==
  ASSUME NEW s, NEW t, Owned(s), Ended(s, t)
  PROVE  Owned(t) /\ ~GestureActive(t) /\ Held(t) \subseteq Held(s)
BY DEF Ended, Owned, OwnerShape, GestureActive, Waiting, Cycling, Held

\* Committing the plain character counts no variant.
LEMMA PendingUncounted ==
  ASSUME NEW s \in EngineState
  PROVE  CommitPendingKey(s).used = s.used /\ CommitExpired(s).used = s.used
<1> DEFINE n == [s EXCEPT !.overlayShowTimer = NoShow]
           h == HideTriggerOverlay(s)
           c == CommitText(h, s.waitingKeyCode, s.waitingKey)
           w == ResetWaiting(c)
           p == CommitPendingKey(s)
<1>1. n \in EngineState /\ n.used = s.used
  <2>1. n \in EngineState  BY NoShowType
  <2> QED BY <2>1 DEF EngineState
<1>2. "used" \in DOMAIN h /\ h.used = s.used
  <2>1. h = n \/ h = OverlayHideAll(n)  BY DEF HideTriggerOverlay
  <2> HIDE DEF n, h
  <2> QED BY <1>1, <2>1 DEF OverlayHideAll, EngineState
<1> HIDE DEF h
<1>3. "used" \in DOMAIN c /\ c.used = s.used  BY <1>2 DEF CommitText
<1> HIDE DEF c
<1>4. "used" \in DOMAIN w /\ w.used = s.used  BY <1>3 DEF ResetWaiting
<1>5. p = s \/ p = [w EXCEPT !.windowTimer = NoTimer, !.autoSelectTimer = NoTimer]
  BY DEF CommitPendingKey, h, c
<1> HIDE DEF w, p
<1>6. "used" \in DOMAIN p /\ p.used = s.used  BY <1>4, <1>5 DEF EngineState
<1>7. CommitExpired(s) = p \/ CommitExpired(s) = ArmCommitted(p, s.waitingKeyCode, FALSE)
  BY DEF CommitExpired, p
<1>8. CommitExpired(s).used = s.used  BY <1>6, <1>7 DEF ArmCommitted
<1> QED BY <1>6, <1>8 DEF p

\* An elapsed window hands the key's release over to the committed key.
LEMMA CommitExpiredOwners ==
  ASSUME NEW s \in EngineState, Owned(s), Waiting(s)
  PROVE  LET t == CommitExpired(s) IN
         Owned(t) /\ ~GestureActive(t) /\ Held(t) \subseteq Held(s)
<1> DEFINE a == CommitPendingKey(s)
           t == ArmCommitted(a, s.waitingKeyCode, FALSE)
<1>1. s.inputKeyPressed /\ ~Cycling(s) BY DEF Owned, OwnerShape, GestureActive
<1>2. Ended(s, a)  BY <1>1, CommitPendingKeyEnds DEF Ended, Cycling
<1>3. a \in EngineState  BY CommitPendingKeyType
<1>4. /\ t.waitingKey = NoText /\ t.waitingKeyCode = NoKey /\ t.inputKeyPressed = FALSE
      /\ t.cyclingInput = NoText
      /\ t.committedCode = s.waitingKeyCode /\ t.consumedAltCode = s.consumedAltCode
  <2> HIDE DEF a
  <2> QED BY <1>2, <1>3 DEF Ended, ArmCommitted, EngineState
<1>5. CommitExpired(s) = t  BY <1>1 DEF CommitExpired
<1> HIDE DEF t
<1> QED BY <1>4, <1>5 DEF Owned, OwnerShape, GestureActive, Waiting, Cycling, Held

\* A key that is withheld owns its release, beside the releases that are armed.
LEMMA StartGestureOwners ==
  ASSUME Config, NEW s \in EngineState, NEW k \in Keys, KeyText[k] \in Inputs,
         NEW v \in Seq(Variants), Owned(s), ~GestureActive(s), s.committedCode # k
  PROVE  LET t == StartGesture(s, k, v) IN
         /\ Owned(t) /\ Held(t) \subseteq Held(s) \cup {k}
         /\ t.committedCode = s.committedCode
         /\ t.decision = "Consume"
<1> DEFINE w == EffectiveWindow(config.delay, KeyText[k])
           wt == IF w.unlimited THEN NoTimer ELSE w.max
           at == IF config.autoSelect THEN config.autoSelectMs ELSE NoTimer
           a == [s EXCEPT !.waitingKey = KeyText[k], !.waitingKeyCode = k,
                          !.inputKeyPressed = TRUE, !.elapsed = 0,
                          !.windowTimer = wt, !.autoSelectTimer = at]
           b == ShowGestureOverlay(a, KeyText[k], v)
<1>1. wt \in Nat /\ at \in Nat
  BY EffectiveWindowType DEF Config, EngineConfig, NoTimer
<1>2. a \in EngineState
  <2> HIDE DEF wt, at
  <2> QED BY <1>1 DEF EngineState
<1>3. /\ a.waitingKey = KeyText[k] /\ a.waitingKeyCode = k /\ a.inputKeyPressed = TRUE
      /\ a.cyclingInput = s.cyclingInput
      /\ a.committedCode = s.committedCode /\ a.consumedAltCode = s.consumedAltCode
  <2> HIDE DEF wt, at
  <2> QED BY DEF EngineState
<1>4. b \in EngineState
  <2> HIDE DEF a
  <2> QED BY <1>2, ShowGestureOverlayType
<1>5. Same(a, b)
  <2> HIDE DEF a
  <2>1. 0 \in Int  OBVIOUS
  <2> QED BY <1>2, <2>1, OverlayFrame
<1>6. StartGesture(s, k, v) = Consume(b)  BY DEF StartGesture
<1>7. Same(b, Consume(b)) /\ Consume(b).decision = "Consume"
  <2> HIDE DEF b
  <2> QED BY <1>4, SettersFrame
<1>8. KeyText[k] # NoText /\ ~IsModifierSym(k) /\ k # NoKey
  BY EngineAssumption, KeysAssumption DEF EngineAssumption, KeysAssumption, NoText
<1> DEFINE t == Consume(b)
<1>9. /\ t.waitingKey = KeyText[k] /\ t.waitingKeyCode = k /\ t.inputKeyPressed = TRUE
      /\ t.cyclingInput = s.cyclingInput
      /\ t.committedCode = s.committedCode /\ t.consumedAltCode = s.consumedAltCode
  <2> HIDE DEF a, b
  <2> QED BY <1>3, <1>5, <1>7 DEF Same
<1> HIDE DEF t
<1>10. Owned(t) /\ Held(t) \subseteq Held(s) \cup {k}
  BY <1>8, <1>9 DEF Owned, OwnerShape, GestureActive, Waiting, Cycling, Held
<1> QED BY <1>6, <1>7, <1>9, <1>10 DEF t

\* Opening the cycle keeps the key, its release and the armed releases.
LEMMA EnterCyclingOwners ==
  ASSUME Config, NEW s \in EngineState, NEW input \in Inputs \cup {NoText}, NEW i \in Nat,
         Owned(s), Waiting(s), input = s.waitingKey
  PROVE  LET t == EnterCycling(s, input, i) IN
         Owned(t) /\ Held(t) = Held(s) /\ t.committedCode = s.committedCode
<1> DEFINE a == [s EXCEPT !.cyclingInput = input, !.cyclingIndex = i, !.waitingKey = NoText]
           t == OverlayShowVariants(a, VariantsFor(input), i)
<1>1. a \in EngineState  BY ZenonT(60) DEF EngineState, NoText
<1>2. Same(a, t)
  <2>1. VariantsFor(input) \in Seq(Variants)  BY VariantsForType DEF Config
  <2> HIDE DEF a
  <2> QED BY <1>1, <2>1, OverlayFrame
<1>3. /\ a.waitingKey = NoText /\ a.waitingKeyCode = s.waitingKeyCode
      /\ a.inputKeyPressed = s.inputKeyPressed /\ a.cyclingInput = input
      /\ a.committedCode = s.committedCode /\ a.consumedAltCode = s.consumedAltCode
  BY DEF EngineState
<1>4. EnterCycling(s, input, i) = s \/ EnterCycling(s, input, i) = t
  BY DEF EnterCycling
<1>5. Owned(t) /\ Held(t) = Held(s) /\ t.committedCode = s.committedCode
  <2> HIDE DEF a, t
  <2> QED BY <1>2, <1>3 DEF Same, Owned, OwnerShape, GestureActive, Waiting, Cycling, Held
<1> HIDE DEF t
<1> QED BY <1>4, <1>5

\* Swallowing a leader arms the release of an Alt.
LEMMA ConsumeLeaderOwners ==
  ASSUME NEW s \in EngineState, NEW k \in Keys, Owned(s)
  PROVE  LET t == ConsumeLeader(s, k) IN
         /\ Owned(t) /\ t.decision = "Consume"
         /\ Held(t) \subseteq Held(s) \cup (IF IsAltLeaderSym(k) THEN {k} ELSE {})
         /\ GestureActive(t) <=> GestureActive(s)
         /\ t.committedCode = s.committedCode
<1> DEFINE c == IF IsAltLeaderSym(k) THEN k ELSE s.consumedAltCode
           a == [s EXCEPT !.consumedAltCode = c]
           t == Consume(a)
<1>1. c \in Keys \cup {NoKey}  BY DEF EngineState
<1>2. a \in EngineState
  <2> HIDE DEF c
  <2> QED BY <1>1 DEF EngineState
<1>3. /\ a.waitingKey = s.waitingKey /\ a.waitingKeyCode = s.waitingKeyCode
      /\ a.inputKeyPressed = s.inputKeyPressed /\ a.cyclingInput = s.cyclingInput
      /\ a.committedCode = s.committedCode /\ a.consumedAltCode = c
  <2> HIDE DEF c
  <2> QED BY DEF EngineState
<1>4. Same(a, t) /\ t.decision = "Consume"
  <2> HIDE DEF a
  <2> QED BY <1>2, SettersFrame
<1>5. IsAltLeaderSym(k) => IsModifierSym(k)
  BY DEF IsAltLeaderSym, IsAltSym, IsAltGrSym, IsModifierSym
<1>6. ConsumeLeader(s, k) = t  BY DEF ConsumeLeader
<1>7. /\ Owned(t) /\ Held(t) \subseteq Held(s) \cup (IF IsAltLeaderSym(k) THEN {k} ELSE {})
      /\ GestureActive(t) <=> GestureActive(s)
      /\ t.committedCode = s.committedCode
  <2> HIDE DEF a, t
  <2> QED BY <1>3, <1>4, <1>5
          DEF Same, Owned, OwnerShape, GestureActive, Waiting, Cycling, Held
<1> HIDE DEF t
<1> QED BY <1>4, <1>6, <1>7

\* A step of the cycle changes its index only.
LEMMA StepCyclingFrame ==
  ASSUME Config, NEW s \in EngineState, NEW k \in Keys, VariantsFor(s.cyclingInput) # <<>>
  PROVE  Same(s, StepCycling(s, k))
<1> DEFINE n == (s.cyclingIndex + LeaderStep(config.leader, k)) % Len(VariantsFor(s.cyclingInput))
           a == [s EXCEPT !.cyclingIndex = n]
<1>1. VariantsFor(s.cyclingInput) \in Seq(Variants)  BY VariantsForType DEF Config
<1>2. n \in Nat
  <2>1. Len(VariantsFor(s.cyclingInput)) \in Nat /\ Len(VariantsFor(s.cyclingInput)) > 0
    BY VariantsForType DEF Config
  <2>2. s.cyclingIndex + LeaderStep(config.leader, k) \in Int  BY DEF EngineState, LeaderStep
  <2> QED BY <2>1, <2>2, ModuloType
<1>3. a \in EngineState /\ Same(s, a)
  <2> HIDE DEF n
  <2> QED BY <1>2 DEF EngineState, Same
<1>4. Same(a, OverlayShowVariants(a, VariantsFor(s.cyclingInput), n))
  <2> HIDE DEF a, n
  <2> QED BY <1>1, <1>2, <1>3, OverlayFrame
<1>5. Same(s, s)  BY DEF Same
<1>6. StepCycling(s, k) = s \/ StepCycling(s, k) = OverlayShowVariants(a, VariantsFor(s.cyclingInput), n)
  BY DEF StepCycling
<1> HIDE DEF a, n
<1> QED BY <1>3, <1>4, <1>5, <1>6, SameTransitive

\* Opening and stepping a cycle counts no variant.
LEMMA CycleUncounted ==
  ASSUME NEW s \in EngineState, NEW k
  PROVE  /\ \A input, i : EnterCycling(s, input, i).used = s.used
         /\ StepCycling(s, k).used = s.used
<1>1. ASSUME NEW t, "used" \in DOMAIN t, NEW v, NEW i
      PROVE  OverlayShowVariants(t, v, i).used = t.used
  BY <1>1 DEF OverlayShowVariants
<1>2. "used" \in DOMAIN s  BY DEF EngineState
<1>3. ASSUME NEW input, NEW i PROVE EnterCycling(s, input, i).used = s.used
  <2> DEFINE a == [s EXCEPT !.cyclingInput = input, !.cyclingIndex = i, !.waitingKey = NoText]
  <2>1. "used" \in DOMAIN a /\ a.used = s.used  BY <1>2
  <2>2. \/ EnterCycling(s, input, i) = s
        \/ EnterCycling(s, input, i) = OverlayShowVariants(a, VariantsFor(input), i)
    BY DEF EnterCycling
  <2> HIDE DEF a
  <2> QED BY <1>1, <2>1, <2>2
<1>4. StepCycling(s, k).used = s.used
  <2> DEFINE v == VariantsFor(s.cyclingInput)
             n == (s.cyclingIndex + LeaderStep(config.leader, k)) % Len(v)
             a == [s EXCEPT !.cyclingIndex = n]
  <2>1. "used" \in DOMAIN a /\ a.used = s.used  BY <1>2
  <2>2. StepCycling(s, k) = s \/ StepCycling(s, k) = OverlayShowVariants(a, v, n)
    BY DEF StepCycling
  <2> HIDE DEF a, v, n
  <2> QED BY <1>1, <2>1, <2>2
<1> QED BY <1>3, <1>4

\* The first leader opens the cycle or hands the key's release to the committed
\* key, whose variant it committed.
LEMMA OpenGestureOwners ==
  ASSUME Config, NEW s \in EngineState, NEW k \in Keys,
         Owned(s), Waiting(s), VariantsFor(s.waitingKey) # <<>>
  PROVE  LET t == OpenGesture(s, k) IN
         /\ Owned(t) /\ Held(t) \subseteq Held(s)
         /\ GestureActive(t) => t.committedCode = s.committedCode
         /\ Cycling(t) => t.used = s.used
<1> DEFINE input    == s.waitingKey
           variants == VariantsFor(input)
           start    == IF LeaderStep(config.leader, k) < 0 THEN Len(variants) - 1 ELSE 0
           f        == IF s.overlayVisible THEN FlashCommitOverlay(s, variants)
                       ELSE HideTriggerOverlay(s)
           c        == CommitVariant(f, input, variants[1])
           a        == ArmCommitted(c, s.waitingKeyCode, TRUE)
           single   == ResetWaiting(a)
           e        == EnterCycling(s, input, start)
           t        == IF Len(variants) > 1 THEN e ELSE single
<1>1. input \in Inputs \cup {NoText} /\ s.waitingKeyCode \in Keys \cup {NoKey}
  BY DEF EngineState
<1>2. /\ Len(variants) \in Nat /\ Len(variants) > 0
      /\ variants[1] \in STRING /\ variants \in Seq(Variants)
  <2>1. /\ Len(variants) \in Nat /\ Len(variants) > 0 /\ variants \in Seq(Variants)
        /\ \A i \in 1..Len(variants) : variants[i] \in STRING
    BY VariantsForType DEF Config
  <2> HIDE DEF variants
  <2> QED BY <2>1
<1>3. start \in Nat
  <2> HIDE DEF variants
  <2> QED BY <1>2
<1>4. e \in EngineState /\ Owned(e) /\ Held(e) = Held(s) /\ e.committedCode = s.committedCode
  <2> HIDE DEF start
  <2> QED BY <1>1, <1>3, EnterCyclingOwners, EnterCyclingType
<1>5. f \in EngineState /\ Same(s, f)
  <2>1. 0 \in Int  OBVIOUS
  <2> HIDE DEF variants
  <2>2. FlashCommitOverlay(s, variants) \in EngineState /\ HideTriggerOverlay(s) \in EngineState
    BY <1>2, FlashCommitOverlayType, HideTriggerOverlayType
  <2> QED BY <1>2, <2>1, <2>2, OverlayFrame
<1>6. c \in EngineState /\ Same(f, c)
  <2>1. NoKey \in Keys \cup {NoKey}  OBVIOUS
  <2> HIDE DEF f, variants, input
  <2> QED BY <1>1, <1>2, <1>5, <2>1, CommitVariantType, CommitFrame
<1>7. Same(s, c)
  <2> HIDE DEF f, c
  <2> QED BY <1>5, <1>6, SameTransitive
<1>8. /\ a \in EngineState
      /\ a.waitingKey = c.waitingKey /\ a.cyclingInput = c.cyclingInput
      /\ a.committedCode = s.waitingKeyCode /\ a.consumedAltCode = c.consumedAltCode
  <2> HIDE DEF c
  <2>1. a \in EngineState  BY <1>1, <1>6, ArmCommittedType
  <2> QED BY <1>6, <2>1 DEF ArmCommitted, EngineState
<1>9. /\ single \in EngineState
      /\ single.waitingKey = NoText /\ single.waitingKeyCode = NoKey
      /\ single.inputKeyPressed = FALSE /\ single.cyclingInput = a.cyclingInput
      /\ single.committedCode = a.committedCode /\ single.consumedAltCode = a.consumedAltCode
  <2> HIDE DEF a
  <2>1. single \in EngineState  BY <1>8, SettersType
  <2> QED BY <1>8, <2>1 DEF ResetWaiting, EngineState
<1>10. Owned(single) /\ Held(single) \subseteq Held(s) /\ ~GestureActive(single)
  <2> HIDE DEF a, c, single
  <2> QED BY <1>7, <1>8, <1>9
          DEF Same, Owned, OwnerShape, GestureActive, Waiting, Cycling, Held
<1>11. /\ t \in EngineState /\ Owned(t) /\ Held(t) \subseteq Held(s)
       /\ GestureActive(t) => t.committedCode = s.committedCode
       /\ Cycling(t) => t.used = s.used
  <2>1. e.used = s.used  BY CycleUncounted
  <2> HIDE DEF e, single
  <2> QED BY <1>4, <1>9, <1>10, <2>1 DEF GestureActive
<1> DEFINE u == [t EXCEPT !.autoSelectTimer = NoTimer, !.windowTimer = NoTimer]
<1>12. Same(t, u) /\ u.used = t.used
  <2> HIDE DEF t
  <2> QED BY <1>11 DEF Same, EngineState
<1>13. OpenGesture(s, k) = u  BY DEF OpenGesture
<1>14. u.committedCode = t.committedCode
  <2> HIDE DEF t, u
  <2> QED BY <1>12 DEF Same
<1> HIDE DEF t, u
<1> QED BY <1>11, <1>12, <1>13, <1>14, SameOwners

\* What a leader does: it ends, opens or steps the gesture; a swallowed Alt is the
\* only key it adds to those whose release is waited for.
LEMMA HandleLeaderOwners ==
  ASSUME Config, NEW s \in EngineState, NEW k \in Keys, Owned(s)
  PROVE  LET t == HandleLeader(s, k) IN
         /\ Owned(t) /\ t.decision \in {"Consume", "Forward"}
         /\ Held(t) \subseteq Held(s) \cup
              (IF t.decision = "Consume" /\ IsAltLeaderSym(k) THEN {k} ELSE {})
         /\ GestureActive(t) => t.committedCode = s.committedCode
<1> DEFINE a == [s EXCEPT !.overlayShowTimer = NoShow]
           Post(t) == /\ Owned(t) /\ t.decision \in {"Consume", "Forward"}
                      /\ Held(t) \subseteq Held(s) \cup
                           (IF t.decision = "Consume" /\ IsAltLeaderSym(k) THEN {k} ELSE {})
                      /\ GestureActive(t) => t.committedCode = s.committedCode
<1>1. a \in EngineState /\ Same(s, a)
  <2>1. a \in EngineState  BY NoShowType
  <2> QED BY <2>1 DEF EngineState, Same
<1> HIDE DEF a
<1>2. /\ Owned(a) /\ Held(a) = Held(s) /\ a.committedCode = s.committedCode
      /\ GestureActive(a) <=> GestureActive(s)
  BY <1>1, SameOwners DEF Same
<1>3. ASSUME Waiting(a)
      PROVE  Post(Forward(CommitPendingKey(ArmCommitted(a, a.waitingKeyCode, TRUE))))
  <2> DEFINE b == ArmCommitted(a, a.waitingKeyCode, TRUE)
             c == CommitPendingKey(b)
  <2>1. a.waitingKeyCode \in Keys \cup {NoKey}  BY <1>1 DEF EngineState
  <2>2. b \in EngineState  BY <1>1, <2>1, ArmCommittedType
  <2>3. /\ b.waitingKey = a.waitingKey /\ b.cyclingInput = a.cyclingInput
        /\ b.committedCode = a.waitingKeyCode /\ b.consumedAltCode = a.consumedAltCode
    BY <1>1 DEF ArmCommitted, EngineState
  <2> HIDE DEF b
  <2>4. Waiting(b)  BY <1>3, <2>3 DEF Waiting
  <2>5. c \in EngineState  BY <2>2, CommitPendingKeyType
  <2>6. /\ c.waitingKey = NoText /\ c.waitingKeyCode = NoKey /\ c.inputKeyPressed = FALSE
        /\ c.cyclingInput = a.cyclingInput
        /\ c.committedCode = a.waitingKeyCode /\ c.consumedAltCode = a.consumedAltCode
    BY <2>2, <2>3, <2>4, CommitPendingKeyEnds
  <2> HIDE DEF c
  <2>7. Owned(c) /\ ~GestureActive(c) /\ Held(c) \subseteq Held(a)
    BY <1>2, <1>3, <2>6 DEF Owned, OwnerShape, GestureActive, Waiting, Cycling, Held
  <2>8. Same(c, Forward(c)) /\ Forward(c).decision = "Forward"  BY <2>5, SettersFrame
  <2>9. Owned(Forward(c)) /\ ~GestureActive(Forward(c)) /\ Held(Forward(c)) = Held(c)
    BY <2>7, <2>8, SameOwners
  <2> QED BY <1>2, <2>7, <2>8, <2>9 DEF b, c
<1>4. ~(Cycling(a) /\ ~a.inputKeyPressed)
  BY <1>2 DEF Owned, OwnerShape, GestureActive
<1>5. ASSUME VariantsFor(a.cyclingInput) # <<>> PROVE Post(ConsumeLeader(StepCycling(a, k), k))
  <2> DEFINE b == StepCycling(a, k)
  <2>1. b \in EngineState /\ Same(a, b)  BY <1>1, <1>5, StepCyclingType, StepCyclingFrame
  <2> HIDE DEF b
  <2>2. Owned(b) /\ Held(b) = Held(a) /\ b.committedCode = a.committedCode
    BY <1>2, <2>1, SameOwners DEF Same
  <2>3. LET t == ConsumeLeader(b, k) IN
         /\ Owned(t) /\ t.decision = "Consume"
         /\ Held(t) \subseteq Held(b) \cup (IF IsAltLeaderSym(k) THEN {k} ELSE {})
         /\ GestureActive(t) <=> GestureActive(b)
         /\ t.committedCode = b.committedCode
    BY <2>1, <2>2, ConsumeLeaderOwners
  <2> QED BY <1>2, <2>2, <2>3 DEF b
<1>6. ASSUME Waiting(a), VariantsFor(a.waitingKey) # <<>>
      PROVE  Post(ConsumeLeader(OpenGesture(a, k), k))
  <2> DEFINE b == OpenGesture(a, k)
  <2>1. b \in EngineState  BY <1>1, <1>6, OpenGestureType
  <2>2. /\ Owned(b) /\ Held(b) \subseteq Held(a)
        /\ GestureActive(b) => b.committedCode = a.committedCode
    BY <1>1, <1>2, <1>6, OpenGestureOwners
  <2> HIDE DEF b
  <2>3. LET t == ConsumeLeader(b, k) IN
         /\ Owned(t) /\ t.decision = "Consume"
         /\ Held(t) \subseteq Held(b) \cup (IF IsAltLeaderSym(k) THEN {k} ELSE {})
         /\ GestureActive(t) <=> GestureActive(b)
         /\ t.committedCode = b.committedCode
    BY <2>1, <2>2, ConsumeLeaderOwners
  <2> QED BY <1>2, <2>2, <2>3 DEF b
<1>7. Post(Forward([a EXCEPT !.consumedAltCode = NoKey]))
  <2> DEFINE b == [a EXCEPT !.consumedAltCode = NoKey]
  <2>1. /\ b \in EngineState
        /\ b.waitingKey = a.waitingKey /\ b.waitingKeyCode = a.waitingKeyCode
        /\ b.inputKeyPressed = a.inputKeyPressed /\ b.cyclingInput = a.cyclingInput
        /\ b.committedCode = a.committedCode /\ b.consumedAltCode = NoKey
    BY ZenonT(60), <1>1 DEF EngineState, NoKey
  <2> HIDE DEF b
  <2>2. Owned(b) /\ Held(b) \subseteq Held(a)
    BY <1>2, <2>1 DEF Owned, OwnerShape, GestureActive, Waiting, Cycling, Held
  <2>3. Same(b, Forward(b)) /\ Forward(b).decision = "Forward"  BY <2>1, SettersFrame
  <2>4. Owned(Forward(b)) /\ Held(Forward(b)) = Held(b)  BY <2>2, <2>3, SameOwners
  <2>5. Forward(b).committedCode = s.committedCode  BY <1>2, <2>1, <2>3 DEF Same
  <2> QED BY <1>2, <2>2, <2>3, <2>4, <2>5 DEF b
<1>8. Post(HandleLeader(s, k))
  <2> HIDE DEF Post
  <2> QED BY <1>3, <1>4, <1>5, <1>6, <1>7 DEF HandleLeader, a
<1> QED BY <1>8

\* A profile switch ends the gesture; a shortcut that switches nothing changes
\* nothing.
LEMMA SwitchToProfileOwners ==
  ASSUME Config, NEW s \in EngineState, NEW name, Owned(s)
  PROVE  LET t == SwitchToProfile(s, name) IN
         /\ Owned(t) /\ Held(t) \subseteq Held(s)
         /\ GestureActive(t) => t.committedCode = s.committedCode
         /\ IsSwitch(name) => ~GestureActive(t)
<1> DEFINE c == IF Cycling(s) THEN CommitCyclingValue(s) ELSE CommitPendingKey(s)
           d == CancelGestureTimers(c)
           e == ResetCycling(ResetWaiting(d))
           t == [e EXCEPT !.panel = Profile, !.overlayVisible = TRUE, !.profileFlashTimer = TRUE]
<1>1. c \in EngineState  BY CommitCyclingValueType, CommitPendingKeyType
<1>2. c.committedCode = s.committedCode /\ c.consumedAltCode = s.consumedAltCode
  <2>1. CASE Cycling(s)  BY <2>1, CommitCyclingValueEnds DEF Ended
  <2>2. CASE ~Cycling(s)  BY <2>2, CommitPendingKeyEnds
  <2> QED BY <2>1, <2>2
<1> HIDE DEF c
<1>3. d \in EngineState /\ Same(c, d)  BY <1>1, SettersType, SettersFrame
<1> HIDE DEF d
<1>4. e \in EngineState  BY <1>3, SettersType
<1>5. Ended(d, e)  BY <1>3 DEF Ended, ResetCycling, ResetWaiting, EngineState
<1> HIDE DEF e
<1>6. Same(e, t)  BY <1>4 DEF Same, EngineState
<1>7. SwitchToProfile(s, name) = IF ~IsSwitch(name) THEN s ELSE t
  BY DEF SwitchToProfile, c, d, e
<1> HIDE DEF t
<1>8. Ended(s, t)  BY <1>2, <1>3, <1>5, <1>6 DEF Same, Ended
<1> QED BY <1>7, <1>8, EndedOwners

\* A window the timer was too late for is settled before the key is looked at.
LEMMA SettledOwners ==
  ASSUME Config, eng \in EngineState, Owned(eng)
  PROVE  /\ Settled \in EngineState /\ Owned(Settled) /\ Held(Settled) \subseteq Held(eng)
         /\ GestureActive(Settled) => Settled.committedCode = eng.committedCode
<1>1. Settled \in EngineState  BY SettledType
<1> DEFINE f == Fresh(eng)
<1>2. f \in EngineState /\ Same(eng, f)  BY FreshType, SettersFrame
<1>3. Owned(f) /\ Held(f) = Held(eng) /\ f.committedCode = eng.committedCode
      /\ (Waiting(f) <=> Waiting(eng))
  BY <1>2, SameOwners DEF Same
<1> HIDE DEF f
<1>4. CASE Waiting(eng) /\ Expired(eng)
  <2>1. Settled = CommitExpired(f)  BY <1>4 DEF Settled, f
  <2> QED BY <1>1, <1>2, <1>3, <1>4, <2>1, CommitExpiredOwners
<1>5. CASE ~(Waiting(eng) /\ Expired(eng))
  <2>1. Settled = f  BY <1>5 DEF Settled, f
  <2> QED BY <1>1, <1>3, <2>1
<1> QED BY <1>4, <1>5

-----------------------------------------------------------------------------
(* One keyboard *)

\* The invariant, spelled out for the one keyboard there is.
LEMMA SafeFacts ==
  ASSUME Safe, NEW kb, Keyboards = {kb}
  PROVE  /\ Owned(eng)
         /\ Held(eng) \subseteq down[kb] \ app[kb]
         /\ app[kb] \subseteq down[kb]
         /\ rep[kb] # NoKey => rep[kb] \in down[kb]
         /\ rep[kb] # NoKey /\ GestureActive(eng) => rep[kb] # eng.committedCode
<1>1. Owned(eng)  BY DEF Safe, OneGesture, OneOwner, Owned
<1>2. Held(eng) = Swallowed  BY <1>1 DEF Owned, OwnerShape, Held, Swallowed
<1> QED BY <1>1, <1>2 DEF Safe, SwallowedAreHeld, NoStuckKeys, OneOwner, LastPressed

\* And back, for the state after a step.
LEMMA SafeAfter ==
  ASSUME NEW kb, Keyboards = {kb}, TypeOK', SteadySettings(config'), Owned(eng'),
         Held(eng') \subseteq down'[kb] \ app'[kb],
         app'[kb] \subseteq down'[kb],
         rep'[kb] # NoKey => rep'[kb] \in down'[kb],
         rep'[kb] # NoKey /\ GestureActive(eng') => rep'[kb] # eng'.committedCode
  PROVE  Safe'
<1>1. OneGesture'  BY DEF OneGesture, Owned, Waiting, Cycling
<1>2. OneOwner'
  BY DEF OneOwner, Owned, OwnerShape, LastPressed, GestureActive, Waiting, Cycling
<1>3. Swallowed' = Held(eng')
  BY DEF Owned, OwnerShape, Held, Swallowed, GestureActive, Waiting, Cycling
<1>4. SwallowedAreHeld'  BY <1>3 DEF SwallowedAreHeld
<1>5. NoStuckKeys'  BY DEF NoStuckKeys
<1>6. SteadySettings(config)'  BY DEF SteadySettings
<1> QED BY <1>1, <1>2, <1>4, <1>5, <1>6 DEF Safe

\* A step in which only the engine moves is safe if it withholds no other key.
LEMMA EngineKeeps ==
  ASSUME Safe, NEW kb, Keyboards = {kb}, TypeOK',
         UNCHANGED <<config, down, rep, app>>,
         Owned(eng'), Held(eng') \subseteq Held(eng),
         GestureActive(eng') =>
           \/ eng'.committedCode = NoKey
           \/ GestureActive(eng) /\ eng'.committedCode = eng.committedCode
  PROVE  Safe'
<1>1. SteadySettings(config')  BY DEF Safe, SteadySettings
<1>2. rep'[kb] # NoKey /\ GestureActive(eng') => rep'[kb] # eng'.committedCode
  BY SafeFacts
<1> QED BY <1>1, <1>2, SafeFacts, SafeAfter

\* A press is safe if the engine's record adds to the keys it waits for no more
\* than the pressed key, and only if it was consumed.
LEMMA PressKeeps ==
  ASSUME Safe, NEW kb, Keyboards = {kb}, TypeOK', NEW k \in Keys,
         PhysicalPress(kb, k), UNCHANGED config,
         NEW s \in EngineState, DeliverPress(kb, k, s),
         Owned(s), s.decision \in {"Consume", "Forward"},
         Held(s) \subseteq Held(eng) \cup (IF s.decision = "Forward" THEN {} ELSE {k}),
         GestureActive(s) => s.committedCode # k
  PROVE  Safe'
<1>1. SteadySettings(config')  BY DEF Safe, SteadySettings
<1>2. /\ down[kb] \subseteq Keys /\ down' = [down EXCEPT ![kb] = down[kb] \cup {k}]
      /\ rep' = [rep EXCEPT ![kb] = k] /\ k \notin down[kb]
      /\ kb \in DOMAIN down /\ kb \in DOMAIN rep /\ kb \in DOMAIN app
  BY DEF PhysicalPress, Safe, TypeOK
<1>3. down'[kb] = down[kb] \cup {k} /\ rep'[kb] = k  BY <1>2
<1>4. eng' = s  BY DEF DeliverPress
<1>5. k \notin Held(eng)  BY <1>2, SafeFacts
<1>6. CASE s.decision = "Forward"
  <2>1. app'[kb] = app[kb] \cup {k}  BY <1>2, <1>6 DEF DeliverPress
  <2>2. Held(s) \subseteq Held(eng)  BY <1>6
  <2> QED BY <1>1, <1>3, <1>4, <1>5, <2>1, <2>2, SafeFacts, SafeAfter
<1>7. CASE s.decision = "Consume"
  <2>1. app' = app  BY <1>7 DEF DeliverPress
  <2>2. Held(s) \subseteq Held(eng) \cup {k}  BY <1>7
  <2>3. k \notin app[kb]  BY <1>2, SafeFacts
  <2> QED BY <1>1, <1>3, <1>4, <2>1, <2>2, <2>3, SafeFacts, SafeAfter
<1> QED BY <1>6, <1>7
-----------------------------------------------------------------------------
(* Steps *)

\* A press, by the alternative that handles it.
LEMMA PressSafe ==
  ASSUME Safe, NEW kb, Keyboards = {kb}, NEW k \in Keys, Press(kb, k)
  PROVE  Safe'
<1>1. /\ Config /\ eng \in EngineState /\ TypeOK
      /\ PhysicalPress(kb, k) /\ UNCHANGED config
  BY DEF Safe, TypeOK, Config, Press
<1>2. TypeOK'  BY <1>1, PressType
<1>3. Owned(eng) /\ k \notin Held(eng)
  BY <1>1, SafeFacts DEF PhysicalPress
<1>4. /\ Settled \in EngineState /\ Owned(Settled) /\ Held(Settled) \subseteq Held(eng)
      /\ GestureActive(Settled) => Settled.committedCode = eng.committedCode
  BY <1>1, <1>3, SettledOwners
<1> DEFINE f == Fresh(eng)
           g == CommitGesture(Settled)
<1>5. f \in EngineState /\ Owned(f) /\ Held(f) = Held(eng)
  BY <1>1, <1>3, FreshType, SettersFrame, SameOwners
<1>6. /\ g \in EngineState /\ Owned(g) /\ ~GestureActive(g) /\ Held(g) \subseteq Held(eng)
  BY <1>1, <1>4, CommitGestureType, CommitGestureEnds, EndedOwners
<1>7. ASSUME NEW s \in EngineState, Held(s) \subseteq Held(eng)
      PROVE  s.committedCode # k
  <2>1. k # NoKey  BY KeysAssumption DEF KeysAssumption
  <2> QED BY <1>3, <1>7, <2>1 DEF Held
<1> HIDE DEF f, g
<1>8. ASSUME NEW s \in EngineState, Owned(s), Held(s) \subseteq Held(eng),
             DeliverPress(kb, k, Forward(s)) \/ DeliverPress(kb, k, Consume(s))
      PROVE  Safe'
  <2> DEFINE u == Forward(s)
             v == Consume(s)
  <2>1. /\ u \in EngineState /\ u.decision = "Forward" /\ Owned(u) /\ Held(u) = Held(s)
        /\ v \in EngineState /\ v.decision = "Consume" /\ Owned(v) /\ Held(v) = Held(s)
    BY <1>8, SettersType, SettersFrame, SameOwners
  <2>2. DeliverPress(kb, k, u) \/ DeliverPress(kb, k, v)  BY <1>8
  <2> HIDE DEF u, v
  <2>3. u.committedCode # k /\ v.committedCode # k  BY <1>7, <1>8, <2>1
  <2> QED BY <1>1, <1>2, <1>8, <2>1, <2>2, <2>3, PressKeeps
<1>9. CASE PressFiltered(kb, k)
  BY <1>5, <1>8, <1>9 DEF PressFiltered, f
<1>10. CASE PressProfileShortcut(kb, k)
  <2>1. PICK name : DeliverPress(kb, k, Consume(SwitchToProfile(f, name)))
    BY <1>10 DEF PressProfileShortcut, f
  <2>2. SwitchToProfile(f, name) \in EngineState  BY <1>1, <1>5, SwitchToProfileType
  <2>3. /\ Owned(SwitchToProfile(f, name))
        /\ Held(SwitchToProfile(f, name)) \subseteq Held(eng)
    BY <1>1, <1>5, SwitchToProfileOwners
  <2> QED BY <1>8, <2>1, <2>2, <2>3
<1>11. CASE PressModifier(kb, k)
  BY <1>5, <1>8, <1>11 DEF PressModifier, f
<1>12. CASE PressShortcut(kb, k)
  <2> DEFINE s == [g EXCEPT !.inputKeyPressed = FALSE]
  <2>1. s \in EngineState /\ Same(g, s)
    BY ZenonT(60), <1>6, EngineStateFields DEF EngineState, Same, Owned, OwnerShape
  <2>2. DeliverPress(kb, k, Forward(s))  BY <1>12 DEF PressShortcut, g
  <2> HIDE DEF s
  <2> QED BY <1>6, <1>8, <2>1, <2>2, SameOwners
<1>13. CASE PressLeader(kb, k)
  <2> DEFINE s == HandleLeader(Settled, k)
  <2>1. s \in EngineState  BY <1>1, <1>4, HandleLeaderType
  <2>2. /\ Owned(s) /\ s.decision \in {"Consume", "Forward"}
        /\ Held(s) \subseteq Held(Settled) \cup
             (IF s.decision = "Consume" /\ IsAltLeaderSym(k) THEN {k} ELSE {})
        /\ GestureActive(s) => s.committedCode = Settled.committedCode
    BY <1>1, <1>4, HandleLeaderOwners
  <2>3. DeliverPress(kb, k, s)  BY <1>13 DEF PressLeader
  <2> HIDE DEF s
  <2>4. Held(s) \subseteq Held(eng) \cup (IF s.decision = "Forward" THEN {} ELSE {k})
    BY <1>4, <2>2
  <2>5. GestureActive(s) => s.committedCode # k  BY <1>4, <1>7, <2>2
  <2> QED BY <1>1, <1>2, <2>1, <2>2, <2>3, <2>4, <2>5, PressKeeps
<1>14. CASE PressMapped(kb, k)
  <2>1. KeyText[k] \in Inputs  BY <1>1, <1>14 DEF PressMapped, Config, IsUmlautMap
  <2> DEFINE v == umlautMap'[KeyText[k]]
             s == StartGesture(g, k, v)
  <2>7. v \in Seq(Variants)  BY <1>1, <1>14, ResortMapped DEF PressMapped, Config
  <2> HIDE DEF v
  <2>2. s \in EngineState  BY <1>1, <1>6, <2>1, <2>7, StartGestureType
  <2>3. g.committedCode # k  BY <1>6, <1>7
  <2>4. /\ Owned(s) /\ Held(s) \subseteq Held(g) \cup {k}
        /\ s.committedCode = g.committedCode
        /\ s.decision = "Consume"
    BY <1>1, <1>6, <2>1, <2>3, <2>7, StartGestureOwners
  <2>5. DeliverPress(kb, k, s)  BY <1>14 DEF PressMapped, g, v
  <2> HIDE DEF s
  <2>6. Held(s) \subseteq Held(eng) \cup (IF s.decision = "Forward" THEN {} ELSE {k})
    BY <1>6, <2>4
  <2> QED BY <1>1, <1>2, <2>2, <2>3, <2>4, <2>5, <2>6, PressKeeps
<1>15. CASE PressOther(kb, k)
  <2> DEFINE s == [g EXCEPT !.consumedAltCode = NoKey]
             c == CommitText(s, k, KeyText[k])
  <2>1. /\ s \in EngineState
        /\ s.waitingKey = g.waitingKey /\ s.waitingKeyCode = g.waitingKeyCode
        /\ s.inputKeyPressed = g.inputKeyPressed /\ s.cyclingInput = g.cyclingInput
        /\ s.committedCode = g.committedCode /\ s.consumedAltCode = NoKey
    BY <1>6 DEF EngineState, NoKey
  <2>2. \/ DeliverPress(kb, k, Consume(c))
        \/ DeliverPress(kb, k, Forward(s))
    BY <1>15 DEF PressOther, g
  <2> HIDE DEF s
  <2>3. Owned(s) /\ Held(s) \subseteq Held(eng)
    BY <1>6, <2>1 DEF Owned, OwnerShape, GestureActive, Waiting, Cycling, Held
  <2>4. KeyText[k] \in STRING /\ NoText \in Inputs \cup {NoText}  BY TextTypes
  <2>5. c \in EngineState /\ Same(s, c)
    BY <1>1, <2>1, <2>4, CommitTextType, CommitFrame
  <2>6. Owned(c) /\ Held(c) \subseteq Held(eng)  BY <2>3, <2>5, SameOwners
  <2> HIDE DEF c
  <2> QED BY <1>8, <2>1, <2>2, <2>3, <2>5, <2>6
<1> QED BY <1>9, <1>10, <1>11, <1>12, <1>13, <1>14, <1>15 DEF Press
\* A release, by its owner: its key is up afterwards and no longer waited for.
LEMMA ReleaseSafe ==
  ASSUME Safe, NEW kb, Keyboards = {kb}, NEW k \in Keys, Release(kb, k)
  PROVE  Safe'
<1>1. /\ Config /\ eng \in EngineState /\ TypeOK /\ UNCHANGED config
      /\ k # NoKey
  BY KeysAssumption DEF Safe, TypeOK, Config, Release, KeysAssumption
<1>2. TypeOK'  BY <1>1, ReleaseType
<1>3. /\ Owned(eng) /\ Held(eng) \subseteq down[kb] \ app[kb] /\ app[kb] \subseteq down[kb]
  BY SafeFacts
<1>4. SteadySettings(config) /\ SteadySettings(config')
  BY <1>1 DEF Safe, SteadySettings
<1>5. ~Filtered  BY <1>4 DEF SteadySettings, Filtered
<1> DEFINE s == Fresh(eng)
           t == HandleRelease(k)
<1>6. s \in EngineState /\ Same(eng, s)  BY <1>1, FreshType, SettersFrame
<1>7. /\ Owned(s) /\ Held(s) = Held(eng)
      /\ (GestureActive(s) <=> GestureActive(eng)) /\ (Waiting(s) <=> Waiting(eng))
      /\ (Cycling(s) <=> Cycling(eng))
      /\ s.waitingKeyCode = eng.waitingKeyCode /\ s.committedCode = eng.committedCode
      /\ s.consumedAltCode = eng.consumedAltCode /\ s.inputKeyPressed = eng.inputKeyPressed
  BY <1>3, <1>6, SameOwners DEF Same
<1> HIDE DEF s
<1>8. /\ down'[kb] = down[kb] \ {k} /\ rep'[kb] = NoKey
      /\ eng' = t /\ kb \in DOMAIN app
      /\ app' = IF t.decision = "Forward" THEN [app EXCEPT ![kb] = @ \ {k}] ELSE app
  BY <1>1 DEF Release, PhysicalRelease, DeliverRelease, TypeOK
<1>9. /\ t \in EngineState /\ Owned(t) /\ Held(t) \subseteq Held(eng) \ {k}
      /\ t.decision = "Forward" \/ (t.decision = "Consume" /\ k \in Held(eng))
  <2>1. CASE ReleaseAlt(k)
    <3> DEFINE a == [s EXCEPT !.consumedAltCode = NoKey]
    <3>1. /\ a \in EngineState
          /\ a.waitingKey = s.waitingKey /\ a.waitingKeyCode = s.waitingKeyCode
          /\ a.inputKeyPressed = s.inputKeyPressed /\ a.cyclingInput = s.cyclingInput
          /\ a.committedCode = s.committedCode /\ a.consumedAltCode = NoKey
      BY <1>6 DEF EngineState, NoKey
    <3>2. t = Consume(a)
      BY <1>5, <2>1 DEF HandleRelease, ReleaseCommitted, ReleaseGesture, s
    <3> HIDE DEF a, t
    <3>3. /\ Owned(a) /\ Held(a) \subseteq Held(eng) \ {k} /\ k \in Held(eng)
      BY <1>1, <1>7, <2>1, <3>1
         DEF Owned, OwnerShape, GestureActive, Waiting, Cycling, Held, ReleaseAlt
    <3>4. /\ t \in EngineState /\ Owned(t) /\ Held(t) = Held(a) /\ t.decision = "Consume"
      BY <3>1, <3>2, <3>3, SettersType, SettersFrame, SameOwners
    <3> QED BY <3>3, <3>4
  <2>2. CASE ReleaseCommitted(k)
    <3> DEFINE a == ClearCommitted(s)
    <3>1. /\ a \in EngineState
          /\ a.waitingKey = s.waitingKey /\ a.waitingKeyCode = s.waitingKeyCode
          /\ a.inputKeyPressed = s.inputKeyPressed /\ a.cyclingInput = s.cyclingInput
          /\ a.committedCode = NoKey /\ a.consumedAltCode = s.consumedAltCode
      BY ZenonT(60), <1>6 DEF EngineState, NoKey, ClearCommitted, ArmCommitted
    <3>2. t = Consume(a)
      BY <1>5, <2>2 DEF HandleRelease, ReleaseCommitted, ReleaseGesture, s
    <3> HIDE DEF a, t
    <3>3. /\ Owned(a) /\ Held(a) \subseteq Held(eng) \ {k} /\ k \in Held(eng)
      BY <1>1, <1>7, <2>2, <3>1
         DEF Owned, OwnerShape, GestureActive, Waiting, Cycling, Held, ReleaseCommitted, ReleaseAlt
    <3>4. /\ t \in EngineState /\ Owned(t) /\ Held(t) = Held(a) /\ t.decision = "Consume"
      BY <3>1, <3>2, <3>3, SettersType, SettersFrame, SameOwners
    <3> QED BY <3>3, <3>4
  <2>3. CASE ReleaseGesture(k)
    <3> DEFINE a == IF Cycling(s) THEN CommitCyclingValue(s) ELSE CommitPendingKey(s)
    <3>1. a \in EngineState  BY <1>1, <1>6, CommitCyclingValueType, CommitPendingKeyType
    <3>2. Ended(s, a)
      <4>1. CASE Cycling(s)  BY <1>1, <1>6, <4>1, CommitCyclingValueEnds
      <4>2. CASE ~Cycling(s)
        <5>1. Waiting(s)  BY <1>7, <2>3, <4>2 DEF ReleaseGesture, GestureActive
        <5> QED BY <1>6, <4>2, <5>1, CommitPendingKeyEnds DEF Ended, Cycling
      <4> QED BY <4>1, <4>2
    <3>3. t = Consume(a)  BY <1>5, <2>3 DEF HandleRelease, ReleaseGesture, s
    <3> HIDE DEF a, t
    <3>4. /\ Owned(a) /\ Held(a) \subseteq Held(eng) \ {k} /\ k \in Held(eng)
      BY <1>1, <1>7, <2>3, <3>2
         DEF Ended, Owned, OwnerShape, GestureActive, Waiting, Cycling, Held,
             ReleaseGesture, ReleaseCommitted, ReleaseAlt
    <3>5. /\ t \in EngineState /\ Owned(t) /\ Held(t) = Held(a) /\ t.decision = "Consume"
      BY <3>1, <3>3, <3>4, SettersType, SettersFrame, SameOwners
    <3> QED BY <3>4, <3>5
  <2>4. CASE ~ReleaseAlt(k) /\ ~ReleaseCommitted(k) /\ ~ReleaseGesture(k)
    <3>1. t = Forward(s)  BY <1>5, <2>4 DEF HandleRelease, s
    <3> HIDE DEF t
    <3>2. /\ t \in EngineState /\ Owned(t) /\ Held(t) = Held(eng) /\ t.decision = "Forward"
      BY <1>6, <1>7, <3>1, SettersType, SettersFrame, SameOwners
    <3>3. k \notin Held(eng)
      BY <1>1, <1>3, <2>4
         DEF Owned, OwnerShape, Held, ReleaseGesture, ReleaseCommitted, ReleaseAlt
    <3> QED BY <3>2, <3>3
  <2> QED BY <2>1, <2>2, <2>3, <2>4
<1> HIDE DEF t
<1>10. CASE t.decision = "Forward"
  <2>1. app'[kb] = app[kb] \ {k}  BY <1>8, <1>10
  <2> QED BY <1>2, <1>3, <1>4, <1>8, <1>9, <2>1, SafeAfter
<1>11. CASE t.decision = "Consume" /\ k \in Held(eng)
  <2>1. app' = app /\ k \notin app[kb]  BY <1>3, <1>8, <1>11
  <2> QED BY <1>2, <1>3, <1>4, <1>8, <1>9, <2>1, SafeAfter
<1> QED BY <1>9, <1>10, <1>11
\* A step in which no release changes its owner.
LEMMA SameKeeps ==
  ASSUME Safe, NEW kb, Keyboards = {kb}, TypeOK', UNCHANGED <<config, down, rep, app>>,
         NEW s, Same(eng, s), eng' = s
  PROVE  Safe'
<1>1. /\ Owned(s) /\ Held(s) = Held(eng) /\ s.committedCode = eng.committedCode
      /\ GestureActive(s) <=> GestureActive(eng)
  BY SafeFacts, SameOwners DEF Same
<1> QED BY <1>1, EngineKeeps

\* A repeat adds no key to those whose release is waited for: a leader that
\* repeats is no Alt, and a committed key starts over once it is disarmed.
LEMMA RepeatSafe ==
  ASSUME Safe, NEW kb, Keyboards = {kb}, Repeat(kb)
  PROVE  Safe'
<1> DEFINE k == rep[kb]
           s == Fresh(eng)
<1>1. /\ Config /\ eng \in EngineState /\ TypeOK /\ SteadySettings(config)
      /\ k \in Keys /\ k # NoKey
  BY DEF Safe, TypeOK, Config, Repeat
<1>2. TypeOK'  BY <1>1, RepeatType
<1>3. UNCHANGED <<config, down, rep, app>>  BY DEF Repeat
<1>4. Owned(eng) /\ (GestureActive(eng) => k # eng.committedCode)
  BY <1>1, SafeFacts
<1>5. ~Filtered  BY <1>1 DEF SteadySettings, Filtered
<1>6. s \in EngineState /\ Same(eng, s)  BY <1>1, FreshType, SettersFrame
<1> HIDE DEF k, s
<1>7. /\ Owned(s) /\ Held(s) = Held(eng) /\ s.committedCode = eng.committedCode
      /\ GestureActive(s) <=> GestureActive(eng)
  BY <1>4, <1>6, SameOwners DEF Same
<1>8. ASSUME eng' = Consume(s) \/ eng' = Forward(s) PROVE Safe'
  <2>1. Same(eng, Consume(s)) /\ Same(eng, Forward(s))
    BY <1>6, SettersFrame, SameTransitive
  <2> QED BY <1>2, <1>3, <1>8, <2>1, SameKeeps
<1>9. CASE RepeatOwnKey(k)  BY <1>8, <1>9 DEF RepeatOwnKey, s
<1>10. CASE RepeatOther(k)  BY <1>8, <1>10 DEF RepeatOther, s
<1>11. CASE RepeatLeader(k)
  <2> DEFINE t == HandleLeader(s, k)
  <2>1. config.leaderAutoRepeat /\ Cycling(eng) /\ ClassifyLeader(config.leader, k) # "None"
    BY <1>11 DEF RepeatLeader, LeaderRepeats, IsLeaderFor
  <2>2. ~config.leader.alt /\ ~config.leader.altGr
    BY <1>1, <2>1 DEF SteadySettings
  <2>3. k \in config.leader.builtIn \/ k = config.leader.custom1 \/ k = config.leader.custom2
    BY <2>1, <2>2 DEF ClassifyLeader
  <2>4. ~IsModifierSym(k)  BY <1>1, <2>3 DEF SteadySettings
  <2>5. ~IsAltLeaderSym(k)
    BY <2>4 DEF IsModifierSym, IsAltLeaderSym, IsAltSym, IsAltGrSym
  <2>6. /\ Owned(t)
        /\ Held(t) \subseteq Held(s) \cup
             (IF t.decision = "Consume" /\ IsAltLeaderSym(k) THEN {k} ELSE {})
        /\ GestureActive(t) => t.committedCode = s.committedCode
    BY <1>1, <1>6, <1>7, HandleLeaderOwners
  <2>7. eng' = t  BY <1>11 DEF RepeatLeader, s
  <2> HIDE DEF t
  <2>8. Held(t) \subseteq Held(eng)  BY <1>7, <2>5, <2>6
  <2>9. GestureActive(eng)  BY <2>1 DEF GestureActive
  <2> QED BY <1>2, <1>3, <1>7, <2>6, <2>7, <2>8, <2>9, EngineKeeps
<1>12. CASE RepeatCommitted(k)
  <2> DEFINE c == ClearCommitted(s)
             v == umlautMap[KeyText[k]]
             g == StartGesture(c, k, v)
  <2>1. k = eng.committedCode  BY <1>12 DEF RepeatCommitted
  <2>2. ~GestureActive(eng)  BY <1>4, <2>1
  <2>3. /\ c \in EngineState /\ c.committedCode = NoKey
        /\ c.waitingKey = s.waitingKey /\ c.waitingKeyCode = s.waitingKeyCode
        /\ c.inputKeyPressed = s.inputKeyPressed /\ c.cyclingInput = s.cyclingInput
        /\ c.consumedAltCode = s.consumedAltCode
    BY ZenonT(60), <1>6 DEF EngineState, ClearCommitted, ArmCommitted, NoKey
  <2>4. \/ eng' = Consume(s)
        \/ KeyText[k] \in DOMAIN umlautMap /\ eng' = g
        \/ eng' = Forward(c)
    BY <1>12 DEF RepeatCommitted, s
  <2> HIDE DEF c, v, g
  <2>5. Owned(c) /\ ~GestureActive(c) /\ Held(c) \subseteq Held(eng)
    BY <1>7, <2>2, <2>3 DEF Owned, OwnerShape, GestureActive, Waiting, Cycling, Held
  <2>6. CASE eng' = Consume(s)  BY <1>8, <2>6
  <2>7. CASE eng' = Forward(c)
    <3>1. Same(c, Forward(c))  BY <2>3, SettersFrame
    <3>2. Owned(Forward(c)) /\ Held(Forward(c)) = Held(c) /\ ~GestureActive(Forward(c))
      BY <2>5, <3>1, SameOwners
    <3> QED BY <1>2, <1>3, <2>5, <2>7, <3>2, EngineKeeps
  <2>8. CASE KeyText[k] \in DOMAIN umlautMap /\ eng' = g
    <3>1. KeyText[k] \in Inputs /\ v \in Seq(Variants)
      BY <1>1, <2>8 DEF Config, IsUmlautMap, v
    <3>2. /\ Owned(g) /\ Held(g) \subseteq Held(c) \cup {k}
          /\ g.committedCode = c.committedCode
      BY <1>1, <2>3, <2>5, <3>1, StartGestureOwners DEF g
    <3>3. k \in Held(eng)  BY <1>1, <2>1 DEF Held
    <3>4. Held(g) \subseteq Held(eng)  BY <2>5, <3>2, <3>3
    <3> QED BY <1>2, <1>3, <2>3, <2>8, <3>2, <3>4, EngineKeeps
  <2> QED BY <2>4, <2>6, <2>7, <2>8
<1> QED BY <1>5, <1>9, <1>10, <1>11, <1>12 DEF Repeat, k
\* A timer commits, opens the cycle or changes what is shown.
LEMMA TimerSafe ==
  ASSUME Safe, NEW kb, Keyboards = {kb}, Timers
  PROVE  Safe'
<1>1. Config /\ eng \in EngineState /\ TypeOK  BY DEF Safe, TypeOK, Config
<1>2. TypeOK'  BY <1>1, TimerType
<1>3. UNCHANGED <<config, down, rep, app>>
  BY DEF Timers, WindowTimeout, AutoSelect, OverlayShow, OverlayHide, ProfileFlash, UsageFlush
<1> DEFINE f == Fresh(eng)
<1>4. f \in EngineState /\ Same(eng, f) /\ Owned(eng)
  BY <1>1, FreshType, SettersFrame, SafeFacts
<1> HIDE DEF f
<1>5. Owned(f) /\ Held(f) = Held(eng) /\ f.committedCode = eng.committedCode
      /\ (GestureActive(f) <=> GestureActive(eng))
  BY <1>4, SameOwners DEF Same
<1>6. ASSUME NEW s, Same(f, s), eng' = s PROVE Safe'
  <2>1. Same(eng, s)  BY <1>4, <1>6, SameTransitive
  <2> QED BY <1>2, <1>3, <1>6, <2>1, SameKeeps
<1>7. CASE WindowTimeout
  <2> DEFINE s == [f EXCEPT !.windowTimer = NoTimer]
  <2>1. s \in EngineState /\ Same(f, s)
    <3>1. NoTimer \in Nat  BY DEF NoTimer
    <3>2. s \in EngineState  BY ZenonT(60), <1>4, <3>1 DEF EngineState
    <3> QED BY <1>4, <3>2 DEF EngineState, Same
  <2>2. eng' = IF Waiting(s) THEN CommitExpired(s) ELSE s  BY <1>7 DEF WindowTimeout, f
  <2> HIDE DEF s
  <2>3. Owned(s) /\ Held(s) = Held(eng)  BY <1>5, <2>1, SameOwners
  <2>4. CASE Waiting(s)
    <3>1. /\ Owned(CommitExpired(s)) /\ ~GestureActive(CommitExpired(s))
          /\ Held(CommitExpired(s)) \subseteq Held(eng)
      BY <2>1, <2>3, <2>4, CommitExpiredOwners
    <3> QED BY <1>2, <1>3, <2>2, <2>4, <3>1, EngineKeeps
  <2>5. CASE ~Waiting(s)  BY <1>6, <2>1, <2>2, <2>5
  <2> QED BY <2>4, <2>5
<1>8. CASE AutoSelect
  <2> DEFINE s == [f EXCEPT !.autoSelectTimer = NoTimer]
             u == [s EXCEPT !.windowTimer = NoTimer]
             t == EnterCycling(u, s.waitingKey, 0)
  <2>1. s \in EngineState /\ Same(f, s)
    <3>1. NoTimer \in Nat  BY DEF NoTimer
    <3>2. s \in EngineState  BY ZenonT(60), <1>4, <3>1 DEF EngineState
    <3> QED BY <1>4, <3>2 DEF EngineState, Same
  <2>2. eng' = IF Waiting(s) /\ ~Cycling(s) /\ s.inputKeyPressed THEN t ELSE s
    BY <1>8 DEF AutoSelect, f
  <2>3. u \in EngineState /\ Same(s, u)
    <3> HIDE DEF s
    <3>1. NoTimer \in Nat  BY DEF NoTimer
    <3>2. u \in EngineState  BY ZenonT(60), <2>1, <3>1 DEF EngineState
    <3> QED BY <2>1, <3>2 DEF EngineState, Same
  <2> HIDE DEF s, u
  <2>4. /\ Owned(u) /\ Held(u) = Held(eng) /\ u.committedCode = eng.committedCode
        /\ (GestureActive(u) <=> GestureActive(eng)) /\ (Waiting(u) <=> Waiting(s))
        /\ u.waitingKey = s.waitingKey
    BY <1>5, <2>1, <2>3, SameOwners DEF Same
  <2>5. CASE Waiting(s) /\ eng' = t
    <3>1. u.waitingKey \in Inputs \cup {NoText} /\ 0 \in Nat  BY <2>3 DEF EngineState
    <3>2. Owned(t) /\ Held(t) = Held(u) /\ t.committedCode = u.committedCode
      BY <1>1, <2>3, <2>4, <2>5, <3>1, EnterCyclingOwners
    <3>3. GestureActive(eng)  BY <2>4, <2>5 DEF GestureActive
    <3> QED BY <1>2, <1>3, <2>4, <2>5, <3>2, <3>3, EngineKeeps
  <2>6. CASE eng' = s  BY <1>6, <2>1, <2>6
  <2> QED BY <2>2, <2>5, <2>6
<1>9. CASE OverlayShow
  <2> DEFINE s     == [f EXCEPT !.overlayShowTimer = NoShow]
             shown == eng.overlayShowTimer.variants
  <2>1. s \in EngineState /\ Same(f, s)
    <3>1. s \in EngineState  BY <1>4, NoShowType
    <3> QED BY <1>4, <3>1 DEF EngineState, Same
  <2>2. shown \in Seq(Variants) /\ -1 \in Int  BY <1>1 DEF EngineState
  <2>3. eng' = OverlayShowVariants(s, shown, -1) \/ eng' = s  BY <1>9 DEF OverlayShow, f
  <2> HIDE DEF s, shown
  <2>4. Same(s, OverlayShowVariants(s, shown, -1))  BY <2>1, <2>2, OverlayFrame
  <2> QED BY <1>6, <2>1, <2>3, <2>4, SameTransitive
<1>10. CASE OverlayHide
  <2> DEFINE s == [f EXCEPT !.overlayHideTimer = FALSE]
  <2>1. s \in EngineState /\ Same(f, s)  BY ZenonT(60), <1>4 DEF EngineState, Same
  <2>2. eng' = OverlayHideAll(s)  BY <1>10 DEF OverlayHide, f
  <2> HIDE DEF s
  <2>3. Same(s, OverlayHideAll(s))  BY <2>1, OverlayFrame
  <2> QED BY <1>6, <2>1, <2>2, <2>3, SameTransitive
<1>11. CASE ProfileFlash
  <2> DEFINE s == [f EXCEPT !.profileFlashTimer = FALSE, !.panel = Hidden,
                            !.overlayVisible = FALSE]
  <2>1. Same(f, s)  BY <1>4 DEF EngineState, Same
  <2>2. eng' = s  BY <1>11 DEF ProfileFlash, f
  <2> QED BY <1>6, <2>1, <2>2
<1>12. CASE UsageFlush
  <2>1. ASSUME NEW s \in EngineState PROVE Same(s, ApplyUsageTracking(s, config))
    BY DEF ApplyUsageTracking, EngineState, Same
  <2> DEFINE s == [f EXCEPT !.usageDirty = FALSE]
             a == [s EXCEPT !.usageTimer = 2]
             b == [s EXCEPT !.usageTimer = 0]
  <2>2. s \in EngineState /\ Same(f, s)  BY ZenonT(60), <1>4 DEF EngineState, Same
  <2>3. eng' = a \/ eng' = ApplyUsageTracking(b, config)  BY <1>12 DEF UsageFlush, f
  <2>4. Same(s, a) /\ b \in EngineState /\ Same(s, b)
    <3> HIDE DEF s
    <3>1. Same(s, a) /\ Same(s, b)  BY <2>2 DEF EngineState, Same
    <3>2. 0 \in 0..2  OBVIOUS
    <3>3. b \in EngineState  BY ZenonT(60), <2>2, <3>2 DEF EngineState
    <3> QED BY <3>1, <3>3
  <2> HIDE DEF s, a, b
  <2>5. Same(b, ApplyUsageTracking(b, config))  BY <2>1, <2>4
  <2>6. Same(f, a) /\ Same(f, ApplyUsageTracking(b, config))
    BY <2>2, <2>4, <2>5, SameTransitive
  <2> QED BY <1>6, <2>3, <2>6
<1> QED BY <1>7, <1>8, <1>9, <1>10, <1>11, <1>12 DEF Timers

\* Neither the clock nor a reload moves an owner; a focus change drops them all.
LEMMA WorldSafe ==
  ASSUME OneSteadyKeyboard, Safe, NEW kb, Keyboards = {kb}, Tick \/ FocusChanged \/ Reload
  PROVE  Safe'
<1>1. Config /\ eng \in EngineState /\ TypeOK  BY DEF Safe, TypeOK, Config
<1>2. TypeOK'  BY <1>1, WorldType
<1> DEFINE f == Fresh(eng)
<1>3. f \in EngineState /\ Same(eng, f) /\ Owned(eng)
  BY <1>1, FreshType, SettersFrame, SafeFacts
<1>4. CASE Tick
  <2> DEFINE s == [f EXCEPT !.elapsed = @ + 1]
  <2>1. eng' = s /\ UNCHANGED <<config, down, rep, app>>  BY <1>4 DEF Tick
  <2>2. Same(f, s)
    <3> HIDE DEF f
    <3> QED BY <1>3 DEF EngineState, Same
  <2> HIDE DEF f, s
  <2>3. Same(eng, s)  BY <1>3, <2>2, SameTransitive
  <2> QED BY <1>2, <2>1, <2>3, SameKeeps
<1>5. CASE FocusChanged
  <2> DEFINE r == CancelGestureTimers(f)
             a == ClearCommitted(ResetCycling(ResetWaiting(r)))
             h == OverlayHideAll(a)
             s == [h EXCEPT !.consumedAltCode = NoKey, !.usageDirty = FALSE, !.decision = "Focus"]
  <2>1. eng' = s /\ UNCHANGED <<config, down, rep, app>>  BY <1>5 DEF FocusChanged
  <2>2. r \in EngineState  BY <1>3, SettersType
  <2>3. ResetWaiting(r) \in EngineState /\ a \in EngineState  BY <2>2, SettersType
  <2>4. /\ a.waitingKey = NoText /\ a.waitingKeyCode = NoKey /\ a.inputKeyPressed = FALSE
        /\ a.cyclingInput = NoText /\ a.committedCode = NoKey
    <3> HIDE DEF r
    <3> QED BY <2>2, <2>3
            DEF EngineState, ResetWaiting, ResetCycling, ClearCommitted, ArmCommitted
  <2> HIDE DEF a, r, f
  <2>5. h \in EngineState /\ Same(a, h)  BY <2>3, OverlayHideAllType, OverlayFrame
  <2> HIDE DEF h
  <2>6. /\ s.waitingKey = NoText /\ s.waitingKeyCode = NoKey /\ s.inputKeyPressed = FALSE
        /\ s.cyclingInput = NoText /\ s.committedCode = NoKey /\ s.consumedAltCode = NoKey
    BY <2>4, <2>5 DEF EngineState, Same
  <2> HIDE DEF s
  <2>7. Owned(s) /\ Held(s) = {} /\ ~GestureActive(s)
    BY <2>6 DEF Owned, OwnerShape, GestureActive, Waiting, Cycling, Held
  <2> QED BY <1>2, <2>1, <2>7, EngineKeeps
<1>6. CASE Reload
  <2>1. PICK r \in Reloads :
          /\ config' = r.config
          /\ eng' = IF config.overlayEnabled /\ ~r.config.overlayEnabled
                    THEN [ApplyUsageTracking(Fresh(eng), r.config) EXCEPT !.panel = Hidden]
                    ELSE ApplyUsageTracking(Fresh(eng), r.config)
          /\ UNCHANGED <<down, rep, app>>
    BY <1>6 DEF Reload
  <2> DEFINE s == ApplyUsageTracking(f, r.config)
             t == [s EXCEPT !.panel = Hidden]
  <2>2. s \in EngineState  BY <1>3, ApplyUsageTrackingType
  <2>3. Same(f, s)
    <3> HIDE DEF f
    <3> QED BY <1>3 DEF ApplyUsageTracking, EngineState, Same
  <2>4. Same(s, t)
    <3> HIDE DEF s
    <3> QED BY <2>2 DEF EngineState, Same
  <2>5. SteadySettings(config')  BY <2>1 DEF OneSteadyKeyboard
  <2>6. eng' = t \/ eng' = s  BY <2>1
  <2> HIDE DEF f, s, t
  <2>7. Same(eng, s) /\ Same(eng, t)  BY <1>3, <2>3, <2>4, SameTransitive
  <2>8. Same(eng, eng')  BY <2>6, <2>7
  <2>9. /\ Owned(eng') /\ Held(eng') = Held(eng) /\ eng'.committedCode = eng.committedCode
        /\ GestureActive(eng') <=> GestureActive(eng)
    BY <1>3, <2>8, SameOwners DEF Same
  <2> QED BY <1>2, <2>1, <2>5, <2>9, SafeFacts, SafeAfter
<1> QED BY <1>4, <1>5, <1>6
-----------------------------------------------------------------------------
(* The theorems *)

\* The invariant holds at first, when nothing is held, and is inductive.
LEMMA SafeInvariant ==
  ASSUME OneSteadyKeyboard PROVE Spec => []Safe
<1>1. PICK kb : Keyboards = {kb}  BY DEF OneSteadyKeyboard
<1>2. ASSUME Init, TypeOK PROVE Safe
  <2>1. SteadySettings(config)  BY <1>2 DEF Init, OneSteadyKeyboard
  <2>2. Same(IdleState, eng)
    <3>1. ASSUME NEW s \in EngineState PROVE Same(s, ApplyUsageTracking(s, config))
      BY DEF ApplyUsageTracking, EngineState, Same
    <3> QED BY <1>2, <3>1, IdleType DEF Init
  <2>3. /\ eng.waitingKey = NoText /\ eng.waitingKeyCode = NoKey
        /\ eng.inputKeyPressed = FALSE /\ eng.cyclingInput = NoText
        /\ eng.committedCode = NoKey /\ eng.consumedAltCode = NoKey
    BY <2>2 DEF Same, IdleState
  <2>4. OneGesture /\ OneOwner /\ SwallowedAreHeld
    BY <1>2, <2>3 DEF Init, OneGesture, OneOwner, OwnerShape, LastPressed, SwallowedAreHeld,
                      Swallowed, GestureActive, Waiting, Cycling
  <2>5. NoStuckKeys  BY <1>2 DEF Init, NoStuckKeys
  <2> QED BY <1>2, <2>1, <2>4, <2>5 DEF Safe
<1>3. ASSUME Safe, TypeOK', [Next]_vars PROVE Safe'
  <2>1. CASE UNCHANGED vars
    <3>1. UNCHANGED <<config, down, rep, app>> /\ eng' = eng  BY <2>1 DEF vars
    <3>2. Same(eng, eng)  BY DEF Same
    <3> QED BY <1>1, <1>3, <3>1, <3>2, SameKeeps
  <2>2. CASE Next
    <3>1. Unreliable = {}  BY DEF OneSteadyKeyboard
    <3> QED BY <1>1, <1>3, <2>2, <3>1, PressSafe, ReleaseSafe, RepeatSafe, TimerSafe,
               WorldSafe DEF Next
  <2> QED BY <1>3, <2>1, <2>2
<1>4. Init /\ TypeOK => Safe  BY <1>2
<1>5. Safe /\ TypeOK' /\ [Next]_vars => Safe'  BY <1>3
<1> QED BY <1>4, <1>5, TypeCorrect, PTL DEF Spec

\* A gesture waits or cycles, never both.
THEOREM OneGestureHolds ==
  ASSUME OneSteadyKeyboard PROVE Spec => []OneGesture
<1>1. Safe => OneGesture  BY DEF Safe
<1> QED BY <1>1, SafeInvariant, PTL

\* A release has one owner, whatever the order of keys, repeats and timers.
THEOREM OneOwnerHolds ==
  ASSUME OneSteadyKeyboard PROVE Spec => []OneOwner
<1>1. Safe => OneOwner  BY DEF Safe
<1> QED BY <1>1, SafeInvariant, PTL

\* Only releases of held keys the application never saw pressed are swallowed.
THEOREM SwallowedAreHeldHolds ==
  ASSUME OneSteadyKeyboard PROVE Spec => []SwallowedAreHeld
<1>1. Safe => SwallowedAreHeld  BY DEF Safe
<1> QED BY <1>1, SafeInvariant, PTL

\* No key stays pressed in an application once it is let go.
THEOREM NoStuckKeysHolds ==
  ASSUME OneSteadyKeyboard PROVE Spec => []NoStuckKeys
<1>1. Safe => NoStuckKeys  BY DEF Safe
<1> QED BY <1>1, SafeInvariant, PTL
=============================================================================
