---------------------------- MODULE EngineAnswers ----------------------------
(***************************************************************************)
(* Every withheld press is answered by one text and never by a second, in  *)
(* the order the keys were pressed, and no text is committed that no press *)
(* asked for: the engine implements module WithheldPress.  And the         *)
(* daemon's loop sees no answer but those of module KeyAnswers, which      *)
(* module Daemon runs in the engine's place.                               *)
(*                                                                         *)
(* The theorems are about the keyboard and the settings of module          *)
(* EngineProofs.  Those about texts are also about mappings whose inputs   *)
(* all have a variant, and about reloads that keep every mapped input with *)
(* no fewer variants (ReloadsKeepVariants): one that takes away the        *)
(* mapping of an open gesture can leave it with nothing to commit.  The    *)
(* one about the highlighted text also rests on CyclesUndisturbed (module  *)
(* EngineGestures): under a reload that changes the variants of an open    *)
(* cycle the panel keeps showing the old ones.                             *)
(*                                                                         *)
(* The argument: a gesture remembers the text of its own key, which has    *)
(* variants, and the selection is one of them (Reading), so that whatever  *)
(* ends the gesture has a text to commit, and commits one.  To the loop a  *)
(* step says nothing and leaves the window alone (Mute), ends it (Over) or *)
(* starts one (Begun), and what it says it says for a release it owned.    *)
(* A step that starts a gesture or types past one does so for the key it   *)
(* presses, which was up before, or for a held key that was answered and   *)
(* repeats (Speaks): no press is answered twice.                           *)
(***************************************************************************)
EXTENDS EngineGestures

\* The gesture's text is that of its key, which has variants; the selection is
\* one of them.
Reading(s) ==
  /\ Waiting(s) => /\ s.waitingKey = KeyText[s.waitingKeyCode]
                   /\ VariantsFor(s.waitingKey) # <<>>
  /\ Cycling(s) => /\ s.cyclingInput = KeyText[s.waitingKeyCode]
                   /\ s.cyclingIndex < Len(VariantsFor(s.cyclingInput))

\* Nothing is said and the gesture is the same; only FocusChanged decides "Focus".
Frozen(s, t) ==
  /\ t.waitingKey = s.waitingKey /\ t.waitingKeyCode = s.waitingKeyCode
  /\ t.cyclingInput = s.cyclingInput /\ t.cyclingIndex = s.cyclingIndex
  /\ t.out = s.out
  /\ s.decision # "Focus" => t.decision # "Focus"

\* What a gesture may be settled with: the selected variant while it cycles, else
\* its character or any variant.
Spoken(s) ==
  IF Cycling(s) THEN {VariantsFor(s.cyclingInput)[s.cyclingIndex + 1]}
  ELSE {s.waitingKey} \cup
       {VariantsFor(s.waitingKey)[i] : i \in DOMAIN VariantsFor(s.waitingKey)}
Texts(s) ==
  IF GestureActive(s) THEN {<<[code |-> s.waitingKeyCode, text |-> x]>> : x \in Spoken(s)}
  ELSE {<<>>}

\* How a step may leave the engine: with the same key withheld, with none, with
\* another one, or with a text typed past the gesture.
Still(s, t) ==
  /\ t.out = <<>> /\ t.waitingKeyCode = s.waitingKeyCode
  /\ GestureActive(t) <=> GestureActive(s)
Settles(s, t) == t.out \in Texts(s) /\ ~GestureActive(t)
Starts(s, t, k) ==
  /\ t.out \in Texts(s)
  /\ t.waitingKeyCode = k /\ GestureActive(t)
  /\ GestureActive(s) => s.waitingKeyCode # k
Types(s, t, k) ==
  /\ \E o \in Texts(s) : t.out = Append(o, [code |-> k, text |-> KeyText[k]])
  /\ ~GestureActive(t)
  /\ GestureActive(s) => s.waitingKeyCode # k
\* What starts or types does so for a key that this step presses, or for one that
\* was answered and repeats.
Speaks(s, t) ==
  /\ t.decision # "Focus" /\ Reading(t)
  /\ \/ Still(s, t) \/ Settles(s, t)
     \/ \E k \in Keys : /\ Starts(s, t, k) \/ Types(s, t, k)
                       /\ Withheld!Pressed(k)
     \/ \E k \in Keys : /\ Starts(s, t, k) /\ ~GestureActive(s)
                       /\ Withheld!Repeated(k)

-----------------------------------------------------------------------------
(* What the helpers leave alone *)

\* The same gesture says the same.
LEMMA FrozenPredicates ==
  ASSUME NEW s, NEW t, Frozen(s, t)
  PROVE  /\ Waiting(t) <=> Waiting(s)
         /\ Cycling(t) <=> Cycling(s)
         /\ GestureActive(t) <=> GestureActive(s)
         /\ Reading(s) <=> Reading(t)
         /\ Texts(t) = Texts(s)
         /\ \A u : Frozen(t, u) => Frozen(s, u)
<1>1. /\ Waiting(t) <=> Waiting(s)
      /\ Cycling(t) <=> Cycling(s)
      /\ GestureActive(t) <=> GestureActive(s)
  BY DEF Frozen, Waiting, Cycling, GestureActive
<1>2. Reading(s) <=> Reading(t)  BY <1>1 DEF Frozen, Reading
<1>3. Spoken(t) = Spoken(s)  BY <1>1 DEF Frozen, Spoken
<1>4. Texts(t) = Texts(s)  BY <1>1, <1>3 DEF Frozen, Texts
<1>5. \A u : Frozen(t, u) => Frozen(s, u)  BY DEF Frozen
<1> QED BY <1>1, <1>2, <1>4, <1>5

\* Decisions, armed releases and the overlay's wait belong to no gesture.
LEMMA SettersFreeze ==
  ASSUME NEW s \in EngineState
  PROVE  /\ Frozen(s, s)
         /\ Frozen(s, Consume(s)) /\ Frozen(s, Forward(s))
         /\ \A k, b : Frozen(s, ArmCommitted(s, k, b))
         /\ \A k : Frozen(s, [s EXCEPT !.consumedAltCode = k])
         /\ \A n : Frozen(s, [s EXCEPT !.overlayShowTimer = n])
         /\ \A n, m : Frozen(s, [s EXCEPT !.windowTimer = n, !.autoSelectTimer = m])
         /\ Frozen(s, CancelGestureTimers(s))
<1>1. Frozen(s, s)  BY DEF Frozen
<1>2. Frozen(s, Consume(s)) /\ Frozen(s, Forward(s))
  BY DEF Frozen, Consume, Forward, EngineState
<1>3. \A k, b : Frozen(s, ArmCommitted(s, k, b))  BY DEF Frozen, ArmCommitted, EngineState
<1>4. \A k : Frozen(s, [s EXCEPT !.consumedAltCode = k])  BY DEF Frozen, EngineState
<1>5. \A n : Frozen(s, [s EXCEPT !.overlayShowTimer = n])  BY DEF Frozen, EngineState
<1>6. \A n, m : Frozen(s, [s EXCEPT !.windowTimer = n, !.autoSelectTimer = m])
  BY DEF Frozen, EngineState
<1>7. Frozen(s, CancelGestureTimers(s))  BY DEF Frozen, CancelGestureTimers, EngineState
<1> QED BY <1>1, <1>2, <1>3, <1>4, <1>5, <1>6, <1>7

\* A step starts with nothing said.
LEMMA FreshSilent ==
  ASSUME NEW s \in EngineState
  PROVE  LET t == Fresh(s) IN
         /\ t.out = <<>> /\ t.decision # "Focus"
         /\ t.waitingKey = s.waitingKey /\ t.waitingKeyCode = s.waitingKeyCode
         /\ t.cyclingInput = s.cyclingInput /\ t.cyclingIndex = s.cyclingIndex
         /\ t.elapsed = s.elapsed
         /\ Reading(s) <=> Reading(t)
         /\ GestureActive(t) <=> GestureActive(s)
         /\ Texts(t) = Texts(s)
<1> DEFINE t == Fresh(s)
<1>1. /\ t.out = <<>> /\ t.decision # "Focus"
      /\ t.waitingKey = s.waitingKey /\ t.waitingKeyCode = s.waitingKeyCode
      /\ t.cyclingInput = s.cyclingInput /\ t.cyclingIndex = s.cyclingIndex
      /\ t.elapsed = s.elapsed
  BY DEF Fresh, EngineState
<1> HIDE DEF t
<1>2. /\ Waiting(t) <=> Waiting(s)
      /\ Cycling(t) <=> Cycling(s)
      /\ GestureActive(t) <=> GestureActive(s)
  BY <1>1 DEF Waiting, Cycling, GestureActive
<1>3. Reading(s) <=> Reading(t)  BY <1>1, <1>2 DEF Reading
<1>4. Spoken(t) = Spoken(s)  BY <1>1, <1>2 DEF Spoken
<1>5. Texts(t) = Texts(s)  BY <1>1, <1>2, <1>4 DEF Texts
<1> QED BY <1>1, <1>2, <1>3, <1>5 DEF t

\* Neither does the overlay say anything.
LEMMA OverlayFreezes ==
  ASSUME NEW s \in EngineState
  PROVE  /\ Frozen(s, OverlayHideAll(s))
         /\ Frozen(s, HideTriggerOverlay(s))
         /\ \A v \in Seq(Variants), i \in Int :
              /\ Frozen(s, OverlayShowVariants(s, v, i))
              /\ Frozen(s, FlashCommitOverlay(s, v))
         /\ \A input \in Inputs \cup {NoText}, v \in Seq(Variants) :
              Frozen(s, ShowGestureOverlay(s, input, v))
<1>1. ASSUME NEW t \in EngineState, NEW v, NEW j
      PROVE  Frozen(t, OverlayShowVariants(t, v, j))
  BY DEF OverlayShowVariants, Frozen, EngineState
<1>2. ASSUME NEW t \in EngineState PROVE Frozen(t, OverlayHideAll(t))
  BY DEF OverlayHideAll, Frozen, EngineState
<1>3. ASSUME NEW t \in EngineState, NEW n PROVE Frozen(t, [t EXCEPT !.overlayShowTimer = n])
  BY SettersFreeze
<1>4. [s EXCEPT !.overlayShowTimer = NoShow] \in EngineState
  BY NoShowType
<1>5. Frozen(s, HideTriggerOverlay(s))
  BY <1>2, <1>3, <1>4, FrozenPredicates DEF HideTriggerOverlay
<1>6. ASSUME NEW t \in EngineState, NEW b PROVE Frozen(t, [t EXCEPT !.overlayHideTimer = b])
  BY DEF Frozen, EngineState
<1>7. ASSUME NEW v \in Seq(Variants) PROVE Frozen(s, FlashCommitOverlay(s, v))
  <2> DEFINE t == [s EXCEPT !.overlayShowTimer = NoShow]
             u == OverlayShowVariants(t, v, 0)
  <2>1. u \in EngineState  BY <1>4, OverlayShowVariantsType
  <2>2. Frozen(s, t) /\ Frozen(t, u)  BY <1>1, <1>3, <1>4
  <2>3. Frozen(u, [u EXCEPT !.overlayHideTimer = TRUE])
    <3> HIDE DEF u
    <3> QED BY <1>6, <2>1
  <2> HIDE DEF t, u
  <2>4. FlashCommitOverlay(s, v) = [u EXCEPT !.overlayHideTimer = TRUE]
    BY DEF FlashCommitOverlay, t, u
  <2> QED BY <2>2, <2>3, <2>4, FrozenPredicates
<1>8. ASSUME NEW input, NEW v PROVE Frozen(s, ShowGestureOverlay(s, input, v))
  <2> DEFINE t == [s EXCEPT !.overlayHideTimer = FALSE]
             n == [due |-> EffectiveWindow(config.delay, input).min, input |-> input,
                   variants |-> v]
  <2>1. t \in EngineState  BY DEF EngineState
  <2>2. Frozen(s, t)  BY <1>6
  <2>3. Frozen(t, OverlayShowVariants(t, v, -1))
    <3> HIDE DEF t
    <3> QED BY <1>1, <2>1
  <2>4. Frozen(t, [t EXCEPT !.overlayShowTimer = n])
    <3> HIDE DEF t, n
    <3> QED BY <1>3, <2>1
  <2>5. \/ ShowGestureOverlay(s, input, v) = s
        \/ ShowGestureOverlay(s, input, v) = OverlayShowVariants(t, v, -1)
        \/ ShowGestureOverlay(s, input, v) = [t EXCEPT !.overlayShowTimer = n]
    BY DEF ShowGestureOverlay
  <2>6. Frozen(s, s)  BY DEF Frozen
  <2> HIDE DEF t, n
  <2> QED BY <2>2, <2>3, <2>4, <2>5, <2>6, FrozenPredicates
<1> QED BY <1>1, <1>2, <1>5, <1>7, <1>8

-----------------------------------------------------------------------------
(* What the helpers say *)

\* A committed text is the last one said, and nothing else changes.
LEMMA CommitTextSays ==
  ASSUME NEW s \in EngineState, NEW k, NEW v
  PROVE  LET t == CommitText(s, k, v) IN
         /\ t.out = Append(s.out, [code |-> k, text |-> v])
         /\ t.waitingKey = s.waitingKey /\ t.waitingKeyCode = s.waitingKeyCode
         /\ t.cyclingInput = s.cyclingInput /\ t.cyclingIndex = s.cyclingIndex
         /\ t.decision = s.decision
BY DEF CommitText, EngineState

\* A committed variant answers the gesture's key.
LEMMA CommitVariantSays ==
  ASSUME NEW s \in EngineState, NEW input, NEW v
  PROVE  LET t == CommitVariant(s, input, v) IN
         /\ t.out = Append(s.out, [code |-> s.waitingKeyCode, text |-> v])
         /\ t.waitingKey = s.waitingKey /\ t.waitingKeyCode = s.waitingKeyCode
         /\ t.cyclingInput = s.cyclingInput /\ t.cyclingIndex = s.cyclingIndex
         /\ t.decision = s.decision
<1> DEFINE a == CommitText(s, s.waitingKeyCode, v)
           n == IF config.sortByFrequency THEN input ELSE NoText
           d == a.usageDirty \/ config.sortByFrequency
           t == [a EXCEPT !.used = n, !.usageDirty = d]
<1>1. /\ a.out = Append(s.out, [code |-> s.waitingKeyCode, text |-> v])
      /\ a.waitingKey = s.waitingKey /\ a.waitingKeyCode = s.waitingKeyCode
      /\ a.cyclingInput = s.cyclingInput /\ a.cyclingIndex = s.cyclingIndex
      /\ a.decision = s.decision
  BY CommitTextSays
<1>2. DOMAIN a = DOMAIN s  BY DEF CommitText, EngineState
<1>3. CommitVariant(s, input, v) = t  BY DEF CommitVariant
<1>4. /\ t.out = a.out
      /\ t.waitingKey = a.waitingKey /\ t.waitingKeyCode = a.waitingKeyCode
      /\ t.cyclingInput = a.cyclingInput /\ t.cyclingIndex = a.cyclingIndex
      /\ t.decision = a.decision
  <2>1. /\ "out" \in DOMAIN a /\ "waitingKey" \in DOMAIN a /\ "waitingKeyCode" \in DOMAIN a
        /\ "cyclingInput" \in DOMAIN a /\ "cyclingIndex" \in DOMAIN a /\ "decision" \in DOMAIN a
    <3> HIDE DEF a
    <3> QED BY <1>2 DEF EngineState
  <2> HIDE DEF a, n, d
  <2> QED BY <2>1
<1> HIDE DEF a, t
<1> QED BY <1>1, <1>3, <1>4

\* Committing the plain character says it, if nothing was said before.
LEMMA CommitPendingKeySays ==
  ASSUME NEW s \in EngineState, s.out = <<>>, Waiting(s)
  PROVE  LET t == CommitPendingKey(s) IN
         /\ t.out = <<[code |-> s.waitingKeyCode, text |-> s.waitingKey]>>
         /\ s.decision # "Focus" => t.decision # "Focus"
<1> DEFINE a == HideTriggerOverlay(s)
           b == CommitText(a, s.waitingKeyCode, s.waitingKey)
           c == ResetWaiting(b)
           t == [c EXCEPT !.windowTimer = NoTimer, !.autoSelectTimer = NoTimer]
<1>1. s.waitingKeyCode \in Keys \cup {NoKey} /\ s.waitingKey \in Inputs \cup {NoText}
  BY DEF EngineState
<1>2. a \in EngineState /\ Frozen(s, a)
  BY HideTriggerOverlayType, OverlayFreezes DEF NoText
<1>3. s.waitingKey \in STRING  BY <1>1, TextTypes
<1>4. CommitPendingKey(s) = t  BY DEF CommitPendingKey
<1> HIDE DEF a
<1>5. b \in EngineState  BY <1>1, <1>2, <1>3, CommitTextType
<1>6. /\ b.out = Append(a.out, [code |-> s.waitingKeyCode, text |-> s.waitingKey])
      /\ b.decision = a.decision
  BY <1>2, CommitTextSays
<1> HIDE DEF b
<1>7. c \in EngineState  BY <1>5, SettersType
<1>8. c.out = b.out /\ c.decision = b.decision  BY <1>5 DEF ResetWaiting, EngineState
<1> HIDE DEF c
<1>9. t.out = c.out /\ t.decision = c.decision  BY <1>7 DEF EngineState
<1> HIDE DEF t
<1>10. a.out = <<>>  BY <1>2 DEF Frozen
<1>11. t.out = <<[code |-> s.waitingKeyCode, text |-> s.waitingKey]>>
  BY <1>6, <1>8, <1>9, <1>10
<1> QED BY <1>2, <1>4, <1>6, <1>8, <1>9, <1>11 DEF Frozen

\* Committing the cycle says the selected variant.
LEMMA CommitCyclingValueSays ==
  ASSUME Config, NEW s \in EngineState, s.out = <<>>, Cycling(s), Reading(s)
  PROVE  LET t == CommitCyclingValue(s) IN
         /\ t.out = <<[code |-> s.waitingKeyCode,
                       text |-> VariantsFor(s.cyclingInput)[s.cyclingIndex + 1]]>>
         /\ s.decision # "Focus" => t.decision # "Focus"
<1> DEFINE v == VariantsFor(s.cyclingInput)
           x == v[s.cyclingIndex + 1]
           a == CommitVariant(s, s.cyclingInput, x)
           b == ResetCycling(ResetWaiting(a))
<1>1. s.cyclingInput \in Inputs \cup {NoText} /\ s.cyclingIndex \in Nat
      /\ s.cyclingIndex < Len(v)
  BY DEF EngineState, Reading
<1>2. x \in STRING
  <2>1. Len(v) \in Nat /\ \A i \in 1..Len(v) : v[i] \in STRING
    BY VariantsForType DEF Config
  <2> HIDE DEF v
  <2> QED BY <1>1, <2>1
<1>3. CommitCyclingValue(s) = OverlayHideAll(b)  BY <1>1 DEF CommitCyclingValue
<1> HIDE DEF v, x
<1>4. a \in EngineState  BY <1>1, <1>2, CommitVariantType
<1>5. /\ a.out = Append(s.out, [code |-> s.waitingKeyCode, text |-> x])
      /\ a.decision = s.decision
  BY CommitVariantSays
<1> HIDE DEF a
<1>6. ResetWaiting(a) \in EngineState /\ b \in EngineState  BY <1>4, SettersType
<1>7. b.out = a.out /\ b.decision = a.decision
  BY <1>4, <1>6 DEF ResetWaiting, ResetCycling, EngineState
<1> HIDE DEF b
<1>8. Frozen(b, OverlayHideAll(b))  BY <1>6, OverlayFreezes DEF NoText
<1>9. b.out = <<[code |-> s.waitingKeyCode, text |-> x]>>  BY <1>5, <1>7
<1> QED BY <1>3, <1>5, <1>7, <1>8, <1>9 DEF Frozen, v, x

\* Whichever is open, committing the gesture says one text; with none, nothing.
LEMMA CommitGestureSays ==
  ASSUME Config, NEW s \in EngineState, s.out = <<>>, Owned(s), Reading(s)
  PROVE  LET t == CommitGesture(s) IN
         /\ Settles(s, t)
         /\ s.decision # "Focus" => t.decision # "Focus"
         /\ ~GestureActive(s) => t = s
<1> DEFINE a == CommitPendingKey(s)
           t == CommitCyclingValue(a)
<1>1. ~GestureActive(CommitGesture(s))  BY CommitGestureEnds, EndedOwners
<1>2. a \in EngineState  BY CommitPendingKeyType
<1>3. ~Cycling(a) => t = a  BY <1>2, CommitCyclingValueEnds
<1>4. ~Waiting(s) => a = s  BY CommitPendingKeyEnds
<1>5. CASE Waiting(s)
  <2>1. ~Cycling(s)  BY <1>5 DEF Owned
  <2>2. ~Cycling(a)  BY <1>5, <2>1, CommitPendingKeyEnds DEF Cycling
  <2>3. /\ a.out = <<[code |-> s.waitingKeyCode, text |-> s.waitingKey]>>
        /\ s.decision # "Focus" => a.decision # "Focus"
    BY <1>5, CommitPendingKeySays
  <2>4. s.waitingKey \in Spoken(s)  BY <2>1 DEF Spoken
  <2>5. a.out \in Texts(s)  BY <1>5, <2>3, <2>4 DEF Texts, GestureActive
  <2> QED BY <1>1, <1>3, <1>5, <2>2, <2>3, <2>5 DEF CommitGesture, Settles, GestureActive
<1>6. CASE ~Waiting(s) /\ Cycling(s)
  <2>1. /\ t.out = <<[code |-> s.waitingKeyCode,
                      text |-> VariantsFor(s.cyclingInput)[s.cyclingIndex + 1]]>>
        /\ s.decision # "Focus" => t.decision # "Focus"
    BY <1>4, <1>6, CommitCyclingValueSays
  <2>2. t.out \in Texts(s)  BY <1>6, <2>1 DEF Texts, Spoken, GestureActive
  <2> QED BY <1>1, <1>6, <2>1, <2>2 DEF CommitGesture, Settles, GestureActive
<1>7. CASE ~GestureActive(s)
  <2>1. t = s  BY <1>3, <1>4, <1>7 DEF GestureActive
  <2> QED BY <1>7, <2>1 DEF CommitGesture, Settles, Texts
<1> QED BY <1>5, <1>6, <1>7 DEF GestureActive

\* So does a window that elapses.
LEMMA CommitExpiredSays ==
  ASSUME NEW s \in EngineState, s.out = <<>>, Owned(s), Waiting(s)
  PROVE  LET t == CommitExpired(s) IN
         /\ Settles(s, t)
         /\ s.decision # "Focus" => t.decision # "Focus"
<1> DEFINE a == CommitPendingKey(s)
           t == ArmCommitted(a, s.waitingKeyCode, FALSE)
<1>1. CommitExpired(s) = t \/ CommitExpired(s) = a  BY DEF CommitExpired
<1>2. /\ a.out = <<[code |-> s.waitingKeyCode, text |-> s.waitingKey]>>
      /\ s.decision # "Focus" => a.decision # "Focus"
  BY CommitPendingKeySays
<1>3. a \in EngineState  BY CommitPendingKeyType
<1>4. ~GestureActive(CommitExpired(s))  BY CommitExpiredOwners
<1> HIDE DEF a
<1>5. Frozen(a, t)  BY <1>3, SettersFreeze
<1> HIDE DEF t
<1>6. s.waitingKey \in Spoken(s)  BY DEF Spoken, Owned
<1>7. a.out \in Texts(s)  BY <1>2, <1>6 DEF Texts, GestureActive
<1> QED BY <1>1, <1>2, <1>4, <1>5, <1>7 DEF Frozen, Settles

-----------------------------------------------------------------------------
(* What starts, opens, steps or ends a gesture *)

\* A key that is withheld says nothing yet.
LEMMA StartGestureSays ==
  ASSUME Config, NonEmpty(umlautMap), NEW s \in EngineState, ~Cycling(s),
         NEW k \in Keys, KeyText[k] \in DOMAIN umlautMap,
         NEW v \in Seq(Variants)
  PROVE  LET t == StartGesture(s, k, v) IN
         /\ t.out = s.out /\ t.decision = "Consume"
         /\ t.waitingKeyCode = k /\ GestureActive(t) /\ Reading(t)
<1> DEFINE w == EffectiveWindow(config.delay, KeyText[k])
           wt == IF w.unlimited THEN NoTimer ELSE w.max
           at == IF config.autoSelect THEN config.autoSelectMs ELSE NoTimer
           a == [s EXCEPT !.waitingKey = KeyText[k], !.waitingKeyCode = k,
                          !.inputKeyPressed = TRUE, !.elapsed = 0,
                          !.windowTimer = wt, !.autoSelectTimer = at]
           b == ShowGestureOverlay(a, KeyText[k], v)
           t == Consume(b)
<1>1. KeyText[k] \in Inputs /\ KeyText[k] # NoText
  BY EngineAssumption DEF EngineAssumption, Config, IsUmlautMap
<1>2. wt \in Nat /\ at \in Nat
  BY EffectiveWindowType DEF Config, EngineConfig, NoTimer
<1>3. a \in EngineState
  <2> HIDE DEF wt, at
  <2> QED BY <1>1, <1>2 DEF EngineState
<1>4. /\ a.waitingKey = KeyText[k] /\ a.waitingKeyCode = k
      /\ a.cyclingInput = s.cyclingInput /\ a.out = s.out
  <2> HIDE DEF wt, at
  <2> QED BY DEF EngineState
<1>5. StartGesture(s, k, v) = t  BY DEF StartGesture
<1> HIDE DEF a
<1>6. 0 \in Int  OBVIOUS
<1>7. b \in EngineState /\ Frozen(a, b)
  BY <1>1, <1>3, <1>6, ShowGestureOverlayType, OverlayFreezes
<1> HIDE DEF b
<1>8. Frozen(b, t) /\ t.decision = "Consume"  BY <1>7, SettersFreeze, SettersFrame
<1> HIDE DEF t
<1>9. /\ t.waitingKey = KeyText[k] /\ t.waitingKeyCode = k
      /\ t.cyclingInput = s.cyclingInput /\ t.out = s.out
  BY <1>4, <1>7, <1>8 DEF Frozen
<1>10. Waiting(t) /\ ~Cycling(t)  BY <1>1, <1>9 DEF Waiting, Cycling
<1>11. VariantsFor(KeyText[k]) # <<>>  BY DEF VariantsFor, NonEmpty
<1>12. Reading(t)  BY <1>9, <1>10, <1>11 DEF Reading
<1> QED BY <1>5, <1>8, <1>9, <1>10, <1>12 DEF GestureActive

\* Opening the cycle selects one of the variants of the withheld key.
LEMMA EnterCyclingSays ==
  ASSUME Config, NEW s \in EngineState, Waiting(s), Owned(s), Reading(s),
         NEW i \in Nat, i < Len(VariantsFor(s.waitingKey))
  PROVE  LET t == EnterCycling(s, s.waitingKey, i) IN
         /\ t.out = s.out /\ (s.decision # "Focus" => t.decision # "Focus")
         /\ t.waitingKeyCode = s.waitingKeyCode /\ GestureActive(t) /\ Reading(t)
<1> DEFINE input == s.waitingKey
           a == [s EXCEPT !.cyclingInput = input, !.cyclingIndex = i, !.waitingKey = NoText]
           t == OverlayShowVariants(a, VariantsFor(input), i)
<1>1. VariantsFor(input) \in Seq(Variants)  BY VariantsForType DEF Config
<1>2. a \in EngineState  BY DEF EngineState, NoText
<1>3. /\ a.waitingKey = NoText /\ a.waitingKeyCode = s.waitingKeyCode
      /\ a.cyclingInput = input /\ a.cyclingIndex = i
      /\ a.out = s.out /\ a.decision = s.decision
  BY DEF EngineState
<1>4. EnterCycling(s, input, i) = t  BY DEF EnterCycling, Reading
<1> HIDE DEF a
<1>5. i \in Int  OBVIOUS
<1>6. Frozen(a, t)  BY <1>1, <1>2, <1>5, OverlayFreezes
<1> HIDE DEF t
<1>7. /\ t.waitingKey = NoText /\ t.waitingKeyCode = s.waitingKeyCode
      /\ t.cyclingInput = input /\ t.cyclingIndex = i /\ t.out = s.out
      /\ s.decision # "Focus" => t.decision # "Focus"
  BY <1>3, <1>6 DEF Frozen
<1>8. ~Waiting(t) /\ Cycling(t)  BY <1>7 DEF Waiting, Cycling
<1>9. Reading(t)  BY <1>7, <1>8 DEF Reading
<1> QED BY <1>4, <1>7, <1>8, <1>9 DEF GestureActive

\* A step of the cycle selects another one of them.
LEMMA StepCyclingSays ==
  ASSUME Config, NEW s \in EngineState, NEW k \in Keys, Cycling(s), Owned(s), Reading(s)
  PROVE  LET t == StepCycling(s, k) IN
         /\ t.out = s.out /\ (s.decision # "Focus" => t.decision # "Focus")
         /\ t.waitingKeyCode = s.waitingKeyCode /\ GestureActive(t) /\ Reading(t)
<1> DEFINE m == Len(VariantsFor(s.cyclingInput))
           n == (s.cyclingIndex + LeaderStep(config.leader, k)) % m
           a == [s EXCEPT !.cyclingIndex = n]
           t == OverlayShowVariants(a, VariantsFor(s.cyclingInput), n)
<1>1. VariantsFor(s.cyclingInput) \in Seq(Variants)  BY VariantsForType DEF Config
<1>2. m \in Nat /\ m > 0
  <2>1. m \in Nat /\ s.cyclingIndex \in Nat /\ s.cyclingIndex < m
    BY VariantsForType DEF Config, EngineState, Reading
  <2> HIDE DEF m
  <2> QED BY <2>1
<1>3. n \in 0..(m - 1)
  <2>1. s.cyclingIndex + LeaderStep(config.leader, k) \in Int  BY DEF EngineState, LeaderStep
  <2> HIDE DEF m
  <2> QED BY <1>2, <2>1, ModuloType
<1>4. n \in Nat /\ n \in Int /\ n < m
  <2> HIDE DEF m, n
  <2> QED BY <1>2, <1>3
<1>5. StepCycling(s, k) = s \/ StepCycling(s, k) = t  BY DEF StepCycling
<1> HIDE DEF n
<1>6. a \in EngineState  BY <1>4 DEF EngineState
<1>7. /\ a.waitingKey = s.waitingKey /\ a.waitingKeyCode = s.waitingKeyCode
      /\ a.cyclingInput = s.cyclingInput /\ a.cyclingIndex = n
      /\ a.out = s.out /\ a.decision = s.decision
  BY DEF EngineState
<1> HIDE DEF a
<1>8. Frozen(a, t)  BY <1>1, <1>4, <1>6, OverlayFreezes
<1> HIDE DEF t
<1>9. /\ t.waitingKey = s.waitingKey /\ t.waitingKeyCode = s.waitingKeyCode
      /\ t.cyclingInput = s.cyclingInput /\ t.cyclingIndex = n /\ t.out = s.out
      /\ s.decision # "Focus" => t.decision # "Focus"
  BY <1>7, <1>8 DEF Frozen
<1>10. Cycling(t) /\ ~Waiting(t)  BY <1>9 DEF Waiting, Cycling, Owned
<1>11. Reading(t)  BY <1>4, <1>9, <1>10 DEF Reading
<1> QED BY <1>5, <1>9, <1>10, <1>11 DEF GestureActive

\* The first leader selects a variant, or says the only one.
LEMMA OpenGestureSays ==
  ASSUME Config, NEW s \in EngineState, NEW k \in Keys, s.out = <<>>,
         Owned(s), Waiting(s), Reading(s)
  PROVE  LET t == OpenGesture(s, k) IN
         /\ Still(s, t) \/ Settles(s, t)
         /\ Reading(t) /\ (s.decision # "Focus" => t.decision # "Focus")
<1> DEFINE input    == s.waitingKey
           variants == VariantsFor(input)
           start    == IF LeaderStep(config.leader, k) < 0 THEN Len(variants) - 1 ELSE 0
           f        == IF s.overlayVisible THEN FlashCommitOverlay(s, variants)
                       ELSE HideTriggerOverlay(s)
           c        == CommitVariant(f, input, variants[1])
           a        == ArmCommitted(c, s.waitingKeyCode, TRUE)
           single   == ResetWaiting(a)
           e        == EnterCycling(s, input, start)
           t        == IF Len(variants) > 1 THEN e ELSE single
           u        == [t EXCEPT !.windowTimer = NoTimer, !.autoSelectTimer = NoTimer]
<1>1. input \in Inputs \cup {NoText} /\ s.waitingKeyCode \in Keys \cup {NoKey}
  BY DEF EngineState
<1>2. Len(variants) \in Nat /\ Len(variants) > 0 /\ variants[1] \in STRING
      /\ 1 \in DOMAIN variants /\ variants \in Seq(Variants)
  <2>1. /\ variants \in Seq(Variants) /\ variants # <<>>
        /\ Len(variants) \in Nat /\ Len(variants) > 0
        /\ \A i \in 1..Len(variants) : variants[i] \in STRING
    BY VariantsForType DEF Config, Reading
  <2> HIDE DEF variants
  <2> QED BY <2>1
<1>3. start \in Nat /\ start < Len(variants)
  <2> HIDE DEF variants
  <2> QED BY <1>2
<1>4. OpenGesture(s, k) = u
  <2>1. OpenGesture(s, k) = [t EXCEPT !.autoSelectTimer = NoTimer, !.windowTimer = NoTimer]
    BY DEF OpenGesture
  <2>2. t \in EngineState
    <3>1. e \in EngineState
      <4> HIDE DEF start
      <4> QED BY <1>1, <1>3, EnterCyclingType
    <3>2. f \in EngineState
      <4> HIDE DEF variants
      <4> QED BY <1>2, FlashCommitOverlayType, HideTriggerOverlayType
    <3>3. single \in EngineState
      <4> HIDE DEF f, input, variants
      <4> QED BY <1>1, <1>2, <3>2, CommitVariantType, ArmCommittedType, SettersType
    <3> HIDE DEF e, single
    <3> QED BY <3>1, <3>3
  <2> HIDE DEF t
  <2> QED BY <2>1, <2>2 DEF EngineState
<1>5. CASE Len(variants) > 1
  <2>1. /\ e.out = s.out /\ (s.decision # "Focus" => e.decision # "Focus")
        /\ e.waitingKeyCode = s.waitingKeyCode /\ GestureActive(e) /\ Reading(e)
    <3> HIDE DEF start
    <3> QED BY <1>3, EnterCyclingSays
  <2>2. e \in EngineState
    <3> HIDE DEF start
    <3> QED BY <1>1, <1>3, EnterCyclingType
  <2>3. t = e  BY <1>5
  <2> HIDE DEF t, e
  <2>4. Frozen(e, u)  BY <2>2, <2>3, SettersFreeze
  <2> HIDE DEF u
  <2>5. Reading(u) /\ GestureActive(u)  BY <2>1, <2>4, FrozenPredicates
  <2>6. u.out = <<>> /\ u.waitingKeyCode = s.waitingKeyCode
        /\ (s.decision # "Focus" => u.decision # "Focus")
    BY <2>1, <2>4 DEF Frozen
  <2>7. Still(s, u)  BY <2>5, <2>6 DEF Still, GestureActive
  <2> QED BY <1>4, <2>5, <2>6, <2>7
<1>6. CASE ~(Len(variants) > 1)
  <2>1. f \in EngineState /\ Frozen(s, f)
    <3> HIDE DEF variants
    <3>1. 0 \in Int  OBVIOUS
    <3>2. FlashCommitOverlay(s, variants) \in EngineState /\ HideTriggerOverlay(s) \in EngineState
      BY <1>2, FlashCommitOverlayType, HideTriggerOverlayType
    <3> QED BY <1>2, <3>1, <3>2, OverlayFreezes
  <2>2. f.waitingKeyCode = s.waitingKeyCode /\ f.out = <<>>
        /\ f.cyclingInput = s.cyclingInput
        /\ (s.decision # "Focus" => f.decision # "Focus")
    BY <2>1 DEF Frozen
  <2> HIDE DEF f
  <2>3. /\ c.out = Append(f.out, [code |-> f.waitingKeyCode, text |-> variants[1]])
        /\ c.cyclingInput = f.cyclingInput /\ c.decision = f.decision
    BY <2>1, CommitVariantSays
  <2>4. c \in EngineState
    <3> HIDE DEF input, variants
    <3> QED BY <1>1, <1>2, <2>1, CommitVariantType
  <2>5. c.out = <<[code |-> s.waitingKeyCode, text |-> variants[1]]>>
    <3> HIDE DEF c, variants
    <3> QED BY <2>2, <2>3
  <2> HIDE DEF c
  <2>6. a \in EngineState /\ Frozen(c, a)  BY <1>1, <2>4, ArmCommittedType, SettersFreeze
  <2> HIDE DEF a
  <2>7. /\ single \in EngineState
        /\ single.out = a.out /\ single.decision = a.decision
        /\ single.waitingKey = NoText /\ single.cyclingInput = a.cyclingInput
    <3>1. single \in EngineState  BY <2>6, SettersType
    <3> QED BY <2>6, <3>1 DEF ResetWaiting, EngineState
  <2>8. t = single  BY <1>6
  <2> HIDE DEF t, single
  <2>9. Frozen(single, u)  BY <2>7, <2>8, SettersFreeze
  <2> HIDE DEF u
  <2>10. /\ u.out = <<[code |-> s.waitingKeyCode, text |-> variants[1]]>>
         /\ s.decision # "Focus" => u.decision # "Focus"
         /\ u.waitingKey = NoText /\ u.cyclingInput = s.cyclingInput
    BY <2>2, <2>3, <2>5, <2>6, <2>7, <2>9 DEF Frozen
  <2>11. ~Cycling(s)  BY DEF Owned
  <2>12. ~GestureActive(u) /\ Reading(u)
    BY <2>10, <2>11 DEF GestureActive, Waiting, Cycling, Reading
  <2>13. variants[1] \in Spoken(s)  BY <1>2, <2>11 DEF Spoken
  <2>14. Settles(s, u)  BY <2>10, <2>12, <2>13 DEF Settles, Texts, GestureActive
  <2> QED BY <1>4, <2>10, <2>12, <2>14
<1> QED BY <1>5, <1>6

\* A swallowed leader says nothing itself.
LEMMA ConsumeLeaderFreezes ==
  ASSUME NEW s \in EngineState, NEW k \in Keys
  PROVE  Frozen(s, ConsumeLeader(s, k)) /\ ConsumeLeader(s, k).decision = "Consume"
<1> DEFINE c == IF IsAltLeaderSym(k) THEN k ELSE s.consumedAltCode
           a == [s EXCEPT !.consumedAltCode = c]
<1>1. c \in Keys \cup {NoKey}  BY DEF EngineState
<1>2. ConsumeLeader(s, k) = Consume(a)  BY DEF ConsumeLeader
<1> HIDE DEF c
<1>3. a \in EngineState  BY <1>1 DEF EngineState
<1>4. Frozen(s, a)  BY SettersFreeze
<1> HIDE DEF a
<1>5. Frozen(a, Consume(a)) /\ Consume(a).decision = "Consume"
  BY <1>3, SettersFreeze, SettersFrame
<1> QED BY <1>2, <1>4, <1>5, FrozenPredicates

\* The same said from the same gesture.
LEMMA SaysFrozen ==
  ASSUME NEW s, NEW t, NEW u, NEW v, Frozen(s, t), Frozen(u, v)
  PROVE  /\ Still(t, u) => Still(s, v)
         /\ Settles(t, u) => Settles(s, v)
BY FrozenPredicates DEF Frozen, Still, Settles

\* What a leader does: it settles the gesture or leaves it open, and it passes to
\* the application only if no gesture is open any more.
LEMMA HandleLeaderSays ==
  ASSUME Config, NEW s \in EngineState, NEW k \in Keys, s.out = <<>>,
         Owned(s), Reading(s), Waiting(s) => ~Expired(s)
  PROVE  LET t == HandleLeader(s, k) IN
         /\ Still(s, t) \/ Settles(s, t)
         /\ Reading(t) /\ t.decision \in {"Consume", "Forward"}
         /\ t.decision = "Forward" => ~GestureActive(t)
<1> DEFINE a == [s EXCEPT !.overlayShowTimer = NoShow]
           Post(t) == /\ Still(s, t) \/ Settles(s, t)
                      /\ Reading(t) /\ t.decision \in {"Consume", "Forward"}
                      /\ t.decision = "Forward" => ~GestureActive(t)
<1>1. /\ a \in EngineState /\ Same(s, a) /\ Frozen(s, a)
      /\ a.elapsed = s.elapsed /\ a.waitingKey = s.waitingKey
  <2>1. a \in EngineState  BY NoShowType
  <2>2. Frozen(s, a)  BY SettersFreeze
  <2>3. Same(s, a) /\ a.elapsed = s.elapsed /\ a.waitingKey = s.waitingKey
    BY DEF EngineState, Same
  <2> QED BY <2>1, <2>2, <2>3
<1> HIDE DEF a
<1>2. /\ Owned(a) /\ Reading(a) /\ a.out = <<>>
      /\ Waiting(a) => ~Expired(a)
  BY <1>1, SameOwners, FrozenPredicates DEF Frozen, Expired, WindowFor
<1>3. ASSUME Waiting(a)
      PROVE  Post(Forward(CommitPendingKey(ArmCommitted(a, a.waitingKeyCode, TRUE))))
  <2> DEFINE b == ArmCommitted(a, a.waitingKeyCode, TRUE)
             c == CommitPendingKey(b)
             d == Forward(c)
  <2>1. a.waitingKeyCode \in Keys \cup {NoKey}  BY <1>1 DEF EngineState
  <2>2. b \in EngineState /\ Frozen(a, b)  BY <1>1, <2>1, ArmCommittedType, SettersFreeze
  <2> HIDE DEF b
  <2>3. Waiting(b) /\ ~Cycling(b) /\ b.out = <<>>
    BY <1>2, <1>3, <2>2, FrozenPredicates DEF Frozen, Owned
  <2>4. c \in EngineState  BY <2>2, CommitPendingKeyType
  <2>5. /\ c.out = <<[code |-> b.waitingKeyCode, text |-> b.waitingKey]>>
        /\ c.waitingKey = NoText /\ c.cyclingInput = b.cyclingInput
    BY <2>2, <2>3, CommitPendingKeySays, CommitPendingKeyEnds
  <2> HIDE DEF c
  <2>6. ~GestureActive(c) /\ Reading(c)
    BY <2>3, <2>5 DEF GestureActive, Waiting, Cycling, Reading
  <2>7. b.waitingKey \in Spoken(b)  BY <2>3 DEF Spoken
  <2>8. Settles(b, c)  BY <2>3, <2>5, <2>6, <2>7 DEF Settles, Texts, GestureActive
  <2>9. Frozen(c, d) /\ d.decision = "Forward"  BY <2>4, SettersFreeze, SettersFrame
  <2> HIDE DEF d
  <2>10. Frozen(s, b)  BY <1>1, <2>2, FrozenPredicates
  <2>11. Settles(s, d)  BY <2>8, <2>9, <2>10, SaysFrozen
  <2>12. Reading(d) /\ ~GestureActive(d)  BY <2>6, <2>9, FrozenPredicates
  <2> QED BY <2>9, <2>11, <2>12 DEF b, c, d
<1>4. ~(Cycling(a) /\ ~a.inputKeyPressed)
  BY <1>2 DEF Owned, OwnerShape, GestureActive
<1>5. ASSUME Cycling(a) PROVE Post(ConsumeLeader(StepCycling(a, k), k))
  <2> DEFINE b == StepCycling(a, k)
             c == ConsumeLeader(b, k)
  <2>1. /\ b.out = a.out
        /\ b.waitingKeyCode = a.waitingKeyCode /\ GestureActive(b) /\ Reading(b)
    BY <1>1, <1>2, <1>5, StepCyclingSays
  <2>2. b \in EngineState
    <3>1. VariantsFor(a.cyclingInput) # <<>>
      <4>1. /\ Len(VariantsFor(a.cyclingInput)) \in Nat
            /\ a.cyclingIndex < Len(VariantsFor(a.cyclingInput)) /\ a.cyclingIndex \in Nat
        BY <1>1, <1>2, <1>5, VariantsForType DEF Config, Reading, EngineState
      <4> QED BY <4>1
    <3> QED BY <1>1, <3>1, StepCyclingType
  <2> HIDE DEF b
  <2>3. Still(a, b)  BY <1>2, <1>5, <2>1 DEF Still, GestureActive
  <2>4. Frozen(b, c) /\ c.decision = "Consume"  BY <2>2, ConsumeLeaderFreezes
  <2> HIDE DEF c
  <2>5. Still(s, c) /\ Reading(c)  BY <1>1, <2>1, <2>3, <2>4, SaysFrozen, FrozenPredicates
  <2> QED BY <2>4, <2>5 DEF b, c
<1>6. ASSUME Waiting(a) PROVE Post(ConsumeLeader(OpenGesture(a, k), k))
  <2> DEFINE b == OpenGesture(a, k)
             c == ConsumeLeader(b, k)
  <2>1. (Still(a, b) \/ Settles(a, b)) /\ Reading(b)
    BY <1>1, <1>2, <1>6, OpenGestureSays
  <2>2. b \in EngineState  BY <1>1, <1>2, <1>6, OpenGestureType DEF Reading
  <2> HIDE DEF b
  <2>3. Frozen(b, c) /\ c.decision = "Consume"  BY <2>2, ConsumeLeaderFreezes
  <2> HIDE DEF c
  <2>4. (Still(s, c) \/ Settles(s, c)) /\ Reading(c)
    BY <1>1, <2>1, <2>3, SaysFrozen, FrozenPredicates
  <2> QED BY <2>3, <2>4 DEF b, c
<1>7. ASSUME ~Waiting(a), ~Cycling(a) PROVE Post(Forward([a EXCEPT !.consumedAltCode = NoKey]))
  <2> DEFINE b == [a EXCEPT !.consumedAltCode = NoKey]
             c == Forward(b)
  <2>1. b \in EngineState /\ Frozen(a, b)
    <3>1. b \in EngineState  BY ZenonT(60), <1>1 DEF EngineState, NoKey
    <3> QED BY <1>1, <3>1, SettersFreeze
  <2> HIDE DEF b
  <2>2. Frozen(b, c) /\ c.decision = "Forward"  BY <2>1, SettersFreeze, SettersFrame
  <2> HIDE DEF c
  <2>3. Frozen(a, c)  BY <2>1, <2>2, FrozenPredicates
  <2>4. Still(a, a)  BY <1>2 DEF Still
  <2>5. Still(s, c) /\ Reading(c) /\ ~GestureActive(c)
    BY <1>1, <1>2, <1>7, <2>3, <2>4, SaysFrozen, FrozenPredicates DEF GestureActive
  <2> QED BY <2>2, <2>5 DEF b, c
<1>8. Cycling(a) => VariantsFor(a.cyclingInput) # <<>>
  <2>1. SUFFICES ASSUME Cycling(a) PROVE VariantsFor(a.cyclingInput) # <<>>  OBVIOUS
  <2>2. /\ Len(VariantsFor(a.cyclingInput)) \in Nat
        /\ a.cyclingIndex < Len(VariantsFor(a.cyclingInput)) /\ a.cyclingIndex \in Nat
    BY <1>1, <1>2, <2>1, VariantsForType DEF Config, Reading, EngineState
  <2> QED BY <2>2
<1>9. Waiting(a) => VariantsFor(a.waitingKey) # <<>>  BY <1>2 DEF Reading
<1>10. Post(HandleLeader(s, k))
  <2> HIDE DEF Post
  <2> QED BY <1>2, <1>3, <1>4, <1>5, <1>6, <1>7, <1>8, <1>9 DEF HandleLeader, a
<1> QED BY <1>10

\* A profile switch settles the gesture with the old profile's variants.
LEMMA SwitchToProfileSays ==
  ASSUME Config, NEW s \in EngineState, NEW name, s.out = <<>>, Owned(s), Reading(s)
  PROVE  LET t == SwitchToProfile(s, name) IN
         /\ IF IsSwitch(name) THEN Settles(s, t) /\ Reading(t) ELSE t = s
<1> DEFINE c == IF Cycling(s) THEN CommitCyclingValue(s) ELSE CommitPendingKey(s)
           d == CancelGestureTimers(c)
           e == ResetCycling(ResetWaiting(d))
           t == [e EXCEPT !.panel = Profile, !.overlayVisible = TRUE, !.profileFlashTimer = TRUE]
<1>1. c \in EngineState  BY CommitCyclingValueType, CommitPendingKeyType
<1>2. c.out \in Texts(s)
  <2>1. CASE Cycling(s)
    <3>1. c.out = <<[code |-> s.waitingKeyCode,
                     text |-> VariantsFor(s.cyclingInput)[s.cyclingIndex + 1]]>>
      BY <2>1, CommitCyclingValueSays
    <3> QED BY <2>1, <3>1 DEF Texts, Spoken, GestureActive
  <2>2. CASE ~Cycling(s) /\ Waiting(s)
    <3>1. c.out = <<[code |-> s.waitingKeyCode, text |-> s.waitingKey]>>
      BY <2>2, CommitPendingKeySays
    <3> QED BY <2>2, <3>1 DEF Texts, Spoken, GestureActive
  <2>3. CASE ~Cycling(s) /\ ~Waiting(s)
    <3>1. c = s  BY <2>3, CommitPendingKeyEnds
    <3> QED BY <2>3, <3>1 DEF Texts, GestureActive
  <2> QED BY <2>1, <2>2, <2>3
<1> HIDE DEF c
<1>3. d \in EngineState /\ d.out = c.out  BY <1>1, SettersType, SettersFreeze DEF Frozen
<1> HIDE DEF d
<1>4. /\ e \in EngineState
      /\ e.waitingKey = NoText /\ e.cyclingInput = NoText /\ e.out = d.out
  <2>1. e \in EngineState  BY <1>3, SettersType
  <2> QED BY <1>3, <2>1 DEF EngineState, ResetWaiting, ResetCycling
<1> HIDE DEF e
<1>5. t.waitingKey = NoText /\ t.cyclingInput = NoText /\ t.out = e.out
  BY <1>4 DEF EngineState
<1>6. SwitchToProfile(s, name) = IF ~IsSwitch(name) THEN s ELSE t
  BY DEF SwitchToProfile, c, d, e
<1> HIDE DEF t
<1>7. Settles(s, t) /\ Reading(t)
  BY <1>2, <1>3, <1>4, <1>5 DEF Settles, Reading, GestureActive, Waiting, Cycling
<1> QED BY <1>6, <1>7

\* A window the timer was too late for is settled first.
LEMMA SettledSays ==
  ASSUME Config, eng \in EngineState, Owned(eng), Reading(eng)
  PROVE  /\ Settled.decision # "Focus" /\ Reading(Settled)
         /\ \/ /\ Settled.out = <<>> /\ Texts(Settled) = Texts(eng)
               /\ GestureActive(Settled) <=> GestureActive(eng)
               /\ Settled.waitingKeyCode = eng.waitingKeyCode
            \/ Settles(eng, Settled)
         /\ Waiting(Settled) => ~Expired(Settled)
         /\ GestureActive(Settled) => Settled.out = <<>>
<1> DEFINE f == Fresh(eng)
<1>1. /\ f \in EngineState /\ f.out = <<>> /\ f.decision # "Focus" /\ Reading(f)
      /\ Same(eng, f) /\ Owned(f)
      /\ Texts(f) = Texts(eng) /\ f.elapsed = eng.elapsed
      /\ f.waitingKeyCode = eng.waitingKeyCode /\ f.waitingKey = eng.waitingKey
      /\ GestureActive(f) <=> GestureActive(eng)
      /\ Waiting(f) <=> Waiting(eng)
  BY FreshType, FreshSilent, SettersFrame, SameOwners
<1>2. Settled = IF Waiting(eng) /\ Expired(eng) THEN CommitExpired(f) ELSE f  BY DEF Settled
<1>3. Expired(f) <=> Expired(eng)  BY <1>1 DEF Expired, WindowFor
<1> HIDE DEF f
<1>4. CASE Waiting(eng) /\ Expired(eng)
  <2>1. Settles(f, Settled) /\ Settled.decision # "Focus"
    BY <1>1, <1>2, <1>4, CommitExpiredSays
  <2>2. Settles(eng, Settled) /\ ~GestureActive(Settled)  BY <1>1, <2>1 DEF Settles
  <2> QED BY <2>1, <2>2 DEF Reading, GestureActive
<1>5. CASE ~(Waiting(eng) /\ Expired(eng))  BY <1>1, <1>2, <1>3, <1>5
<1> QED BY <1>4, <1>5

\* With no gesture open there is nothing to commit.
LEMMA NothingToCommit ==
  ASSUME Config, NEW s \in EngineState, ~GestureActive(s)
  PROVE  CommitGesture(s) = s
<1>1. CommitPendingKey(s) = s  BY CommitPendingKeyEnds DEF GestureActive
<1>2. CommitCyclingValue(s) = s  BY CommitCyclingValueEnds DEF GestureActive
<1> QED BY <1>1, <1>2 DEF CommitGesture

\* After the late window, the gesture is settled at most once.
LEMMA SettledEnds ==
  ASSUME Config, eng \in EngineState, Owned(eng), Reading(eng)
  PROVE  LET t == CommitGesture(Settled) IN
         /\ t \in EngineState /\ Owned(t)
         /\ Settles(eng, t) /\ Reading(t) /\ t.decision # "Focus"
<1> DEFINE t == CommitGesture(Settled)
<1>1. Settled \in EngineState /\ Owned(Settled)  BY SettledOwners
<1>2. t \in EngineState  BY <1>1, CommitGestureType
<1>3. Owned(t) /\ ~GestureActive(t)  BY <1>1, CommitGestureEnds, EndedOwners
<1>4. Reading(t)  BY <1>3 DEF Reading, GestureActive
<1>5. CASE GestureActive(Settled)
  <2>1. Settled.out = <<>> /\ Texts(Settled) = Texts(eng) /\ Reading(Settled)
        /\ Settled.decision # "Focus"
    BY <1>5, SettledSays DEF Settles
  <2>2. Settles(Settled, t) /\ t.decision # "Focus"  BY <1>1, <2>1, CommitGestureSays
  <2> QED BY <1>2, <1>3, <1>4, <2>1, <2>2 DEF Settles
<1>6. CASE ~GestureActive(Settled)
  <2>1. t = Settled  BY <1>1, <1>6, NothingToCommit
  <2>2. Settles(eng, Settled)  BY <1>6, SettledSays DEF Settles, Texts
  <2> QED BY <1>2, <1>3, <1>4, <2>1, <2>2, SettledSays
<1> QED BY <1>5, <1>6

\* And a leader finds what is left.
LEMMA SettledLeads ==
  ASSUME Config, eng \in EngineState, Owned(eng), Reading(eng), NEW k \in Keys
  PROVE  LET t == HandleLeader(Settled, k) IN
         /\ Still(eng, t) \/ Settles(eng, t)
         /\ Reading(t) /\ t.decision # "Focus"
         /\ t.decision = "Forward" => ~GestureActive(t)
<1> DEFINE t == HandleLeader(Settled, k)
<1>1. Settled \in EngineState /\ Owned(Settled)  BY SettledOwners
<1>2. CASE Settled.out = <<>> /\ Texts(Settled) = Texts(eng)
           /\ (GestureActive(Settled) <=> GestureActive(eng))
           /\ Settled.waitingKeyCode = eng.waitingKeyCode
  <2>1. /\ Still(Settled, t) \/ Settles(Settled, t)
        /\ Reading(t) /\ t.decision \in {"Consume", "Forward"}
        /\ t.decision = "Forward" => ~GestureActive(t)
    BY <1>1, <1>2, SettledSays, HandleLeaderSays
  <2> HIDE DEF t
  <2>2. Still(eng, t) \/ Settles(eng, t)  BY <1>2, <2>1 DEF Still, Settles
  <2> QED BY <2>1, <2>2 DEF t
<1>3. CASE Settles(eng, Settled)
  <2> DEFINE a == [Settled EXCEPT !.overlayShowTimer = NoShow]
             b == [a EXCEPT !.consumedAltCode = NoKey]
  <2>1. a \in EngineState /\ Frozen(Settled, a)  BY <1>1, SettersFreeze, DropPreview
  <2>2. ~Waiting(a) /\ ~Cycling(a)
    BY <1>3, <2>1, FrozenPredicates DEF Settles, GestureActive
  <2>3. t = Forward(b)  BY <2>2 DEF HandleLeader
  <2> HIDE DEF a
  <2>4. b \in EngineState /\ Frozen(a, b)
    <3>1. b \in EngineState  BY <2>1 DEF EngineState, NoKey
    <3> QED BY <2>1, <3>1, SettersFreeze
  <2> HIDE DEF b, t
  <2>5. Frozen(b, t)  BY <2>3, <2>4, SettersFreeze
  <2>6. Frozen(Settled, t)  BY <2>1, <2>4, <2>5, FrozenPredicates
  <2>7. Settles(eng, t) /\ ~GestureActive(t) /\ Reading(t) /\ t.decision # "Focus"
    BY <1>3, <2>6, SettledSays, FrozenPredicates DEF Settles, Frozen
  <2> QED BY <2>7 DEF t
<1> QED BY <1>2, <1>3, SettledSays

-----------------------------------------------------------------------------
(* The steps *)

\* The engine before a step, spelled out.
LEMMA ReadingFacts ==
  ASSUME Safe, Reading(eng), NEW kb, Keyboards = {kb}
  PROVE  LET f == Fresh(eng) IN
         /\ Config /\ eng \in EngineState /\ Owned(eng)
         /\ f \in EngineState /\ Owned(f) /\ Reading(f) /\ f.out = <<>> /\ f.decision # "Focus"
         /\ f.waitingKeyCode = eng.waitingKeyCode /\ Texts(f) = Texts(eng)
         /\ GestureActive(f) <=> GestureActive(eng)
         /\ Still(eng, f)
<1>1. Config /\ eng \in EngineState /\ Owned(eng)  BY SafeFacts DEF Safe, TypeOK, Config
<1> DEFINE f == Fresh(eng)
<1>2. f \in EngineState /\ Same(eng, f)  BY <1>1, FreshType, SettersFrame
<1>3. Owned(f)  BY <1>1, <1>2, SameOwners
<1>4. /\ Reading(f) /\ f.out = <<>> /\ f.decision # "Focus"
      /\ f.waitingKeyCode = eng.waitingKeyCode /\ Texts(f) = Texts(eng)
      /\ GestureActive(f) <=> GestureActive(eng)
  BY <1>1, FreshSilent
<1>5. Still(eng, f)  BY <1>4 DEF Still
<1> QED BY <1>1, <1>2, <1>3, <1>4, <1>5

\* A press starts a gesture after the one before it was answered, types a text
\* after it, or settles it; no plain key passes by an open gesture.
LEMMA PressSays ==
  ASSUME Safe, NonEmpty(umlautMap), Reading(eng), NEW kb, Keyboards = {kb}, NEW k \in Keys,
         Press(kb, k)
  PROVE  /\ Speaks(eng, eng')
         /\ eng'.decision = "Forward" /\ ~IsModifierSym(k) => ~GestureActive(eng')
         /\ umlautMap' # umlautMap => ~GestureActive(eng') \/ \E s : Resort(s)
<1> DEFINE f == Fresh(eng)
           g == CommitGesture(Settled)
<1>1. /\ Config /\ eng \in EngineState /\ Owned(eng)
      /\ f \in EngineState /\ Owned(f) /\ Reading(f) /\ f.out = <<>> /\ f.decision # "Focus"
      /\ f.waitingKeyCode = eng.waitingKeyCode /\ Texts(f) = Texts(eng)
      /\ GestureActive(f) <=> GestureActive(eng)
      /\ Still(eng, f)
  BY ReadingFacts
<1>2. /\ g \in EngineState /\ Owned(g)
      /\ Settles(eng, g) /\ Reading(g) /\ g.decision # "Focus"
  BY <1>1, SettledEnds
<1>3. /\ Withheld!Pressed(k)
      /\ GestureActive(eng) => eng.waitingKeyCode # k
  <2>1. /\ k \notin down[kb] /\ down' = [down EXCEPT ![kb] = @ \cup {k}]
        /\ kb \in Keyboards /\ down \in [Keyboards -> SUBSET Keys]
    BY DEF Press, PhysicalPress, Safe, TypeOK
  <2>2. k \in down'[kb] \ down[kb]  BY <2>1
  <2>3. GestureActive(eng) => eng.waitingKeyCode # k
    BY <1>1, <2>1, SafeFacts DEF Held, Owned, OwnerShape
  <2> QED BY <2>1, <2>2, <2>3 DEF Withheld!Pressed
<1>4. ~Filtered  BY DEF Safe, SteadySettings, Filtered
<1> HIDE DEF f, g
<1>5. ASSUME NEW s \in EngineState, Reading(s), Still(eng, s) \/ Settles(eng, s),
             s.decision # "Focus"
      PROVE  /\ Speaks(eng, Forward(s)) /\ Speaks(eng, Consume(s))
             /\ GestureActive(Forward(s)) <=> GestureActive(s)
             /\ GestureActive(Consume(s)) <=> GestureActive(s)
             /\ Consume(s).decision = "Consume"
  <2>1. /\ Frozen(s, Forward(s)) /\ Frozen(s, Consume(s))
        /\ Forward(s).decision = "Forward" /\ Consume(s).decision = "Consume"
    BY <1>5, SettersFreeze, SettersFrame
  <2>2. ASSUME NEW t, Frozen(s, t), t.decision # "Focus"
        PROVE  Speaks(eng, t) /\ (GestureActive(t) <=> GestureActive(s))
    BY <1>5, <2>2, FrozenPredicates DEF Speaks, Still, Settles, Frozen
  <2> QED BY <2>1, <2>2
<1>6. CASE PressProfileShortcut(kb, k)
  <2> DEFINE name == ShortcutTarget(k)
             s == SwitchToProfile(f, name)
  <2>1. eng' = Consume(s)  BY <1>6 DEF PressProfileShortcut, DeliverPress, f
  <2>2. IF IsSwitch(name) THEN Settles(f, s) /\ Reading(s) ELSE s = f
    BY <1>1, SwitchToProfileSays
  <2>3. s \in EngineState  BY <1>1, SwitchToProfileType
  <2>4. umlautMap' # umlautMap => IsSwitch(name)
    BY <1>6 DEF PressProfileShortcut
  <2> HIDE DEF s
  <2>5. Reading(s) /\ (Still(eng, s) \/ Settles(eng, s))
    BY <1>1, <2>2 DEF Settles
  <2>6. IsSwitch(name) => ~GestureActive(s)  BY <2>2 DEF Settles
  <2> DEFINE t == Consume(s)
  <2>7. t.decision = "Consume"  BY <2>3, SettersFrame
  <2>8. t.out = s.out /\ t.waitingKey = s.waitingKey /\ t.waitingKeyCode = s.waitingKeyCode
        /\ t.cyclingInput = s.cyclingInput /\ t.cyclingIndex = s.cyclingIndex
    BY <2>3 DEF Consume, EngineState
  <2> HIDE DEF t
  <2>9. (GestureActive(t) <=> GestureActive(s)) /\ Reading(t)
    BY <2>5, <2>8 DEF Reading, GestureActive, Waiting, Cycling
  <2>10. Speaks(eng, t)
    BY <2>5, <2>7, <2>8, <2>9 DEF Speaks, Still, Settles
  <2> QED BY <2>1, <2>4, <2>6, <2>7, <2>9, <2>10 DEF t
<1>7. CASE PressModifier(kb, k)
  BY <1>1, <1>5, <1>7 DEF PressModifier, DeliverPress, f
<1>8. CASE PressShortcut(kb, k)
  <2> DEFINE s == [g EXCEPT !.inputKeyPressed = FALSE]
  <2>1. eng' = Forward(s) /\ Resort(s)
    BY <1>8 DEF PressShortcut, DeliverPress, Resort, Resorted, Forward, g
  <2>2. s \in EngineState  BY <1>2 DEF EngineState
  <2>3. Frozen(g, s)  BY <1>2 DEF EngineState, Frozen
  <2> HIDE DEF s
  <2>4. Settles(eng, s) /\ Reading(s) /\ s.decision # "Focus" /\ ~GestureActive(s)
    BY <1>2, <2>3, FrozenPredicates DEF Settles, Frozen
  <2> QED BY <1>5, <2>1, <2>2, <2>4
<1>9. CASE PressLeader(kb, k)
  <2> DEFINE t == HandleLeader(Settled, k)
  <2>1. eng' = t /\ Resort(t)  BY <1>9 DEF PressLeader, DeliverPress
  <2>2. /\ Still(eng, t) \/ Settles(eng, t)
        /\ Reading(t) /\ t.decision # "Focus"
        /\ t.decision = "Forward" => ~GestureActive(t)
    BY <1>1, SettledLeads
  <2> HIDE DEF t
  <2>3. Speaks(eng, t)  BY <2>2 DEF Speaks
  <2> QED BY <2>1, <2>2, <2>3
<1>10. CASE PressMapped(kb, k)
  <2> DEFINE v == umlautMap'[KeyText[k]]
             t == StartGesture(g, k, v)
  <2>1. eng' = t /\ Resort(g) /\ KeyText[k] \in DOMAIN umlautMap
    BY <1>10 DEF PressMapped, DeliverPress, g
  <2>6. v \in Seq(Variants)  BY <1>1, <2>1, ResortMapped DEF Config
  <2> HIDE DEF v
  <2>2. ~Cycling(g)  BY <1>2 DEF Settles, GestureActive
  <2>3. /\ t.out = g.out /\ t.decision = "Consume"
        /\ t.waitingKeyCode = k /\ GestureActive(t) /\ Reading(t)
    BY <1>1, <1>2, <2>1, <2>2, <2>6, StartGestureSays
  <2> HIDE DEF t
  <2>5. Starts(eng, t, k)  BY <1>2, <1>3, <2>3 DEF Starts, Settles
  <2> QED BY <1>3, <2>1, <2>3, <2>5 DEF Speaks
<1>11. CASE PressOther(kb, k)
  <2> DEFINE s == [g EXCEPT !.consumedAltCode = NoKey]
             c == CommitText(s, k, KeyText[k])
  <2>1. /\ eng' = Consume(c) \/ eng' = Forward(s)
        /\ \E r : Resort(r)
    BY <1>11 DEF PressOther, DeliverPress, g
  <2>2. s \in EngineState
    BY <1>2 DEF EngineState, NoKey
  <2>3. Frozen(g, s)  BY <1>2, SettersFreeze
  <2> HIDE DEF s
  <2>4. Settles(eng, s) /\ Reading(s) /\ s.decision # "Focus" /\ ~GestureActive(s)
    BY <1>2, <2>3, FrozenPredicates DEF Settles, Frozen
  <2>5. CASE eng' = Forward(s)  BY <1>5, <2>1, <2>2, <2>4, <2>5
  <2>6. CASE eng' = Consume(c)
    <3>1. /\ c.out = Append(s.out, [code |-> k, text |-> KeyText[k]])
          /\ c.waitingKey = s.waitingKey /\ c.cyclingInput = s.cyclingInput
          /\ c.decision = s.decision
      BY <2>2, CommitTextSays
    <3>2. c \in EngineState  BY <2>2, CommitTextType, TextTypes
    <3> HIDE DEF c
    <3>3. Frozen(c, eng') /\ eng'.decision = "Consume"
      BY <2>6, <3>2, SettersFreeze, SettersFrame
    <3>4. ~GestureActive(c)
      BY <2>4, <3>1 DEF GestureActive, Waiting, Cycling
    <3>5. ~GestureActive(eng') /\ Reading(eng')
      BY <3>3, <3>4, FrozenPredicates DEF Reading, GestureActive
    <3>6. Types(eng, eng', k)  BY <1>3, <2>4, <3>1, <3>3, <3>5 DEF Types, Settles, Frozen
    <3> QED BY <1>3, <3>3, <3>5, <3>6 DEF Speaks
  <2> QED BY <2>1, <2>5, <2>6
<1> QED BY <1>4, <1>6, <1>7, <1>8, <1>9, <1>10, <1>11 DEF Press, PressFiltered

\* A release settles its own gesture, or says nothing.
LEMMA ReleaseSays ==
  ASSUME Safe, Reading(eng), NEW kb, Keyboards = {kb}, NEW k \in Keys, Release(kb, k)
  PROVE  Speaks(eng, eng')
<1> DEFINE f == Fresh(eng)
           a == [f EXCEPT !.consumedAltCode = NoKey]
           b == ClearCommitted(f)
           c == IF Cycling(f) THEN CommitCyclingValue(f) ELSE CommitPendingKey(f)
<1>1. /\ Config /\ eng \in EngineState /\ Owned(eng)
      /\ f \in EngineState /\ Owned(f) /\ Reading(f) /\ f.out = <<>> /\ f.decision # "Focus"
      /\ f.waitingKeyCode = eng.waitingKeyCode /\ Texts(f) = Texts(eng)
      /\ GestureActive(f) <=> GestureActive(eng)
      /\ Still(eng, f)
  BY ReadingFacts
<1>2. eng' = HandleRelease(k)  BY DEF Release, DeliverRelease
<1>3. \/ eng' = Forward(f)
      \/ eng' = Consume(a)
      \/ eng' = Consume(b)
      \/ eng' = Consume(c) /\ GestureActive(eng)
  BY <1>2 DEF HandleRelease, ReleaseGesture
<1> HIDE DEF f
<1>4. ASSUME NEW s \in EngineState, Reading(s), Still(eng, s) \/ Settles(eng, s),
             s.decision # "Focus", NEW t, Frozen(s, t)
      PROVE  Speaks(eng, t)
  BY <1>4, FrozenPredicates DEF Speaks, Still, Settles, Frozen
<1>5. CASE eng' = Forward(f)
  <2>1. Frozen(f, eng')  BY <1>1, <1>5, SettersFreeze
  <2> QED BY <1>1, <1>4, <2>1
<1>6. CASE eng' = Consume(a)
  <2>1. a \in EngineState  BY <1>1 DEF EngineState, NoKey
  <2>2. Frozen(f, a)  BY <1>1, SettersFreeze
  <2> HIDE DEF a
  <2>3. Frozen(f, Consume(a))  BY <2>1, <2>2, SettersFreeze, FrozenPredicates
  <2> QED BY <1>1, <1>4, <1>6, <2>3
<1>7. CASE eng' = Consume(b)
  <2>1. b \in EngineState  BY <1>1, SettersType
  <2>2. Frozen(f, b)  BY <1>1, SettersFreeze DEF ClearCommitted
  <2> HIDE DEF b
  <2>3. Frozen(f, Consume(b))  BY <2>1, <2>2, SettersFreeze, FrozenPredicates
  <2> QED BY <1>1, <1>4, <1>7, <2>3
<1>8. CASE eng' = Consume(c) /\ GestureActive(eng)
  <2>1. c \in EngineState  BY <1>1, CommitCyclingValueType, CommitPendingKeyType
  <2>2. c = CommitGesture(f)
    <3>1. CASE Cycling(f)
      <4>1. ~Waiting(f)  BY <1>1, <3>1 DEF Owned
      <4>2. CommitPendingKey(f) = f  BY <1>1, <4>1, CommitPendingKeyEnds
      <4> QED BY <3>1, <4>2 DEF CommitGesture
    <3>2. CASE ~Cycling(f)
      <4>1. Waiting(f)  BY <1>1, <1>8, <3>2 DEF GestureActive
      <4>2. ~Cycling(CommitPendingKey(f))
        BY <1>1, <3>2, <4>1, CommitPendingKeyEnds DEF Cycling
      <4>3. CommitPendingKey(f) \in EngineState  BY <1>1, CommitPendingKeyType
      <4> QED BY <1>1, <3>2, <4>2, <4>3, CommitCyclingValueEnds DEF CommitGesture
    <3> QED BY <3>1, <3>2
  <2>3. Settles(f, c) /\ c.decision # "Focus"  BY <1>1, <2>2, CommitGestureSays
  <2> HIDE DEF c
  <2>4. Settles(eng, c) /\ Reading(c)
    BY <1>1, <2>3 DEF Settles, Reading, GestureActive
  <2>5. Frozen(c, Consume(c))  BY <2>1, SettersFreeze
  <2> QED BY <1>4, <1>8, <2>1, <2>3, <2>4, <2>5
<1> QED BY <1>3, <1>5, <1>6, <1>7, <1>8

\* A repeat steps the cycle, starts a committed key over, or says nothing.
LEMMA RepeatSays ==
  ASSUME Safe, NonEmpty(umlautMap), Reading(eng), NEW kb, Keyboards = {kb}, Repeat(kb)
  PROVE  Speaks(eng, eng')
<1> DEFINE k == rep[kb]
           f == Fresh(eng)
           b == ClearCommitted(f)
<1>1. /\ Config /\ eng \in EngineState /\ Owned(eng)
      /\ f \in EngineState /\ Owned(f) /\ Reading(f) /\ f.out = <<>> /\ f.decision # "Focus"
      /\ f.waitingKeyCode = eng.waitingKeyCode /\ Texts(f) = Texts(eng)
      /\ GestureActive(f) <=> GestureActive(eng)
      /\ Still(eng, f)
  BY ReadingFacts
<1>2. /\ k \in Keys /\ (GestureActive(eng) => k # eng.committedCode)
      /\ Withheld!Repeated(k)
  BY SafeFacts DEF Safe, TypeOK, Repeat, Withheld!Repeated
<1>3. \/ eng' = Forward(f)
      \/ eng' = Consume(f)
      \/ eng' = HandleLeader(f, k) /\ Cycling(eng)
      \/ eng' = Forward(b)
      \/ /\ eng' = StartGesture(b, k, umlautMap[KeyText[k]])
         /\ KeyText[k] \in DOMAIN umlautMap /\ k = eng.committedCode
  BY DEF Repeat, RepeatOwnKey, RepeatLeader, RepeatCommitted, RepeatOther, LeaderRepeats
<1>4. Cycling(eng) => ~Waiting(f)
  BY <1>1 DEF Owned, Fresh, EngineState, Waiting
<1> HIDE DEF f, k
<1>5. ASSUME NEW s \in EngineState, Reading(s), Still(eng, s) \/ Settles(eng, s),
             s.decision # "Focus", NEW t, Frozen(s, t)
      PROVE  Speaks(eng, t)
  BY <1>5, FrozenPredicates DEF Speaks, Still, Settles, Frozen
<1>6. CASE eng' = Forward(f) \/ eng' = Consume(f)  BY ZenonT(60), <1>1, <1>5, <1>6, SettersFreeze
<1>7. CASE eng' = HandleLeader(f, k) /\ Cycling(eng)
  <2>1. /\ Still(f, eng') \/ Settles(f, eng')
        /\ Reading(eng') /\ eng'.decision \in {"Consume", "Forward"}
    BY <1>1, <1>2, <1>4, <1>7, HandleLeaderSays
  <2> QED BY <1>1, <2>1 DEF Speaks, Still, Settles
<1>8. b \in EngineState /\ Frozen(f, b)
  <2>1. b \in EngineState  BY <1>1, SettersType
  <2>2. Frozen(f, b)  BY <1>1, SettersFreeze DEF ClearCommitted
  <2> QED BY <2>1, <2>2
<1> HIDE DEF b
<1>9. CASE eng' = Forward(b)
  <2>1. Frozen(f, Forward(b))  BY <1>8, SettersFreeze, FrozenPredicates
  <2> QED BY <1>1, <1>5, <1>9, <2>1
<1>10. CASE /\ eng' = StartGesture(b, k, umlautMap[KeyText[k]])
            /\ KeyText[k] \in DOMAIN umlautMap /\ k = eng.committedCode
  <2>1. ~GestureActive(eng) /\ ~GestureActive(b)
    BY <1>1, <1>2, <1>8, <1>10, FrozenPredicates
  <2>2. /\ eng'.out = b.out /\ eng'.decision = "Consume"
        /\ eng'.waitingKeyCode = k /\ GestureActive(eng') /\ Reading(eng')
    <3>1. umlautMap[KeyText[k]] \in Seq(Variants)  BY <1>1, <1>10 DEF Config, IsUmlautMap
    <3> QED BY <1>1, <1>2, <1>8, <1>10, <2>1, <3>1, StartGestureSays DEF GestureActive
  <2>3. eng'.out \in Texts(eng)  BY <1>1, <1>8, <2>1, <2>2 DEF Frozen, Texts
  <2>4. Starts(eng, eng', k)  BY <2>1, <2>2, <2>3 DEF Starts
  <2> QED BY <1>2, <2>1, <2>2, <2>4 DEF Speaks
<1> QED BY <1>3, <1>6, <1>7, <1>9, <1>10

\* A timer settles the waiting gesture, selects its first variant, or says nothing.
LEMMA TimerSays ==
  ASSUME Safe, Reading(eng), NEW kb, Keyboards = {kb}, Timers \/ Tick
  PROVE  Speaks(eng, eng')
<1> DEFINE f == Fresh(eng)
<1>1. /\ Config /\ eng \in EngineState /\ Owned(eng)
      /\ f \in EngineState /\ Owned(f) /\ Reading(f) /\ f.out = <<>> /\ f.decision # "Focus"
      /\ f.waitingKeyCode = eng.waitingKeyCode /\ Texts(f) = Texts(eng)
      /\ GestureActive(f) <=> GestureActive(eng)
      /\ Still(eng, f)
  BY ReadingFacts
<1> HIDE DEF f
<1>2. ASSUME NEW s, Frozen(f, s), eng' = s PROVE Speaks(eng, eng')
  BY <1>1, <1>2, FrozenPredicates DEF Speaks, Still, Frozen
<1>3. CASE Tick
  <2> DEFINE s == [f EXCEPT !.elapsed = @ + 1]
  <2>1. Frozen(f, s)  BY <1>1 DEF EngineState, Frozen
  <2> QED BY <1>2, <1>3, <2>1 DEF Tick, f
<1>4. CASE WindowTimeout
  <2> DEFINE s == [f EXCEPT !.windowTimer = NoTimer]
  <2>0. s \in EngineState  BY ZenonT(60), <1>1 DEF EngineState, NoTimer
  <2>1. Frozen(f, s) /\ Same(f, s)  BY <1>1 DEF EngineState, Frozen, Same
  <2>2. eng' = IF Waiting(s) THEN CommitExpired(s) ELSE s  BY <1>4 DEF WindowTimeout, f
  <2> HIDE DEF s
  <2>3. CASE Waiting(s)
    <3>1. Owned(s) /\ s.out = <<>> /\ s.decision # "Focus" /\ Texts(s) = Texts(eng)
      BY <1>1, <2>0, <2>1, SameOwners, FrozenPredicates DEF Frozen
    <3>2. Settles(s, eng') /\ eng'.decision # "Focus"
      BY <2>0, <2>2, <2>3, <3>1, CommitExpiredSays
    <3> QED BY <3>1, <3>2 DEF Speaks, Settles, Reading, GestureActive
  <2>4. CASE ~Waiting(s)  BY <1>2, <2>1, <2>2, <2>4
  <2> QED BY <2>3, <2>4
<1>5. CASE AutoSelect
  <2> DEFINE s == [f EXCEPT !.autoSelectTimer = NoTimer]
             u == [s EXCEPT !.windowTimer = NoTimer]
             t == EnterCycling(u, s.waitingKey, 0)
  <2>0. s \in EngineState  BY ZenonT(60), <1>1 DEF EngineState, NoTimer
  <2>1. Frozen(f, s) /\ Same(f, s)  BY <1>1 DEF EngineState, Frozen, Same
  <2>2. eng' = IF Waiting(s) /\ ~Cycling(s) /\ s.inputKeyPressed THEN t ELSE s
    BY <1>5 DEF AutoSelect, f
  <2> HIDE DEF s
  <2>6. u \in EngineState
    <3>1. NoTimer \in Nat  BY DEF NoTimer
    <3> QED BY ZenonT(60), <2>0, <3>1 DEF EngineState
  <2>3. Frozen(s, u) /\ Same(s, u)  BY <2>0 DEF EngineState, Frozen, Same
  <2> HIDE DEF u
  <2>4. CASE Waiting(s) /\ eng' = t
    <3>1. /\ Owned(u) /\ Waiting(u) /\ Reading(u) /\ u.waitingKey = s.waitingKey
          /\ u.out = <<>> /\ u.decision # "Focus"
          /\ u.waitingKeyCode = eng.waitingKeyCode
          /\ GestureActive(eng)
      BY <1>1, <2>0, <2>1, <2>3, <2>4, <2>6, SameOwners, FrozenPredicates DEF Frozen, GestureActive
    <3>2. 0 \in Nat /\ 0 < Len(VariantsFor(u.waitingKey))
      BY <1>1, <3>1, VariantsForType DEF Config, Reading
    <3>3. /\ t.out = u.out /\ t.decision # "Focus"
          /\ t.waitingKeyCode = u.waitingKeyCode /\ GestureActive(t) /\ Reading(t)
      BY <1>1, <2>6, <3>1, <3>2, EnterCyclingSays
    <3> QED BY <2>4, <3>1, <3>3 DEF Speaks, Still
  <2>5. CASE eng' = s  BY <1>2, <2>1, <2>5
  <2> QED BY <2>2, <2>4, <2>5
<1>6. CASE OverlayShow
  <2> DEFINE s     == [f EXCEPT !.overlayShowTimer = NoShow]
             shown == eng.overlayShowTimer.variants
  <2>1. s \in EngineState /\ Frozen(f, s)  BY <1>1, DropPreview, SettersFreeze
  <2>2. shown \in Seq(Variants) /\ -1 \in Int  BY <1>1 DEF EngineState
  <2>3. eng' = OverlayShowVariants(s, shown, -1) \/ eng' = s  BY <1>6 DEF OverlayShow, f
  <2> HIDE DEF s, shown
  <2>4. Frozen(s, OverlayShowVariants(s, shown, -1))  BY <2>1, <2>2, OverlayFreezes
  <2> QED BY <1>2, <2>1, <2>3, <2>4, FrozenPredicates
<1>7. CASE OverlayHide
  <2> DEFINE s == [f EXCEPT !.overlayHideTimer = FALSE]
  <2>0. s \in EngineState  BY ZenonT(60), <1>1 DEF EngineState
  <2>1. Frozen(f, s)  BY <1>1 DEF EngineState, Frozen
  <2>2. eng' = OverlayHideAll(s)  BY <1>7 DEF OverlayHide, f
  <2> HIDE DEF s
  <2>3. Frozen(s, OverlayHideAll(s))  BY <2>0, OverlayFreezes
  <2> QED BY <1>2, <2>1, <2>2, <2>3, FrozenPredicates
<1>8. CASE ProfileFlash
  <2> DEFINE s == [f EXCEPT !.profileFlashTimer = FALSE, !.panel = Hidden,
                            !.overlayVisible = FALSE]
  <2>1. Frozen(f, s)  BY <1>1 DEF EngineState, Frozen
  <2> QED BY <1>2, <1>8, <2>1 DEF ProfileFlash, f
<1>9. CASE UsageFlush
  <2> DEFINE s == [f EXCEPT !.usageDirty = FALSE]
             a == [s EXCEPT !.usageTimer = 2]
             b == [s EXCEPT !.usageTimer = 0]
  <2>0. s \in EngineState  BY ZenonT(60), <1>1 DEF EngineState
  <2>1. Frozen(f, s)  BY <1>1 DEF EngineState, Frozen
  <2>2. eng' = a \/ eng' = ApplyUsageTracking(b, config)  BY <1>9 DEF UsageFlush, f
  <2> HIDE DEF s
  <2>3. b \in EngineState
    <3>1. 0 \in 0..2  OBVIOUS
    <3> QED BY ZenonT(60), <2>0, <3>1 DEF EngineState
  <2>5. Frozen(s, a) /\ Frozen(s, b)  BY <2>0 DEF EngineState, Frozen
  <2> HIDE DEF a, b
  <2>4. Frozen(b, ApplyUsageTracking(b, config))
    BY <2>3 DEF ApplyUsageTracking, EngineState, Frozen
  <2> QED BY <1>2, <2>1, <2>2, <2>4, <2>5, FrozenPredicates
<1> QED BY <1>3, <1>4, <1>5, <1>6, <1>7, <1>8, <1>9 DEF Timers

\* A focus change says nothing and drops the gesture.
LEMMA FocusSays ==
  ASSUME Safe, FocusChanged
  PROVE  eng'.out = <<>> /\ eng'.decision = "Focus" /\ ~GestureActive(eng')
<1> DEFINE f == Fresh(eng)
           r == CancelGestureTimers(f)
           w == ResetWaiting(r)
           c == ResetCycling(w)
           a == ClearCommitted(c)
           h == OverlayHideAll(a)
           s == [h EXCEPT !.consumedAltCode = NoKey, !.usageDirty = FALSE, !.decision = "Focus"]
<1>1. f \in EngineState /\ f.out = <<>>  BY FreshType, FreshSilent DEF Safe, TypeOK
<1>2. eng' = s  BY DEF FocusChanged
<1> HIDE DEF f
<1>3. r \in EngineState /\ Frozen(f, r)  BY <1>1, SettersType, SettersFreeze
<1> HIDE DEF r
<1>4. /\ w \in EngineState /\ c \in EngineState
      /\ c.waitingKey = NoText /\ c.cyclingInput = NoText /\ c.out = r.out
  <2>1. w \in EngineState /\ c \in EngineState  BY <1>3, SettersType
  <2> QED BY <1>3, <2>1 DEF ResetWaiting, ResetCycling, EngineState
<1> HIDE DEF c
<1>5. a \in EngineState /\ Frozen(c, a)
  <2>1. a \in EngineState  BY <1>4, SettersType
  <2>2. Frozen(c, a)  BY <1>4, SettersFreeze DEF ClearCommitted
  <2> QED BY <2>1, <2>2
<1> HIDE DEF a
<1>6. h \in EngineState /\ Frozen(a, h)  BY <1>5, OverlayHideAllType, OverlayFreezes
<1> HIDE DEF h
<1>7. /\ s.out = h.out /\ s.decision = "Focus"
      /\ s.waitingKey = h.waitingKey /\ s.cyclingInput = h.cyclingInput
  BY <1>6 DEF EngineState
<1> HIDE DEF s
<1> QED BY <1>1, <1>2, <1>3, <1>4, <1>5, <1>6, <1>7
        DEF Frozen, GestureActive, Waiting, Cycling

-----------------------------------------------------------------------------
(* The texts a runtime mapping holds *)

\* Each input's variants are those of a given mapping, in some order.
From(v, w) ==
  /\ Len(v) = Len(w)
  /\ \A j \in 1..Len(v) : \E l \in 1..Len(w) : v[j] = w[l]
Sourced(n) ==
  \A i \in DOMAIN n : \E m \in GivenMappings : i \in DOMAIN m /\ From(n[i], m[i])

\* A reload keeps every input a mapping had, with no fewer variants: saving other
\* settings, or adding to a mapping.
ReloadsKeepVariants ==
  \A r \in Reloads, m \in GivenMappings : \A i \in DOMAIN m :
    i \in DOMAIN r.map /\ Len(m[i]) <= Len(r.map[i])

\* Re-sorting keeps the number of variants and their texts.
LEMMA ReorderingFrom ==
  ASSUME NEW v \in Seq(Variants), NEW r \in Reorderings(v)
  PROVE  r \in Seq(Variants) /\ From(r, v)
<1>1. r \in Seq(Variants)  BY ReorderingType
<1>2. DOMAIN r = DOMAIN v /\ {r[i] : i \in DOMAIN r} = {v[i] : i \in DOMAIN v}
  BY DEF Reorderings
<1>3. DOMAIN r = 1..Len(r) /\ DOMAIN v = 1..Len(v) /\ Len(r) \in Nat /\ Len(v) \in Nat
  BY <1>1
<1>4. Len(r) = Len(v)
  <2>1. ASSUME NEW a \in Nat, NEW b \in Nat, 1..a = 1..b PROVE a = b
    <3>1. a > 0 => a \in 1..a  OBVIOUS
    <3>2. b > 0 => b \in 1..b  OBVIOUS
    <3> QED BY <2>1, <3>1, <3>2
  <2> QED BY <1>2, <1>3, <2>1
<1>5. ASSUME NEW j \in 1..Len(r) PROVE \E l \in 1..Len(v) : r[j] = v[l]
  <2>1. r[j] \in {v[i] : i \in DOMAIN v}  BY <1>2, <1>3
  <2> QED BY <1>3, <2>1
<1> QED BY <1>1, <1>4, <1>5 DEF From

\* The runtime maps hold the variants of the stored map.
LEMMA RuntimeMapFrom ==
  ASSUME NEW m, IsUmlautMap(m), NEW c, NEW n \in BuildRuntimeMaps(m, c)
  PROVE  DOMAIN n = DOMAIN m /\ \A i \in DOMAIN m : From(n[i], m[i])
<1>1. DOMAIN n = DOMAIN m  BY DEF BuildRuntimeMaps
<1>2. ASSUME NEW i \in DOMAIN m PROVE From(n[i], m[i])
  <2>1. m[i] \in Seq(Variants)  BY DEF IsUmlautMap
  <2>2. n[i] \in Reorderings(m[i]) \/ n[i] = m[i]  BY DEF BuildRuntimeMaps
  <2> QED BY <2>1, <2>2, ReorderingFrom DEF From
<1> QED BY <1>1, <1>2

\* A re-sorted map keeps its inputs and the number of their variants.
LEMMA ResortKeeps ==
  ASSUME IsUmlautMap(umlautMap), NEW s, Resort(s)
  PROVE  /\ DOMAIN umlautMap' = DOMAIN umlautMap
         /\ \A i \in DOMAIN umlautMap : From(umlautMap'[i], umlautMap[i])
<1>1. \A i \in DOMAIN umlautMap : From(umlautMap[i], umlautMap[i])  BY DEF From
<1>2. CASE s.used \notin DOMAIN umlautMap  BY <1>1, <1>2 DEF Resort, Resorted
<1>3. CASE s.used \in DOMAIN umlautMap
  <2>1. PICK r \in Reorderings(umlautMap[s.used]) :
          umlautMap' = [umlautMap EXCEPT ![s.used] = r]
    BY <1>3 DEF Resort, Resorted
  <2>2. From(r, umlautMap[s.used])  BY <1>3, <2>1, ReorderingFrom DEF IsUmlautMap
  <2> QED BY <1>1, <1>3, <2>1, <2>2
<1> QED BY <1>2, <1>3

\* Nothing is ever offered that no mapping holds.
LEMMA MappingsSourced == Spec => []Sourced(umlautMap)
<1>1. ASSUME NEW m \in GivenMappings, IsUmlautMap(m), NEW c, NEW n \in BuildRuntimeMaps(m, c)
      PROVE  Sourced(n)
  BY <1>1, RuntimeMapFrom DEF Sourced
<1>2. ASSUME Init, TypeOK PROVE Sourced(umlautMap)
  <2>1. active \in ProfileNames  BY <1>2 DEF TypeOK
  <2>2. IsUmlautMap(ProfileMap[active]) /\ ProfileMap[active] \in GivenMappings
    BY <2>1, EngineAssumption DEF EngineAssumption, GivenMappings
  <2> QED BY <1>1, <1>2, <2>2 DEF Init
<1>3. ASSUME TypeOK, Sourced(umlautMap), [Next]_vars PROVE Sourced(umlautMap')
  <2>1. CASE UNCHANGED umlautMap  BY <1>3, <2>1
  <2>2. ASSUME NEW s, Resort(s) PROVE Sourced(umlautMap')
    <3>1. /\ DOMAIN umlautMap' = DOMAIN umlautMap
          /\ \A i \in DOMAIN umlautMap : From(umlautMap'[i], umlautMap[i])
      BY <1>3, <2>2, ResortKeeps DEF TypeOK
    <3>2. ASSUME NEW a, NEW b, NEW d, From(a, b), From(b, d) PROVE From(a, d)
      <4>1. Len(a) = Len(b) /\ Len(b) = Len(d)  BY <3>2 DEF From
      <4>2. ASSUME NEW j \in 1..Len(a) PROVE \E l \in 1..Len(d) : a[j] = d[l]
        <5>1. PICK l \in 1..Len(b) : a[j] = b[l]  BY <3>2 DEF From
        <5>2. PICK i \in 1..Len(d) : b[l] = d[i]  BY <3>2 DEF From
        <5> QED BY <5>1, <5>2
      <4> QED BY <4>1, <4>2 DEF From
    <3>3. ASSUME NEW i \in DOMAIN umlautMap
          PROVE  \E m \in GivenMappings : i \in DOMAIN m /\ From(umlautMap'[i], m[i])
      <4>1. PICK m \in GivenMappings : i \in DOMAIN m /\ From(umlautMap[i], m[i])
        BY <1>3 DEF Sourced
      <4> QED BY <3>1, <3>2, <4>1
    <3> QED BY <3>1, <3>3 DEF Sourced
  <2>3. ASSUME NEW m \in GivenMappings, IsUmlautMap(m), NEW c, umlautMap' \in BuildRuntimeMaps(m, c)
        PROVE  Sourced(umlautMap')
    BY <1>1, <2>3
  <2> QED BY <1>3, <2>1, <2>2, <2>3, MapSteps
<1>4. TypeOK /\ Sourced(umlautMap) /\ [Next]_vars => Sourced(umlautMap)'
  BY <1>3 DEF Sourced, From
<1> QED BY <1>2, <1>4, TypeCorrect, PTL DEF Spec

-----------------------------------------------------------------------------
(* Every step *)

\* A reload says nothing and keeps the gesture.
LEMMA ReloadSays ==
  ASSUME Safe, Reading(eng), Reload
  PROVE  Frozen(Fresh(eng), eng')
<1> DEFINE f == Fresh(eng)
<1>1. f \in EngineState  BY FreshType DEF Safe, TypeOK
<1>2. PICK r \in Reloads :
        LET s == ApplyUsageTracking(f, r.config) IN
          eng' = IF config.overlayEnabled /\ ~r.config.overlayEnabled
                 THEN [s EXCEPT !.panel = Hidden] ELSE s
  BY DEF Reload
<1> DEFINE s == ApplyUsageTracking(f, r.config)
<1> HIDE DEF f
<1>3. s \in EngineState  BY <1>1, ApplyUsageTrackingType
<1>4. Frozen(f, s)  BY <1>1 DEF ApplyUsageTracking, EngineState, Frozen
<1> HIDE DEF s
<1>5. Frozen(s, [s EXCEPT !.panel = Hidden])  BY <1>3 DEF EngineState, Frozen
<1> QED BY <1>2, <1>4, <1>5, FrozenPredicates DEF f, s

\* What a step says, and what becomes of the mapping under an open gesture.
LEMMA StepSays ==
  ASSUME OneSteadyKeyboard, Safe, NonEmpty(umlautMap), Reading(eng), [Next]_vars
  PROVE  /\ FocusChanged \/ UNCHANGED vars \/ Speaks(eng, eng')
         /\ \/ UNCHANGED umlautMap
            \/ ~GestureActive(eng')
            \/ \E s : Resort(s)
            \/ Reload
<1>1. PICK kb : Keyboards = {kb}  BY DEF OneSteadyKeyboard
<1>2. CASE \E k \in Keys : Press(kb, k)  BY <1>1, <1>2, PressSays
<1>3. CASE \E k \in Keys : Release(kb, k)
  <2>1. \E s : Resort(s)  BY <1>3 DEF Release
  <2> QED BY <1>1, <1>3, <2>1, ReleaseSays
<1>4. CASE Repeat(kb)
  <2>1. UNCHANGED umlautMap \/ \E s : Resort(s)
    BY <1>4 DEF Repeat, RepeatOwnKey, RepeatLeader, RepeatCommitted, RepeatOther
  <2> QED BY <1>1, <1>4, <2>1, RepeatSays
<1>5. CASE Timers \/ Tick
  <2>1. UNCHANGED umlautMap
    BY <1>5 DEF Tick, Timers, WindowTimeout, AutoSelect, OverlayShow, OverlayHide,
                ProfileFlash, UsageFlush
  <2> QED BY <1>1, <1>5, <2>1, TimerSays
<1>6. CASE FocusChanged  BY <1>6 DEF FocusChanged
<1>7. CASE Reload
  <2>1. /\ Fresh(eng).out = <<>> /\ Fresh(eng).decision # "Focus"
        /\ Reading(Fresh(eng)) /\ Still(eng, Fresh(eng))
    BY <1>1, ReadingFacts
  <2>2. Frozen(Fresh(eng), eng')  BY <1>7, ReloadSays
  <2>3. Reading(eng') /\ Still(eng, eng') /\ eng'.decision # "Focus"
    BY <2>1, <2>2, FrozenPredicates DEF Still, Frozen
  <2> QED BY <1>7, <2>3 DEF Speaks
<1>8. CASE UNCHANGED vars  BY <1>8 DEF vars
<1> QED BY <1>1, <1>2, <1>3, <1>4, <1>5, <1>6, <1>7, <1>8 DEF Next, OneSteadyKeyboard

\* An open gesture always has a text to commit.
LEMMA ReadingInvariant ==
  ASSUME OneSteadyKeyboard, OutputsExist, ReloadsKeepVariants PROVE Spec => []Reading(eng)
<1>1. ASSUME Init PROVE Reading(eng)
  <2>1. eng.waitingKey = NoText /\ eng.cyclingInput = NoText
    BY <1>1 DEF Init, ApplyUsageTracking, IdleState
  <2> QED BY <2>1 DEF Reading, Waiting, Cycling
<1>2. ASSUME Safe, NonEmpty(umlautMap), Sourced(umlautMap), TypeOK', Reading(eng), [Next]_vars
      PROVE  Reading(eng)'
  <2>1. CASE UNCHANGED vars
    BY <1>2, <2>1 DEF vars, Reading, Waiting, Cycling, VariantsFor
  <2>2. CASE FocusChanged
    BY <1>2, <2>2, FocusSays DEF Reading, Waiting, Cycling, GestureActive
  <2>3. CASE Speaks(eng, eng')
    <3>1. Reading(eng')  BY <2>3 DEF Speaks
    <3>2. CASE UNCHANGED umlautMap
      BY <3>1, <3>2 DEF Reading, Waiting, Cycling, VariantsFor
    <3>3. CASE ~GestureActive(eng')
      BY <3>3 DEF Reading, Waiting, Cycling, GestureActive
    <3>4. ASSUME /\ DOMAIN umlautMap \subseteq DOMAIN umlautMap'
                 /\ \A i \in DOMAIN umlautMap : Len(umlautMap[i]) <= Len(umlautMap'[i])
          PROVE  Reading(eng)'
      <4>1. \A i \in DOMAIN umlautMap :
              umlautMap[i] \in Seq(Variants) /\ umlautMap'[i] \in Seq(Variants)
        BY <1>2, <3>4 DEF Safe, TypeOK, IsUmlautMap
      <4>2. eng' \in EngineState  BY <1>2 DEF TypeOK
      <4>3. \A i \in DOMAIN umlautMap : umlautMap[i] # <<>> => umlautMap'[i] # <<>>
        BY <3>4, <4>1
      <4>4. ASSUME Waiting(eng')
            PROVE  /\ eng'.waitingKey = KeyText[eng'.waitingKeyCode]
                   /\ eng'.waitingKey \in DOMAIN umlautMap'
                   /\ umlautMap'[eng'.waitingKey] # <<>>
        BY <3>1, <3>4, <4>3, <4>4 DEF Reading, VariantsFor
      <4>5. ASSUME Cycling(eng')
            PROVE  /\ eng'.cyclingInput = KeyText[eng'.waitingKeyCode]
                   /\ eng'.cyclingInput \in DOMAIN umlautMap'
                   /\ eng'.cyclingIndex < Len(umlautMap'[eng'.cyclingInput])
        <5>1. eng'.cyclingIndex < Len(VariantsFor(eng'.cyclingInput)) /\ eng'.cyclingIndex \in Nat
          BY <3>1, <4>2, <4>5 DEF Reading, EngineState
        <5>2. eng'.cyclingInput \in DOMAIN umlautMap  BY <5>1 DEF VariantsFor
        <5>3. /\ Len(umlautMap[eng'.cyclingInput]) \in Nat
              /\ Len(umlautMap'[eng'.cyclingInput]) \in Nat
          BY <4>1, <5>2
        <5> QED BY <3>1, <3>4, <4>5, <5>1, <5>2, <5>3 DEF Reading, VariantsFor
      <4> QED BY <4>4, <4>5 DEF Reading, Waiting, Cycling, VariantsFor
    <3>5. CASE \E s : Resort(s)
      <4>1. PICK s : Resort(s)  BY <3>5
      <4>2. \A i \in DOMAIN umlautMap : umlautMap[i] \in Seq(Variants)
        BY <1>2 DEF Safe, TypeOK, IsUmlautMap
      <4>3. \A i \in DOMAIN umlautMap : Len(umlautMap'[i]) = Len(umlautMap[i])
        BY <1>2, <4>1, ResortKeeps DEF Safe, TypeOK, From
      <4> QED BY <1>2, <3>4, <4>1, <4>2, <4>3, ResortKeeps DEF Safe, TypeOK
    <3>6. CASE Reload
      <4>1. PICK r \in Reloads : umlautMap' \in BuildRuntimeMaps(r.map, r.config)
        BY <3>6 DEF Reload
      <4>2. IsUmlautMap(r.map)  BY <4>1, EngineAssumption DEF EngineAssumption
      <4>3. /\ DOMAIN umlautMap' = DOMAIN r.map
            /\ \A i \in DOMAIN r.map : Len(umlautMap'[i]) = Len(r.map[i])
        BY <4>1, <4>2, RuntimeMapFrom DEF From
      <4>4. ASSUME NEW i \in DOMAIN umlautMap
            PROVE  i \in DOMAIN r.map /\ Len(umlautMap[i]) <= Len(r.map[i])
        BY <1>2, <4>1 DEF Sourced, From, ReloadsKeepVariants
      <4> QED BY <3>4, <4>3, <4>4
    <3> QED BY <1>2, <3>2, <3>3, <3>5, <3>6, StepSays
  <2> QED BY <1>2, <2>1, <2>2, <2>3, StepSays
<1> QED BY <1>1, <1>2, SafeInvariant, MappedHasVariant, MappingsSourced, TypeCorrect, PTL DEF Spec

-----------------------------------------------------------------------------
(* The theorems *)

\* No key that is no modifier reaches the applications while an earlier one is
\* still withheld.
THEOREM RolloverHolds ==
  ASSUME OneSteadyKeyboard, OutputsExist, ReloadsKeepVariants
  PROVE  Spec => RolloverCommitsFirst
<1>1. PICK one : Keyboards = {one}  BY DEF OneSteadyKeyboard
<1> DEFINE Step == \A kb \in Keyboards, k \in Keys :
                     k \in app'[kb] \ app[kb] /\ ~IsModifierSym(k) => ~GestureActive(eng)'
<1>2. Safe /\ NonEmpty(umlautMap) /\ Reading(eng) /\ [Next]_vars => [Step]_vars
  <2>1. SUFFICES ASSUME Safe, NonEmpty(umlautMap), Reading(eng), [Next]_vars,
                        NEW kb \in Keyboards, NEW k \in Keys,
                        k \in app'[kb] \ app[kb], ~IsModifierSym(k)
                 PROVE  ~GestureActive(eng')
    BY DEF GestureActive, Waiting, Cycling
  <2>2. Keyboards = {kb} /\ app \in [Keyboards -> SUBSET Keys]  BY <1>1, <2>1 DEF Safe, TypeOK
  <2>3. ASSUME NEW c \in Keys, Press(kb, c) PROVE ~GestureActive(eng')
    <3>1. eng'.decision = "Forward" /\ c = k
      BY <2>1, <2>2, <2>3 DEF Press, PressFiltered, PressProfileShortcut, PressModifier,
                              PressShortcut, PressLeader, PressMapped, PressOther, DeliverPress
    <3> QED BY <2>1, <2>2, <2>3, <3>1, PressSays
  <2>4. CASE \E c \in Keys : Release(kb, c)
    BY <2>1, <2>2, <2>4 DEF Release, DeliverRelease
  <2>5. \/ UNCHANGED app
        \/ \E c \in Keys : Press(kb, c) \/ Release(kb, c)
    BY <2>1, <2>2 DEF Next, OneSteadyKeyboard, Repeat, Tick, Timers, WindowTimeout, AutoSelect,
                      OverlayShow, OverlayHide, ProfileFlash, UsageFlush, FocusChanged, Reload,
                      vars
  <2> QED BY <2>1, <2>3, <2>4, <2>5
<1> QED BY <1>2, SafeInvariant, MappedHasVariant, ReadingInvariant, PTL
        DEF Spec, RolloverCommitsFirst

\* The end of a cycle commits the text the overlay highlighted, as long as no
\* reload changed the variants of the cycle since.
THEOREM HighlightIsCommitted ==
  ASSUME OneSteadyKeyboard, OverlayKept, OverlayPreviews, OutputsExist, ReloadsKeepVariants
  PROVE  Spec /\ CyclesUndisturbed => CommitsHighlighted
<1> DEFINE Step == config.overlayEnabled /\ Cycling(eng) /\ eng'.out # <<>>
                     => eng'.out[1].text = eng.panel.variants[eng.panel.index + 1]
<1>1. Safe /\ NonEmpty(umlautMap) /\ Reading(eng) /\ Mirrors(eng) /\ [Next]_vars => [Step]_vars
  <2>1. SUFFICES ASSUME Safe, NonEmpty(umlautMap), Reading(eng), Mirrors(eng), [Next]_vars,
                        ~UNCHANGED vars, config.overlayEnabled, Cycling(eng), eng'.out # <<>>
                 PROVE  eng'.out[1].text = eng.panel.variants[eng.panel.index + 1]
    OBVIOUS
  <2> DEFINE v == VariantsFor(eng.cyclingInput)[eng.cyclingIndex + 1]
  <2>2. Texts(eng) = {<<[code |-> eng.waitingKeyCode, text |-> v]>>}
    <3>1. Spoken(eng) = {v}  BY <2>1 DEF Spoken
    <3> QED BY <2>1, <3>1 DEF Texts, GestureActive
  <2>3. Speaks(eng, eng')  BY <2>1, StepSays, FocusSays
  <2>4. ASSUME NEW o \in Texts(eng), eng'.out = o PROVE eng'.out[1].text = v
    BY <2>2, <2>4
  <2>5. ASSUME NEW o \in Texts(eng), NEW e, eng'.out = Append(o, e) PROVE eng'.out[1].text = v
    <3> DEFINE c == [code |-> eng.waitingKeyCode, text |-> v]
    <3>1. o = <<c>>  BY <2>2
    <3>2. c.text = v  OBVIOUS
    <3> HIDE DEF c, v
    <3>3. Append(<<c>>, e)[1] = c  OBVIOUS
    <3> QED BY <2>5, <3>1, <3>2, <3>3
  <2>6. eng'.out[1].text = v
    BY <2>1, <2>3, <2>4, <2>5 DEF Speaks, Still, Settles, Starts, Types
  <2>7. /\ eng.panel.variants = VariantsFor(eng.cyclingInput)
        /\ eng.panel.index = eng.cyclingIndex
    BY <2>1 DEF Mirrors, Enabled, GestureActive, Panel
  <2> QED BY <2>6, <2>7
<1> QED BY <1>1, SafeInvariant, MappedHasVariant, ReadingInvariant, MirrorsInvariant, PTL
        DEF Spec, CommitsHighlighted

\* The mappings a reload brings are those of the profiles.
ReloadsAreProfiles == \A r \in Reloads : \E p \in ProfileNames : r.map = ProfileMap[p]

\* Whatever settles a gesture is an answer to its key.
LEMMA TextsAnswer ==
  ASSUME ReloadsAreProfiles, Safe, Reading(eng), Sourced(umlautMap)
  PROVE  Texts(eng) \subseteq Withheld!Settlements
<1> DEFINE k == eng.waitingKeyCode
           p == IF GestureActive(eng) THEN eng.waitingKeyCode ELSE NoKey
<1>1. eng \in EngineState /\ Owned(eng) /\ IsUmlautMap(umlautMap)
  BY DEF Safe, TypeOK, OneGesture, OneOwner, Owned
<1>2. CASE ~GestureActive(eng)  BY <1>2 DEF Texts, Withheld!Settlements
<1>3. CASE GestureActive(eng)
  <2>1. k \in Keys /\ k # NoKey  BY <1>1, <1>3 DEF Owned, OwnerShape, EngineState
  <2>2. ASSUME KeyText[k] \in DOMAIN umlautMap, NEW i \in 1..Len(umlautMap[KeyText[k]])
        PROVE  umlautMap[KeyText[k]][i] \in AnswersOf[k]
    <3>1. PICK m \in GivenMappings :
            KeyText[k] \in DOMAIN m /\ From(umlautMap[KeyText[k]], m[KeyText[k]])
      BY <2>2 DEF Sourced
    <3>2. m \in {ProfileMap[q] : q \in ProfileNames} /\ IsUmlautMap(m)
      BY EngineAssumption DEF GivenMappings, ReloadsAreProfiles, EngineAssumption
    <3>3. PICK l \in 1..Len(m[KeyText[k]]) : umlautMap[KeyText[k]][i] = m[KeyText[k]][l]
      BY <2>2, <3>1 DEF From
    <3>4. DOMAIN m[KeyText[k]] = 1..Len(m[KeyText[k]])  BY <3>1, <3>2 DEF IsUmlautMap
    <3> HIDE DEF k
    <3> QED BY <2>1, <3>1, <3>2, <3>3, <3>4 DEF AnswersOf
  <2>3. KeyText[k] \in AnswersOf[k]  BY <2>1 DEF AnswersOf
  <2>4. Spoken(eng) \subseteq AnswersOf[k]
    <3>1. CASE Cycling(eng)
      <4>1. /\ eng.cyclingInput = KeyText[k] /\ eng.cyclingIndex \in Nat
            /\ eng.cyclingIndex < Len(VariantsFor(KeyText[k]))
        BY <1>1, <3>1 DEF Reading, EngineState
      <4>2. KeyText[k] \in DOMAIN umlautMap  BY <4>1 DEF VariantsFor
      <4>3. Len(umlautMap[KeyText[k]]) \in Nat  BY <1>1, <4>2 DEF IsUmlautMap
      <4>4. eng.cyclingIndex + 1 \in 1..Len(umlautMap[KeyText[k]])
        BY <4>1, <4>2, <4>3 DEF VariantsFor
      <4> QED BY <2>2, <3>1, <4>1, <4>2, <4>4 DEF Spoken, VariantsFor
    <3>2. CASE ~Cycling(eng)
      <4>1. eng.waitingKey = KeyText[k] /\ VariantsFor(KeyText[k]) # <<>>
        BY <1>3, <3>2 DEF Reading, GestureActive
      <4>2. KeyText[k] \in DOMAIN umlautMap  BY <4>1 DEF VariantsFor
      <4>3. DOMAIN umlautMap[KeyText[k]] = 1..Len(umlautMap[KeyText[k]])
        BY <1>1, <4>2 DEF IsUmlautMap
      <4>4. VariantsFor(eng.waitingKey) = umlautMap[KeyText[k]]
        BY <4>1, <4>2 DEF VariantsFor
      <4>5. ASSUME NEW x \in Spoken(eng) PROVE x \in AnswersOf[k]
        <5>1. \/ x = KeyText[k]
              \/ \E i \in 1..Len(umlautMap[KeyText[k]]) : x = umlautMap[KeyText[k]][i]
          BY <3>2, <4>1, <4>3, <4>4, <4>5 DEF Spoken
        <5> QED BY <2>2, <2>3, <4>2, <5>1
      <4> QED BY <4>5
    <3> QED BY <3>1, <3>2
  <2>5. p = k /\ p # NoKey  BY <1>3, <2>1
  <2> HIDE DEF k, p
  <2>6. Texts(eng) = {<<[code |-> k, text |-> x]>> : x \in Spoken(eng)}
    BY <1>3 DEF Texts, k
  <2>7. Withheld!Settlements = {<<[code |-> k, text |-> t]>> : t \in AnswersOf[k]}
    BY <2>1, <1>3 DEF Withheld!Settlements, k
  <2> QED BY <2>4, <2>6, <2>7
<1> QED BY <1>2, <1>3

\* Every step of the engine is a step of WithheldPress, or none.
LEMMA StepAnswers ==
  ASSUME OneSteadyKeyboard, ReloadsAreProfiles, Safe, Safe', NonEmpty(umlautMap), Reading(eng),
         Sourced(umlautMap), [Next]_vars
  PROVE  [Withheld!Next]_(Withheld!vars)
<1>1. Texts(eng) \subseteq Withheld!Settlements  BY TextsAnswer
<1>2. /\ GestureActive(eng) <=> eng.waitingKeyCode # NoKey
      /\ GestureActive(eng') <=> eng'.waitingKeyCode # NoKey
      /\ NoKey \notin Keys
  <2>1. Owned(eng) /\ Owned(eng')
    BY DEF Safe, OneGesture, OneOwner, Owned, OwnerShape, GestureActive, Waiting, Cycling
  <2> QED BY <2>1, KeysAssumption DEF Owned, OwnerShape, KeysAssumption
<1>3. GestureActive(eng)' <=> GestureActive(eng')  BY DEF GestureActive, Waiting, Cycling
<1>4. CASE UNCHANGED vars
  BY <1>4 DEF vars, Withheld!vars, GestureActive, Waiting, Cycling
<1>7. /\ down' \in [Keyboards -> SUBSET Keys]
      /\ rep' \in [Keyboards -> Keys \cup {NoKey}]
  BY DEF Safe, TypeOK
<1>5. CASE FocusChanged
  <2>1. Withheld!FocusChange
    BY <1>3, <1>5, FocusSays DEF Withheld!FocusChange
  <2> QED BY <1>7, <2>1 DEF Withheld!Next
<1>6. CASE Speaks(eng, eng')
  <2>1. (eng'.decision = "Focus") = FALSE  BY <1>6 DEF Speaks
  <2>2. CASE Still(eng, eng')
    <3>1. Withheld!Quiet
      BY <1>2, <1>3, <2>1, <2>2 DEF Withheld!Quiet, Still
    <3> QED BY <1>7, <3>1 DEF Withheld!Next
  <2>3. CASE Settles(eng, eng')
    <3>1. CASE GestureActive(eng)
      <4>1. Withheld!Answer
        BY <1>1, <1>2, <1>3, <2>1, <2>3, <3>1 DEF Withheld!Answer, Settles
      <4> QED BY <1>7, <4>1 DEF Withheld!Next
    <3>2. CASE ~GestureActive(eng)
      <4>1. Withheld!Quiet
        BY <1>2, <1>3, <2>1, <2>3, <3>2 DEF Withheld!Quiet, Settles, Texts
      <4> QED BY <1>7, <4>1 DEF Withheld!Next
    <3> QED BY <3>1, <3>2
  <2>4. ASSUME NEW k \in Keys, Starts(eng, eng', k), Withheld!Pressed(k) PROVE Withheld!Next
    <3>1. k # IF GestureActive(eng) THEN eng.waitingKeyCode ELSE NoKey
      BY <1>2, <2>4 DEF Starts
    <3>2. Withheld!Withhold(k)
      BY <1>1, <1>2, <1>3, <2>1, <2>4, <3>1 DEF Withheld!Withhold, Starts
    <3> QED BY <1>7, <3>2 DEF Withheld!Next
  <2>6. ASSUME NEW k \in Keys, Starts(eng, eng', k), ~GestureActive(eng), Withheld!Repeated(k)
        PROVE  Withheld!Next
    <3>1. eng'.out = <<>>  BY <2>6 DEF Starts, Texts
    <3>2. Withheld!WithholdAgain(k)
      BY <1>2, <1>3, <2>1, <2>6, <3>1 DEF Withheld!WithholdAgain, Starts
    <3> QED BY <1>7, <3>2 DEF Withheld!Next
  <2>5. ASSUME NEW k \in Keys, Types(eng, eng', k), Withheld!Pressed(k) PROVE Withheld!Next
    <3>1. KeyText[k] \in AnswersOf[k]  BY DEF AnswersOf
    <3>3. k # IF GestureActive(eng) THEN eng.waitingKeyCode ELSE NoKey
      BY <1>2, <2>5 DEF Types
    <3>2. Withheld!Direct(k)
      BY <1>1, <1>2, <1>3, <2>1, <2>5, <3>1, <3>3 DEF Withheld!Direct, Types
    <3> QED BY <1>7, <3>2 DEF Withheld!Next
  <2> QED BY <1>6, <2>2, <2>3, <2>4, <2>5, <2>6 DEF Speaks
<1> QED BY <1>4, <1>5, <1>6, StepSays

\* Every withheld press is answered by exactly one text, before anything typed
\* after it, and never again unless its key is held and repeats; only a focus
\* change may discard it.
THEOREM EveryPressIsAnswered ==
  ASSUME OneSteadyKeyboard, OutputsExist, ReloadsKeepVariants, ReloadsAreProfiles
  PROVE  Spec => AnswersEveryPress
<1>1. Init => Withheld!Init
  <2>1. SUFFICES ASSUME Init PROVE Withheld!Init  OBVIOUS
  <2>2. /\ eng.waitingKey = NoText /\ eng.cyclingInput = NoText
        /\ eng.out = <<>> /\ eng.decision = "None"
    BY <2>1 DEF Init, ApplyUsageTracking, IdleState
  <2>3. ~GestureActive(eng)  BY <2>2 DEF GestureActive, Waiting, Cycling
  <2> QED BY <2>1, <2>2, <2>3 DEF Withheld!Init, Init
<1>2. Safe /\ Safe' /\ NonEmpty(umlautMap) /\ Reading(eng) /\ Sourced(umlautMap) /\ [Next]_vars
        => [Withheld!Next]_(Withheld!vars)
  BY StepAnswers
<1> QED BY <1>1, <1>2, SafeInvariant, MappedHasVariant, ReadingInvariant, MappingsSourced, PTL
        DEF Spec, AnswersEveryPress, Withheld!Spec

-----------------------------------------------------------------------------
(* What the daemon's loop sees: every answer is one module KeyAnswers allows. *)

\* Nothing is said and the clock of the window is the same.
Mute(s, t) ==
  t.out = s.out /\ t.windowTimer = s.windowTimer /\ t.elapsed = s.elapsed

\* What a step from s to t does to the window: nothing, or it is over or new, and
\* what was said answered a key whose release was waited for.
Over(s, t) == ~Waiting(t) /\ (t.out # <<>> => Held(s) # {})
Begun(s, t) == t.elapsed = 0 /\ (t.out # <<>> => Held(s) # {})

\* How the loop sees the engine.
View(o, w, b) == [owned |-> o, window |-> w, sinkDead |-> b]

-----------------------------------------------------------------------------
(* The answers module KeyAnswers allows, as views *)

\* A commit that finds the compositor gone.
LEMMA CommitView ==
  ASSUME NEW h, NEW w, NEW b
  PROVE  Loop!Commit(View(h, w, b), Gone) = View(h, w, TRUE)
<1> DEFINE d == View(h, w, b)
           y == d.sinkDead \/ Gone
<1>1. Loop!Commit(d, Gone) = [d EXCEPT !.sinkDead = y]
  BY DEF Loop!Commit
<1>2. y = TRUE  BY DEF Gone
<1> HIDE DEF y
<1>3. [d EXCEPT !.sinkDead = y] = View(h, w, y)  BY DEF View
<1> QED BY <1>1, <1>2, <1>3

\* A view, edited.
LEMMA ViewEdits ==
  ASSUME NEW h, NEW w, NEW b, NEW x
  PROVE  /\ [View(h, w, b) EXCEPT !.owned = x] = View(x, w, b)
         /\ [View(h, w, b) EXCEPT !.window = x] = View(h, x, b)
         /\ View(h, w, b).owned = h /\ View(h, w, b).window = w
BY DEF View

\* Any release may be handed back.
LEMMA MaySettleHas ==
  ASSUME NEW d, NEW x \in Loop!Ends(d, Gone), NEW o \in SUBSET d.owned
  PROVE  Loop!Owning(x, o) \in Loop!MaySettle(d, Gone)
<1>1. \E y \in Loop!Ends(d, Gone), q \in SUBSET d.owned : Loop!Owning(x, o) = Loop!Owning(y, q)
  OBVIOUS
<1> QED BY <1>1 DEF Loop!MaySettle

\* Releases may be handed back; with one to consume there may be a gesture to
\* settle.
LEMMA SettleViews ==
  ASSUME NEW h, NEW w, NEW o \in SUBSET h, NEW c, NEW e
  PROVE  LET m == Loop!MaySettle(View(h, w, c), Gone) IN
         /\ View(o, w, c) \in m
         /\ h # {} => View(o, "off", c) \in m
         /\ h # {} /\ e = TRUE => View(o, "off", e) \in m
<1> DEFINE d == View(h, w, c)
           off == View(h, "off", c)
           dead == View(h, "off", e)
           m == Loop!MaySettle(d, Gone)
<1>1. d.owned = h /\ [d EXCEPT !.window = "off"] = off  BY ViewEdits
<1>2. Loop!Owning(d, o) = View(o, w, c)  BY ViewEdits DEF Loop!Owning
<1>3. Loop!Owning(off, o) = View(o, "off", c)  BY ViewEdits DEF Loop!Owning
<1>4. Loop!Owning(dead, o) = View(o, "off", e)  BY ViewEdits DEF Loop!Owning
<1>5. e = TRUE => Loop!Commit(off, Gone) = dead  BY CommitView
<1> HIDE DEF d, off, dead
<1>6. /\ d \in Loop!Ends(d, Gone)
      /\ h # {} => off \in Loop!Ends(d, Gone)
      /\ h # {} /\ e = TRUE => dead \in Loop!Ends(d, Gone)
  BY <1>1, <1>5 DEF Loop!Ends
<1>7. ASSUME NEW x \in Loop!Ends(d, Gone) PROVE Loop!Owning(x, o) \in m
  <2>1. o \in SUBSET d.owned  BY <1>1
  <2> QED BY <1>7, <2>1, MaySettleHas
<1> HIDE DEF m
<1>8. View(o, w, c) \in m  BY <1>2, <1>6, <1>7
<1>9. ASSUME h # {} PROVE View(o, "off", c) \in m  BY <1>3, <1>6, <1>7, <1>9
<1>10. ASSUME h # {}, e = TRUE PROVE View(o, "off", e) \in m
  BY <1>4, <1>6, <1>7, <1>10
<1> QED BY <1>8, <1>9, <1>10 DEF d, m

\* The window of a view may start, go on or end; a key may join or leave it.
LEMMA WindowViews ==
  ASSUME NEW h, NEW w, NEW b \in BOOLEAN, NEW v \in {w, "armed", "off"}, NEW k
  PROVE  /\ View(h, v, b) \in Loop!Windows(View(h, w, b))
         /\ View(h \cup {k}, v, b) \in Loop!Withhold(View(h, w, b), k)
         /\ View(h \ {k}, v, b) \in Loop!LetGo(View(h, w, b), k)
<1>1. ASSUME NEW q PROVE View(q, v, b) \in Loop!Windows(View(q, w, b))
  <2>1. View(q, w, b).window = w  BY DEF View
  <2>2. [View(q, w, b) EXCEPT !.window = v] = View(q, v, b)  BY DEF View
  <2> QED BY <2>1, <2>2 DEF Loop!Windows
<1>2. [View(h, w, b) EXCEPT !.owned = @ \cup {k}] = View(h \cup {k}, w, b)  BY DEF View
<1>3. [View(h, w, b) EXCEPT !.owned = @ \ {k}] = View(h \ {k}, w, b)  BY DEF View
<1> QED BY <1>1, <1>2, <1>3 DEF Loop!Withhold, Loop!LetGo

-----------------------------------------------------------------------------
(* Records as the loop sees them *)

\* With no gesture beside its owner, what is seen is a view.
LEMMA SeenIs ==
  ASSUME NEW s \in EngineState, Owned(s)
  PROVE  /\ Seen(s) = View(Held(s), WindowSeen(s), s.out # <<>>)
         /\ Timed(s) /\ ~Waiting(s) => WindowSeen(s) = "off"
         /\ s.elapsed = 0 => WindowSeen(s) \in {"off", "armed"}
         /\ GestureActive(s) => Held(s) # {}
<1>1. {s.committedCode, s.consumedAltCode,
       IF GestureActive(s) THEN s.waitingKeyCode ELSE NoKey} \ {NoKey} = Held(s)
  BY DEF Owned, OwnerShape, Held
<1>2. Timed(s) /\ ~Waiting(s) => WindowSeen(s) = "off"
  BY DEF Timed, WindowSeen
<1>3. s.elapsed = 0 => WindowSeen(s) \in {"off", "armed"}
  BY DEF WindowSeen, EngineState, NoTimer
<1>4. GestureActive(s) => Held(s) # {}
  BY DEF Owned, OwnerShape, Held
<1> QED BY <1>1, <1>2, <1>3, <1>4 DEF Seen, View

\* A step that says nothing, or ends the window, settles what the loop knows of.
LEMMA SettleSeen ==
  ASSUME NEW s \in EngineState, NEW t \in EngineState, Owned(s), Owned(t),
         Timed(s), Timed(t), s.out = <<>>, NEW o \in SUBSET Held(s),
         Mute(s, t) \/ Over(s, t)
  PROVE  View(o, WindowSeen(t), t.out # <<>>) \in Loop!MaySettle(Seen(s), Gone)
<1>1. Seen(s) = View(Held(s), WindowSeen(s), FALSE)  BY SeenIs
<1>2. (t.out # <<>>) \in BOOLEAN  OBVIOUS
<1>3. CASE WindowSeen(t) = WindowSeen(s) /\ t.out = <<>>
  <2>1. (t.out # <<>>) = FALSE  BY <1>3
  <2> QED BY <1>1, <1>3, <2>1, SettleViews, CommitView
<1>4. CASE WindowSeen(t) = "off" /\ Held(s) # {}
  <2>1. (t.out # <<>>) = FALSE \/ (t.out # <<>>) = TRUE  OBVIOUS
  <2> QED BY <1>1, <1>4, <2>1, SettleViews, CommitView
<1>5. CASE Mute(s, t)
  <2>1. WindowSeen(t) = WindowSeen(s)  BY <1>5 DEF WindowSeen, Mute
  <2> QED BY <1>3, <1>5, <2>1 DEF Mute
<1>6. CASE Over(s, t)
  <2>1. WindowSeen(t) = "off"  BY <1>6, SeenIs DEF Over
  <2>2. CASE Held(s) = {}
    <3>1. ~Waiting(s)  BY <2>2, SeenIs DEF GestureActive
    <3>2. WindowSeen(s) = "off"  BY <3>1, SeenIs
    <3> QED BY <1>3, <1>6, <2>1, <2>2, <3>2 DEF Over
  <2> QED BY <1>4, <2>1, <2>2
<1> QED BY <1>5, <1>6

\* And one that begins a window starts it.
LEMMA StepSeen ==
  ASSUME NEW s \in EngineState, NEW t \in EngineState, Owned(s), Owned(t),
         Timed(s), Timed(t), s.out = <<>>, NEW o \in SUBSET Held(s),
         Mute(s, t) \/ Over(s, t) \/ Begun(s, t)
  PROVE  \E w, b : /\ View(o, w, b) \in Loop!MaySettle(Seen(s), Gone)
                   /\ WindowSeen(t) \in {w, "armed", "off"}
                   /\ b = (t.out # <<>>)
<1>1. CASE Mute(s, t) \/ Over(s, t)
  <2>1. View(o, WindowSeen(t), t.out # <<>>) \in Loop!MaySettle(Seen(s), Gone)
    BY <1>1, SettleSeen
  <2> QED BY <2>1
<1>2. CASE Begun(s, t)
  <2>1. Seen(s) = View(Held(s), WindowSeen(s), FALSE)  BY SeenIs
  <2>2. (t.out # <<>>) \in BOOLEAN  OBVIOUS
  <2>3. WindowSeen(t) \in {"armed", "off"}  BY <1>2, SeenIs DEF Begun
  <2>4. CASE Held(s) # {}
    <3>1. (t.out # <<>>) = FALSE \/ (t.out # <<>>) = TRUE  OBVIOUS
    <3>2. View(o, "off", t.out # <<>>) \in Loop!MaySettle(Seen(s), Gone)
      BY <2>1, <2>4, <3>1, SettleViews, CommitView
    <3> QED BY <2>3, <3>2
  <2>5. CASE t.out = <<>>
    <3>1. View(o, WindowSeen(s), FALSE) \in Loop!MaySettle(Seen(s), Gone)
      BY <2>1, SettleViews, CommitView, CommitView
    <3>2. FALSE = (t.out # <<>>)  BY <2>5
    <3> QED BY <2>3, <3>1, <3>2
  <2> QED BY <1>2, <2>4, <2>5 DEF Begun
<1> QED BY <1>1, <1>2

\* The keys that may be consumed.
Consumable == {k \in Keys : IsModifierSym(k) => IsAltLeaderSym(k)}

\* An allowed record is an allowed answer.
LEMMA AnswersHas ==
  ASSUME NEW ds, NEW x \in ds, NEW c
  PROVE  [d |-> x, consumed |-> c] \in Loop!Answers(ds, c)
BY DEF Loop!Answers

\* A press is answered as the loop expects, if a forwarded one only settles and a
\* consumed one withholds no key but its own.
LEMMA PressAnswered ==
  ASSUME NEW s \in EngineState, NEW t \in EngineState, Owned(s), Owned(t),
         Timed(s), Timed(t), s.out = <<>>, NEW k \in Keys, NEW c \in BOOLEAN,
         ~c => Held(t) \subseteq Held(s) /\ (Mute(s, t) \/ Over(s, t)),
         c => /\ k \in Consumable /\ Held(t) \subseteq Held(s) \cup {k}
              /\ Mute(s, t) \/ Over(s, t) \/ Begun(s, t)
  PROVE  [d |-> Seen(t), consumed |-> c]
           \in Loop!EngineKey(Seen(s), [key |-> k, value |-> "press"], Gone)
<1> DEFINE d == Seen(s)
           e == [key |-> k, value |-> "press"]
           settled == Loop!MaySettle(d, Gone)
           stepped == UNION {Loop!Windows(x) : x \in settled}
           withheld == UNION {Loop!Withhold(x, k) : x \in settled}
           ok == IF k \in Consumable THEN stepped \cup withheld ELSE {}
           r == [d |-> Seen(t), consumed |-> c]
<1>1. Loop!EngineKey(d, e, Gone) = Loop!Answers(settled, FALSE) \cup Loop!Answers(ok, TRUE)
  BY DEF Loop!EngineKey, Consumable
<1>2. Seen(t) = View(Held(t), WindowSeen(t), t.out # <<>>)  BY SeenIs
<1>3. CASE ~c
  <2>1. Seen(t) \in settled  BY <1>2, <1>3, SettleSeen
  <2>2. c = FALSE  BY <1>3
  <2> HIDE DEF settled, ok
  <2>3. r \in Loop!Answers(settled, c)  BY <2>1, AnswersHas
  <2> HIDE DEF r
  <2> QED BY <1>1, <2>2, <2>3 DEF r
<1>4. CASE c
  <2> DEFINE o == IF k \in Held(s) \/ k \notin Held(t) THEN Held(t) ELSE Held(t) \ {k}
  <2>1. o \in SUBSET Held(s)  BY <1>4
  <2>2. PICK w, b : /\ View(o, w, b) \in settled
                    /\ WindowSeen(t) \in {w, "armed", "off"}
                    /\ b = (t.out # <<>>)
    <3> HIDE DEF o
    <3> QED BY <1>4, <2>1, StepSeen
  <2>3. b \in BOOLEAN  BY <2>2
  <2>4. /\ View(o, WindowSeen(t), b) \in Loop!Windows(View(o, w, b))
        /\ View(o \cup {k}, WindowSeen(t), b) \in Loop!Withhold(View(o, w, b), k)
    <3> HIDE DEF o
    <3> QED BY <2>2, <2>3, WindowViews
  <2>5. Held(t) = o \/ Held(t) = o \cup {k}  OBVIOUS
  <2>6. Seen(t) = View(o, WindowSeen(t), b) \/ Seen(t) = View(o \cup {k}, WindowSeen(t), b)
    <3> HIDE DEF o
    <3> QED BY <1>2, <2>2, <2>5
  <2> HIDE DEF o, settled
  <2>7. Seen(t) \in stepped \cup withheld  BY <2>2, <2>4, <2>6
  <2>8. Seen(t) \in ok /\ c = TRUE  BY <1>4, <2>7
  <2> HIDE DEF ok
  <2>9. r \in Loop!Answers(ok, c)  BY <2>8, AnswersHas
  <2> HIDE DEF r
  <2> QED BY <1>1, <2>8, <2>9 DEF r, settled
<1> QED BY <1>3, <1>4

\* So is a repeat, if it withholds no other key.
LEMMA RepeatAnswered ==
  ASSUME NEW s \in EngineState, NEW t \in EngineState, Owned(s), Owned(t),
         Timed(s), Timed(t), s.out = <<>>, NEW k \in Keys, NEW c \in BOOLEAN,
         Held(t) \subseteq Held(s),
         Mute(s, t) \/ Over(s, t) \/ (c /\ Begun(s, t))
  PROVE  [d |-> Seen(t), consumed |-> c]
           \in Loop!EngineKey(Seen(s), [key |-> k, value |-> "repeat"], Gone)
<1> DEFINE d == Seen(s)
           e == [key |-> k, value |-> "repeat"]
           settled == Loop!MaySettle(d, Gone)
           stepped == UNION {Loop!Windows(x) : x \in settled}
           r == [d |-> Seen(t), consumed |-> c]
<1>1. Loop!EngineKey(d, e, Gone) = Loop!Answers(settled, FALSE) \cup Loop!Answers(stepped, TRUE)
  BY DEF Loop!EngineKey
<1>2. Seen(t) = View(Held(t), WindowSeen(t), t.out # <<>>)  BY SeenIs
<1>3. CASE ~c
  <2>1. Seen(t) \in settled  BY <1>2, <1>3, SettleSeen
  <2>2. c = FALSE  BY <1>3
  <2> HIDE DEF settled, stepped
  <2>3. r \in Loop!Answers(settled, c)  BY <2>1, AnswersHas
  <2> HIDE DEF r
  <2> QED BY <1>1, <2>2, <2>3 DEF r
<1>4. CASE c
  <2> DEFINE o == Held(t)
  <2>1. PICK w, b : /\ View(o, w, b) \in settled
                    /\ WindowSeen(t) \in {w, "armed", "off"}
                    /\ b = (t.out # <<>>)
    BY StepSeen
  <2>2. b \in BOOLEAN  BY <2>1
  <2>3. View(o, WindowSeen(t), b) \in Loop!Windows(View(o, w, b))
    BY <2>1, <2>2, WindowViews
  <2>4. Seen(t) = View(o, WindowSeen(t), b)  BY <1>2, <2>1
  <2> HIDE DEF o, settled
  <2>5. Seen(t) \in stepped  BY <2>1, <2>3, <2>4
  <2>6. c = TRUE  BY <1>4
  <2> HIDE DEF stepped
  <2>7. r \in Loop!Answers(stepped, c)  BY <2>5, AnswersHas
  <2> HIDE DEF r
  <2> QED BY <1>1, <2>6, <2>7 DEF r, settled, stepped
<1> QED BY <1>3, <1>4

\* And a release, if it is consumed by the owner it had.
LEMMA ReleaseAnswered ==
  ASSUME NEW s \in EngineState, NEW t \in EngineState, Owned(s), Owned(t),
         Timed(s), Timed(t), s.out = <<>>, NEW k \in Keys, NEW c \in BOOLEAN,
         c <=> k \in Held(s), Held(t) = Held(s) \ {k},
         Mute(s, t) \/ (c /\ Over(s, t))
  PROVE  [d |-> Seen(t), consumed |-> c]
           \in Loop!EngineKey(Seen(s), [key |-> k, value |-> "release"], Gone)
<1> DEFINE d == Seen(s)
           e == [key |-> k, value |-> "release"]
           gone == {d, Loop!Commit(d, Gone)}
           let == UNION {Loop!LetGo(x, k) : x \in gone}
           r == [d |-> Seen(t), consumed |-> c]
           h == Held(s)
           w == WindowSeen(s)
           b == (t.out # <<>>)
<1>1. d = View(h, w, FALSE)  BY SeenIs
<1>2. Seen(t) = View(Held(t), WindowSeen(t), b)  BY SeenIs
<1>3. d.owned = h
  <2>1. View(h, w, FALSE).owned = h  BY DEF View
  <2> HIDE DEF d, h, w
  <2> QED BY <1>1, <2>1
<1>4. Loop!EngineKey(d, e, Gone) =
        IF k \notin h THEN Loop!Answers({d}, FALSE) ELSE Loop!Answers(let, TRUE)
  BY <1>3 DEF Loop!EngineKey
<1>5. Mute(s, t) => WindowSeen(t) = w /\ b = FALSE  BY DEF Mute, WindowSeen
<1>6. CASE ~c
  <2>1. Held(t) = h  BY <1>6
  <2>2. Seen(t) = d  BY <1>1, <1>2, <1>5, <1>6, <2>1
  <2>3. c = FALSE /\ Seen(t) \in {d}  BY <1>6, <2>2
  <2> HIDE DEF d
  <2>4. r \in Loop!Answers({d}, c)  BY <2>3, AnswersHas
  <2> HIDE DEF r
  <2> QED BY <1>4, <1>6, <2>3, <2>4 DEF r, d
<1>7. CASE c
  <2>1. WindowSeen(t) \in {w, "armed", "off"}
    <3>1. Over(s, t) => WindowSeen(t) = "off"  BY SeenIs DEF Over
    <3> QED BY <1>5, <3>1
  <2>2. b \in BOOLEAN  OBVIOUS
  <2>3. View(h, w, b) \in gone
    <3>1. Loop!Commit(d, Gone) = View(h, w, TRUE)  BY <1>1, CommitView
    <3>2. b = FALSE \/ b = TRUE  OBVIOUS
    <3> HIDE DEF b, d, h, w
    <3> QED BY <1>1, <3>1, <3>2
  <2> HIDE DEF h, w, b
  <2>4. View(h \ {k}, WindowSeen(t), b) \in Loop!LetGo(View(h, w, b), k)
    BY <2>1, <2>2, WindowViews
  <2>5. Seen(t) = View(h \ {k}, WindowSeen(t), b)  BY <1>2 DEF h
  <2> HIDE DEF gone, d
  <2>6. Seen(t) \in let  BY <2>3, <2>4, <2>5
  <2> HIDE DEF let
  <2>7. r \in Loop!Answers(let, c)  BY <2>6, AnswersHas
  <2>8. c = TRUE /\ k \in h  BY <1>7 DEF h
  <2> HIDE DEF r
  <2> QED BY <1>4, <2>7, <2>8 DEF r, d
<1> QED BY <1>6, <1>7

-----------------------------------------------------------------------------
(* What the helpers do to the clock *)

\* Silence composes.
LEMMA MuteComposes ==
  ASSUME NEW s
  PROVE  /\ Mute(s, s)
         /\ \A t, u : Mute(s, t) /\ Mute(t, u) => Mute(s, u)
BY DEF Mute

\* Decisions and armed releases say nothing.
LEMMA SettersMute ==
  ASSUME NEW s \in EngineState
  PROVE  /\ Mute(s, Consume(s)) /\ Mute(s, Forward(s))
         /\ \A k, b : Mute(s, ArmCommitted(s, k, b))
         /\ \A k : Mute(s, [s EXCEPT !.consumedAltCode = k])
         /\ \A b : Mute(s, [s EXCEPT !.inputKeyPressed = b])
         /\ \A n : Mute(s, [s EXCEPT !.overlayShowTimer = n])
<1>1. Mute(s, Consume(s)) /\ Mute(s, Forward(s))  BY DEF Mute, Consume, Forward, EngineState
<1>2. \A k, b : Mute(s, ArmCommitted(s, k, b))  BY DEF Mute, ArmCommitted, EngineState
<1>3. \A k : Mute(s, [s EXCEPT !.consumedAltCode = k])  BY DEF Mute, EngineState
<1>4. \A b : Mute(s, [s EXCEPT !.inputKeyPressed = b])  BY DEF Mute, EngineState
<1>5. \A n : Mute(s, [s EXCEPT !.overlayShowTimer = n])  BY DEF Mute, EngineState
<1> QED BY <1>1, <1>2, <1>3, <1>4, <1>5

\* Neither does what a new gesture shows.
LEMMA ShowGestureMute ==
  ASSUME NEW s \in EngineState, NEW input, NEW v
  PROVE  Mute(s, ShowGestureOverlay(s, input, v))
<1> DEFINE t == [s EXCEPT !.overlayHideTimer = FALSE]
           n == [due |-> EffectiveWindow(config.delay, input).min, input |-> input,
                 variants |-> v]
<1>1. t \in EngineState /\ Mute(s, t)  BY DEF EngineState, Mute
<1>2. ASSUME NEW u \in EngineState PROVE Mute(u, OverlayShowVariants(u, v, -1))
  BY DEF OverlayShowVariants, Mute, EngineState
<1>3. \/ ShowGestureOverlay(s, input, v) = s
      \/ ShowGestureOverlay(s, input, v) = OverlayShowVariants(t, v, -1)
      \/ ShowGestureOverlay(s, input, v) = [t EXCEPT !.overlayShowTimer = n]
  BY DEF ShowGestureOverlay
<1> HIDE DEF t, n
<1>4. Mute(t, OverlayShowVariants(t, v, -1)) /\ Mute(t, [t EXCEPT !.overlayShowTimer = n])
  BY <1>1, <1>2, SettersMute
<1> QED BY <1>1, <1>3, <1>4, MuteComposes

\* A key that is withheld starts a window.
LEMMA StartGestureBegins ==
  ASSUME Config, NEW s \in EngineState, NEW k \in Keys, KeyText[k] \in Inputs,
         NEW v \in Seq(Variants)
  PROVE  StartGesture(s, k, v).elapsed = 0 /\ StartGesture(s, k, v).out = s.out
<1> DEFINE w == EffectiveWindow(config.delay, KeyText[k])
           wt == IF w.unlimited THEN NoTimer ELSE w.max
           at == IF config.autoSelect THEN config.autoSelectMs ELSE NoTimer
           a == [s EXCEPT !.waitingKey = KeyText[k], !.waitingKeyCode = k,
                          !.inputKeyPressed = TRUE, !.elapsed = 0,
                          !.windowTimer = wt, !.autoSelectTimer = at]
           b == ShowGestureOverlay(a, KeyText[k], v)
<1>1. wt \in Nat /\ at \in Nat
  BY EffectiveWindowType DEF Config, EngineConfig, NoTimer
<1>2. a \in EngineState
  <2> HIDE DEF wt, at
  <2> QED BY <1>1 DEF EngineState
<1>3. a.elapsed = 0 /\ a.out = s.out
  <2> HIDE DEF wt, at
  <2> QED BY DEF EngineState
<1>4. StartGesture(s, k, v) = Consume(b)  BY DEF StartGesture
<1> HIDE DEF a
<1>5. b \in EngineState /\ Mute(a, b)  BY <1>2, ShowGestureOverlayType, ShowGestureMute
<1> HIDE DEF b
<1>6. Mute(b, Consume(b))  BY <1>5, SettersMute
<1> QED BY <1>3, <1>4, <1>5, <1>6 DEF Mute

\* The first leader ends the wait.
LEMMA OpenGestureEnds ==
  ASSUME Config, NEW s \in EngineState, NEW k \in Keys,
         Waiting(s), VariantsFor(s.waitingKey) # <<>>
  PROVE  ~Waiting(OpenGesture(s, k))
<1> DEFINE input    == s.waitingKey
           variants == VariantsFor(input)
           start    == IF LeaderStep(config.leader, k) < 0 THEN Len(variants) - 1 ELSE 0
           f        == IF s.overlayVisible THEN FlashCommitOverlay(s, variants)
                       ELSE HideTriggerOverlay(s)
           c        == ArmCommitted(CommitVariant(f, input, variants[1]), s.waitingKeyCode, TRUE)
           single   == ResetWaiting(c)
           x        == [s EXCEPT !.cyclingInput = input, !.cyclingIndex = start,
                                 !.waitingKey = NoText]
           e        == EnterCycling(s, input, start)
           t        == IF Len(variants) > 1 THEN e ELSE single
<1>1. input \in Inputs \cup {NoText} /\ s.waitingKeyCode \in Keys \cup {NoKey}
  BY DEF EngineState
<1>2. Len(variants) \in Nat /\ Len(variants) > 0 /\ variants[1] \in STRING
      /\ variants \in Seq(Variants)
  <2>1. /\ variants \in Seq(Variants)
        /\ Len(variants) \in Nat /\ Len(variants) > 0
        /\ \A i \in 1..Len(variants) : variants[i] \in STRING
    BY VariantsForType DEF Config
  <2> HIDE DEF variants
  <2> QED BY <2>1
<1>3. start \in Nat
  <2> HIDE DEF variants
  <2> QED BY <1>2
<1>4. e \in EngineState /\ e.waitingKey = NoText
  <2>1. e \in EngineState  BY <1>1, <1>3, EnterCyclingType
  <2>2. e = OverlayShowVariants(x, variants, start)  BY DEF EnterCycling
  <2> HIDE DEF start, e, variants
  <2>3. x \in EngineState /\ x.waitingKey = NoText
    BY <1>1, <1>3 DEF EngineState, NoText
  <2>4. start \in Int  BY <1>3
  <2> HIDE DEF x
  <2>5. Same(x, OverlayShowVariants(x, variants, start))  BY <1>2, <2>3, <2>4, OverlayFrame
  <2> QED BY <2>1, <2>2, <2>3, <2>5 DEF Same
<1>5. single \in EngineState /\ single.waitingKey = NoText
  <2>1. f \in EngineState
    <3> HIDE DEF variants
    <3> QED BY <1>2, FlashCommitOverlayType, HideTriggerOverlayType
  <2> HIDE DEF f, variants
  <2>2. c \in EngineState  BY <1>1, <1>2, <2>1, CommitVariantType, ArmCommittedType
  <2> HIDE DEF c
  <2>3. single \in EngineState  BY <2>2, SettersType
  <2> QED BY <2>2, <2>3 DEF ResetWaiting, EngineState
<1>6. t \in EngineState /\ t.waitingKey = NoText
  <2> HIDE DEF e, single
  <2> QED BY <1>4, <1>5
<1>7. OpenGesture(s, k) = [t EXCEPT !.autoSelectTimer = NoTimer, !.windowTimer = NoTimer]
  BY DEF OpenGesture
<1> HIDE DEF t
<1>8. [t EXCEPT !.autoSelectTimer = NoTimer, !.windowTimer = NoTimer].waitingKey = NoText
  BY <1>6 DEF EngineState
<1> QED BY <1>7, <1>8 DEF Waiting

\* A leader ends the wait or says nothing, and starts none.
LEMMA HandleLeaderClock ==
  ASSUME Config, NEW s \in EngineState, NEW k \in Keys, Owned(s)
  PROVE  LET t == HandleLeader(s, k) IN
         /\ Waiting(t) => Waiting(s) /\ Mute(s, t)
         /\ ~GestureActive(s) => Mute(s, t)
<1> DEFINE a == [s EXCEPT !.overlayShowTimer = NoShow]
           b == ArmCommitted(a, a.waitingKeyCode, TRUE)
           early == Forward(CommitPendingKey(b))
           step == ConsumeLeader(StepCycling(a, k), k)
           open == ConsumeLeader(OpenGesture(a, k), k)
           n == [a EXCEPT !.consumedAltCode = NoKey]
           Post(t) == /\ Waiting(t) => Waiting(s) /\ Mute(s, t)
                      /\ ~GestureActive(s) => Mute(s, t)
<1>1. a \in EngineState /\ Same(s, a) /\ Mute(s, a)
  <2>1. a \in EngineState  BY NoShowType
  <2>2. Mute(s, a)  BY SettersMute
  <2>3. Same(s, a)  BY DEF EngineState, Same
  <2> QED BY <2>1, <2>2, <2>3
<1> HIDE DEF a
<1>2. /\ Owned(a) /\ (Waiting(a) <=> Waiting(s)) /\ (Cycling(a) <=> Cycling(s))
      /\ (GestureActive(a) <=> GestureActive(s))
  BY <1>1, SameOwners
<1>3. ASSUME Waiting(a) PROVE Post(early)
  <2>1. a.waitingKeyCode \in Keys \cup {NoKey}  BY <1>1 DEF EngineState
  <2>2. b \in EngineState  BY <1>1, <2>1, ArmCommittedType
  <2>3. b.waitingKey = a.waitingKey  BY <1>1 DEF ArmCommitted, EngineState
  <2> HIDE DEF b
  <2>4. Waiting(b)  BY <1>3, <2>3 DEF Waiting
  <2>5. CommitPendingKey(b) \in EngineState /\ CommitPendingKey(b).waitingKey = NoText
    BY <2>2, <2>4, CommitPendingKeyType, CommitPendingKeyEnds
  <2>6. early.waitingKey = NoText  BY <2>5, SettersFrame DEF Same
  <2> HIDE DEF early
  <2> QED BY <1>2, <1>3, <2>6 DEF Waiting, GestureActive
<1>4. ~(Cycling(a) /\ ~a.inputKeyPressed)
  BY <1>2 DEF Owned, OwnerShape, GestureActive
<1>5. ASSUME Cycling(a), VariantsFor(a.cyclingInput) # <<>> PROVE Post(step)
  <2>1. StepCycling(a, k) \in EngineState /\ Same(a, StepCycling(a, k))
    BY <1>1, <1>5, StepCyclingType, StepCyclingFrame
  <2>2. Frozen(StepCycling(a, k), step)  BY <2>1, ConsumeLeaderFreezes
  <2>3. step.waitingKey = a.waitingKey  BY <2>1, <2>2 DEF Same, Frozen
  <2>4. ~Waiting(a)  BY <1>2, <1>5 DEF Owned
  <2> HIDE DEF step
  <2> QED BY <1>2, <1>5, <2>3, <2>4 DEF Waiting, GestureActive
<1>6. ASSUME Waiting(a), VariantsFor(a.waitingKey) # <<>> PROVE Post(open)
  <2>1. OpenGesture(a, k) \in EngineState /\ ~Waiting(OpenGesture(a, k))
    BY <1>1, <1>6, OpenGestureType, OpenGestureEnds
  <2>2. Frozen(OpenGesture(a, k), open)  BY <2>1, ConsumeLeaderFreezes
  <2> HIDE DEF open
  <2>3. ~Waiting(open)  BY <2>1, <2>2 DEF Waiting, Frozen
  <2> QED BY <1>2, <1>6, <2>3 DEF GestureActive
<1>7. Post(Forward(n))
  <2>1. n \in EngineState  BY <1>1 DEF EngineState, NoKey
  <2>4. Mute(a, n) /\ n.waitingKey = a.waitingKey
    BY <1>1, SettersMute, SettersFreeze DEF Frozen
  <2> HIDE DEF n
  <2>2. Mute(n, Forward(n)) /\ Same(n, Forward(n))  BY <2>1, SettersMute, SettersFrame
  <2>3. Mute(s, Forward(n))  BY <1>1, <2>4, <2>2, MuteComposes
  <2> QED BY <1>2, <2>4, <2>2, <2>3 DEF Same, Waiting
<1>8. Post(HandleLeader(s, k))
  <2> HIDE DEF Post
  <2> QED BY <1>3, <1>4, <1>5, <1>6, <1>7 DEF HandleLeader, a, b, early, step, open, n
<1> QED BY <1>8

\* A profile switch ends the wait, and says nothing with no gesture open.
LEMMA SwitchToProfileClock ==
  ASSUME Config, NEW s \in EngineState, NEW name
  PROVE  LET t == SwitchToProfile(s, name) IN
         /\ IsSwitch(name) => ~Waiting(t)
         /\ ~IsSwitch(name) => t = s
         /\ ~GestureActive(s) => t.out = s.out
<1> DEFINE c == IF Cycling(s) THEN CommitCyclingValue(s) ELSE CommitPendingKey(s)
           d == CancelGestureTimers(c)
           e == ResetCycling(ResetWaiting(d))
           t == [e EXCEPT !.panel = Profile, !.overlayVisible = TRUE, !.profileFlashTimer = TRUE]
<1>1. c \in EngineState  BY CommitCyclingValueType, CommitPendingKeyType
<1>2. ~GestureActive(s) => c = s  BY CommitPendingKeyEnds DEF GestureActive
<1> HIDE DEF c
<1>3. d \in EngineState /\ d.out = c.out  BY <1>1, SettersType, SettersFreeze DEF Frozen
<1> HIDE DEF d
<1>4. e \in EngineState /\ e.waitingKey = NoText /\ e.out = d.out
  <2>1. e \in EngineState  BY <1>3, SettersType
  <2> QED BY <1>3, <2>1 DEF EngineState, ResetWaiting, ResetCycling
<1> HIDE DEF e
<1>5. t.waitingKey = NoText /\ t.out = e.out  BY <1>4 DEF EngineState
<1>6. SwitchToProfile(s, name) = IF ~IsSwitch(name) THEN s ELSE t
  BY DEF SwitchToProfile, c, d, e
<1> HIDE DEF t
<1> QED BY <1>2, <1>3, <1>4, <1>5, <1>6 DEF Waiting

-----------------------------------------------------------------------------
(* The steps, as answers *)

\* Before a press is looked at: the fresh record, the late window's and the one
\* with no gesture.
LEMMA SettledSeen ==
  ASSUME Config, eng \in EngineState, Owned(eng), Timed(eng)
  PROVE  LET f == Fresh(eng)
             g == CommitGesture(Settled)
         IN
         /\ f \in EngineState /\ Owned(f) /\ Held(f) = Held(eng) /\ Timed(f) /\ f.out = <<>>
         /\ (GestureActive(f) <=> GestureActive(eng)) /\ (Waiting(f) <=> Waiting(eng))
         /\ Waiting(Settled) => Settled = f
         /\ ~GestureActive(eng) => Settled = f
         /\ GestureActive(eng) => Held(eng) # {}
         /\ g \in EngineState /\ Owned(g) /\ ~GestureActive(g) /\ Held(g) \subseteq Held(eng)
         /\ ~GestureActive(eng) => g = f
<1> DEFINE f == Fresh(eng)
           g == CommitGesture(Settled)
<1>1. /\ f \in EngineState /\ Owned(f) /\ Held(f) = Held(eng) /\ f.out = <<>>
      /\ (GestureActive(f) <=> GestureActive(eng)) /\ (Waiting(f) <=> Waiting(eng))
  BY FreshType, FreshSilent, SettersFrame, SameOwners
<1>2. Timed(f)
  <2>1. f.windowTimer = eng.windowTimer /\ f.autoSelectTimer = eng.autoSelectTimer
    BY DEF Fresh, EngineState
  <2> HIDE DEF f
  <2> QED BY <1>1, <2>1 DEF Timed
<1>3. Settled = IF Waiting(eng) /\ Expired(eng) THEN CommitExpired(f) ELSE f
  BY DEF Settled
<1> HIDE DEF f
<1>4. Waiting(eng) => ~GestureActive(CommitExpired(f))
  BY <1>1, CommitExpiredOwners
<1>5. /\ Waiting(Settled) => Settled = f
      /\ ~GestureActive(eng) => Settled = f
  BY <1>3, <1>4 DEF GestureActive
<1>6. GestureActive(eng) => Held(eng) # {}  BY SeenIs
<1>7. /\ Settled \in EngineState /\ Owned(Settled) /\ Held(Settled) \subseteq Held(eng)
  BY SettledOwners
<1>8. g \in EngineState /\ Owned(g) /\ ~GestureActive(g) /\ Held(g) \subseteq Held(eng)
  BY <1>7, CommitGestureType, CommitGestureEnds, EndedOwners
<1>9. ~GestureActive(eng) => g = f  BY <1>1, <1>5, NothingToCommit
<1> QED BY <1>1, <1>2, <1>5, <1>6, <1>8, <1>9 DEF f

\* A press: what it says it says for a gesture it ends, or for a key typed while
\* an Alt is withheld.
LEMMA PressReacts ==
  ASSUME Safe, Safe', Timed(eng), Timed(eng'), NEW kb, Keyboards = {kb},
         NEW k \in Keys, Press(kb, k)
  PROVE  Reacts(k, "press")
<1> DEFINE f == Fresh(eng)
           g == CommitGesture(Settled)
           c == eng'.decision = "Consume"
           Plain(t) == Held(t) \subseteq Held(f) /\ (Mute(f, t) \/ Over(f, t))
           Taken(t) == /\ k \in Consumable /\ Held(t) \subseteq Held(f) \cup {k}
                       /\ Mute(f, t) \/ Over(f, t) \/ Begun(f, t)
<1>1. /\ Config /\ eng \in EngineState /\ Owned(eng) /\ SteadySettings(config)
      /\ eng' \in EngineState /\ Owned(eng')
  BY SafeFacts DEF Safe, TypeOK, Config, OneGesture, OneOwner, Owned, Waiting, Cycling,
                   OwnerShape, GestureActive
<1>2. /\ f \in EngineState /\ Owned(f) /\ Held(f) = Held(eng) /\ Timed(f) /\ f.out = <<>>
      /\ Waiting(Settled) => Settled = f
      /\ ~GestureActive(eng) => Settled = f
      /\ GestureActive(eng) => Held(eng) # {}
      /\ g \in EngineState /\ Owned(g) /\ ~GestureActive(g) /\ Held(g) \subseteq Held(eng)
      /\ ~GestureActive(eng) => g = f
      /\ GestureActive(f) <=> GestureActive(eng)
  BY <1>1, SettledSeen
<1>3. /\ Settled \in EngineState /\ Owned(Settled) /\ Held(Settled) \subseteq Held(eng)
  BY <1>1, SettledOwners
<1>4. ~Filtered  BY <1>1 DEF SteadySettings, Filtered
<1>5. IsGestureKey(k) => k \in Consumable
  BY DEF IsGestureKey, AltAsLeader, IsAltLeaderSym, Consumable
<1> HIDE DEF f, g
<1>6. ASSUME NEW t, eng' = t, (~c => Plain(t)) /\ (c => Taken(t))
      PROVE  Reacts(k, "press")
  <2>1. c \in BOOLEAN  OBVIOUS
  <2> HIDE DEF c
  <2>2. [d |-> Seen(eng'), consumed |-> c]
          \in Loop!EngineKey(Seen(f), [key |-> k, value |-> "press"], Gone)
    BY <1>1, <1>2, <1>6, <2>1, PressAnswered
  <2> QED BY <2>2 DEF Reacts, Before, c, f
<1>7. ASSUME NEW s \in EngineState, Held(s) \subseteq Held(f), Mute(f, s) \/ Over(f, s),
             \/ DeliverPress(kb, k, Forward(s))
             \/ k \in Consumable /\ DeliverPress(kb, k, Consume(s))
      PROVE  Reacts(k, "press")
  <2> DEFINE u == Forward(s)
             v == Consume(s)
  <2>1. /\ u.decision = "Forward" /\ Same(s, u) /\ Mute(s, u)
        /\ v.decision = "Consume" /\ Same(s, v) /\ Mute(s, v)
    BY <1>7, SettersFrame, SettersMute
  <2>2. \/ eng' = u
        \/ k \in Consumable /\ eng' = v
    BY <1>7 DEF DeliverPress
  <2> HIDE DEF u, v
  <2>3. ASSUME NEW t, Same(s, t), Mute(s, t) PROVE Plain(t)
    <3>1. Held(t) = Held(s) /\ (Waiting(t) <=> Waiting(s))  BY <2>3, SameOwners
    <3>2. Mute(f, s) => Mute(f, t)  BY <2>3, MuteComposes
    <3>3. Over(f, s) => Over(f, t)  BY <2>3, <3>1 DEF Over, Mute
    <3> QED BY <1>7, <3>1, <3>2, <3>3
  <2>4. Plain(u) /\ Plain(v)  BY <2>1, <2>3
  <2> HIDE DEF Plain
  <2>5. Plain(v) /\ k \in Consumable => Taken(v)  BY DEF Plain
  <2> QED BY <1>6, <2>1, <2>2, <2>4, <2>5
<1>8. ASSUME NEW s \in EngineState, ~Waiting(s), GestureActive(eng) \/ s.out = <<>>
      PROVE  Over(f, s)
  BY <1>2, <1>8 DEF Over
<1>9. CASE PressFiltered(kb, k)  BY <1>4, <1>9 DEF PressFiltered
<1>10. CASE PressProfileShortcut(kb, k)
  <2>1. PICK name : DeliverPress(kb, k, Consume(SwitchToProfile(f, name)))
    BY <1>10 DEF PressProfileShortcut, f
  <2> DEFINE s == SwitchToProfile(f, name)
  <2>2. s \in EngineState /\ Held(s) \subseteq Held(f)
    BY <1>1, <1>2, SwitchToProfileType, SwitchToProfileOwners
  <2>3. /\ IsSwitch(name) => ~Waiting(s)
        /\ ~IsSwitch(name) => s = f
        /\ ~GestureActive(f) => s.out = f.out
    BY <1>1, <1>2, SwitchToProfileClock
  <2>4. k \in Consumable
    BY <1>10, EngineAssumption
       DEF PressProfileShortcut, IsProfileShortcut, EngineAssumption, Consumable
  <2>5. DeliverPress(kb, k, Consume(s))  BY <2>1
  <2> HIDE DEF s
  <2>6. Mute(f, s) \/ Over(f, s)  BY <1>2, <1>8, <2>2, <2>3, MuteComposes
  <2> QED BY <1>7, <2>2, <2>4, <2>5, <2>6
<1>11. CASE PressModifier(kb, k)
  BY <1>2, <1>7, <1>11, MuteComposes DEF PressModifier, f
<1>12. CASE PressShortcut(kb, k)
  <2> DEFINE s == [g EXCEPT !.inputKeyPressed = FALSE]
  <2>1. s \in EngineState /\ Same(g, s)
    BY ZenonT(60), <1>2, EngineStateFields DEF EngineState, Same, Owned, OwnerShape
  <2>2. Mute(g, s)  BY <1>2, SettersMute
  <2>3. DeliverPress(kb, k, Forward(s))  BY <1>12 DEF PressShortcut, g
  <2> HIDE DEF s
  <2>4. Held(s) \subseteq Held(f) /\ ~Waiting(s)
    BY <1>2, <2>1, SameOwners DEF GestureActive
  <2>5. GestureActive(eng) \/ s.out = <<>>  BY <1>2, <2>2 DEF Mute
  <2>6. Over(f, s)  BY <1>8, <2>1, <2>4, <2>5
  <2> QED BY <1>7, <2>1, <2>3, <2>4, <2>6
<1>13. CASE PressLeader(kb, k)
  <2> DEFINE t == HandleLeader(Settled, k)
  <2>1. t \in EngineState  BY <1>1, <1>3, HandleLeaderType
  <2>2. /\ t.decision \in {"Consume", "Forward"}
        /\ Held(t) \subseteq Held(Settled) \cup
             (IF t.decision = "Consume" /\ IsAltLeaderSym(k) THEN {k} ELSE {})
    BY <1>1, <1>3, HandleLeaderOwners
  <2>3. /\ Waiting(t) => Waiting(Settled) /\ Mute(Settled, t)
        /\ ~GestureActive(Settled) => Mute(Settled, t)
    BY <1>1, <1>3, HandleLeaderClock
  <2>4. eng' = t /\ k \in Consumable
    BY <1>5, <1>13 DEF PressLeader, DeliverPress, ReachesPress
  <2> HIDE DEF t
  <2>5. CASE Waiting(t)  BY <1>2, <1>6, <2>2, <2>3, <2>4, <2>5
  <2>6. CASE ~Waiting(t)
    <3>1. GestureActive(eng) \/ t.out = <<>>  BY <1>2, <2>3 DEF Mute
    <3>2. Over(f, t)  BY <1>8, <2>1, <2>6, <3>1
    <3> QED BY <1>2, <1>3, <1>6, <2>2, <2>4, <3>2
  <2> QED BY <2>5, <2>6
<1>14. CASE PressMapped(kb, k)
  <2>1. KeyText[k] \in Inputs  BY <1>1, <1>14 DEF PressMapped, Config, IsUmlautMap
  <2> DEFINE v == umlautMap'[KeyText[k]]
             t == StartGesture(g, k, v)
  <2>7. v \in Seq(Variants)  BY <1>1, <1>14, ResortMapped DEF PressMapped, Config
  <2> HIDE DEF v
  <2>2. g.committedCode # k
    <3>1. k \notin Held(eng)  BY SafeFacts, <1>14 DEF Press, PhysicalPress
    <3>2. k # NoKey  BY KeysAssumption DEF KeysAssumption
    <3> QED BY <1>2, <3>1, <3>2 DEF Held
  <2>3. Held(t) \subseteq Held(g) \cup {k} /\ t.decision = "Consume"
    BY <1>1, <1>2, <2>1, <2>2, <2>7, StartGestureOwners
  <2>4. t.elapsed = 0 /\ t.out = g.out  BY <1>1, <1>2, <2>1, <2>7, StartGestureBegins
  <2>5. eng' = t /\ k \in Consumable
    BY <1>5, <1>14 DEF PressMapped, DeliverPress, ReachesPress, g, v
  <2> HIDE DEF t
  <2>6. Begun(f, t)  BY <1>2, <2>4 DEF Begun
  <2> QED BY <1>2, <1>6, <2>3, <2>5, <2>6
<1>15. CASE PressOther(kb, k)
  <2> DEFINE s == [g EXCEPT !.consumedAltCode = NoKey]
             t == CommitText(s, k, KeyText[k])
  <2>1. /\ s \in EngineState
        /\ s.waitingKey = g.waitingKey /\ s.waitingKeyCode = g.waitingKeyCode
        /\ s.committedCode = g.committedCode /\ s.consumedAltCode = NoKey
        /\ s.out = g.out
    BY <1>2 DEF EngineState, NoKey
  <2>2. \/ AltBypass(k) /\ k \in Consumable /\ DeliverPress(kb, k, Consume(t))
        \/ DeliverPress(kb, k, Forward(s))
    BY <1>5, <1>15 DEF PressOther, ReachesPress, g
  <2>3. KeyText[k] \in STRING /\ NoText \in Inputs \cup {NoText}  BY TextTypes
  <2> HIDE DEF s
  <2>4. Held(s) \subseteq Held(f) /\ ~Waiting(s)
    BY <1>2, <2>1 DEF Held, GestureActive, Waiting
  <2>5. CASE DeliverPress(kb, k, Forward(s))
    <3>1. GestureActive(eng) \/ s.out = <<>>  BY <1>2, <2>1
    <3>2. Over(f, s)  BY <1>8, <2>1, <2>4, <3>1
    <3> QED BY <1>7, <2>1, <2>4, <2>5, <3>2
  <2>6. CASE AltBypass(k) /\ k \in Consumable /\ DeliverPress(kb, k, Consume(t))
    <3>1. t \in EngineState /\ Same(s, t)
      BY <1>1, <2>1, <2>3, CommitTextType, CommitFrame
    <3>2. Held(t) \subseteq Held(f) /\ ~Waiting(t)  BY <2>4, <3>1, SameOwners
    <3>3. Held(f) # {}
      <4>1. GestureActive(Settled) \/ Settled.consumedAltCode # NoKey  BY <2>6 DEF AltBypass
      <4>2. Held(Settled) # {}  BY <1>3, <4>1, SeenIs DEF Held
      <4> QED BY <1>2, <1>3, <4>2
    <3> HIDE DEF t
    <3>4. Over(f, t)  BY <3>2, <3>3 DEF Over
    <3> QED BY <1>7, <2>6, <3>1, <3>2, <3>4
  <2> QED BY <2>2, <2>5, <2>6
<1> QED BY <1>9, <1>10, <1>11, <1>12, <1>13, <1>14, <1>15 DEF Press

\* A repeat: a leader that repeats is no Alt, and a committed key starts over once
\* it is disarmed.
LEMMA RepeatReacts ==
  ASSUME Safe, Safe', Timed(eng), Timed(eng'), NEW kb, Keyboards = {kb},
         NEW k, rep[kb] = k, Repeat(kb)
  PROVE  Reacts(k, "repeat")
<1> DEFINE f == Fresh(eng)
           c == eng'.decision = "Consume"
<1>1. /\ Config /\ eng \in EngineState /\ Owned(eng) /\ SteadySettings(config)
      /\ eng' \in EngineState /\ Owned(eng')
      /\ k \in Keys /\ k # NoKey
      /\ GestureActive(eng) => k # eng.committedCode
  BY SafeFacts DEF Safe, TypeOK, Config, OneGesture, OneOwner, Owned, Waiting, Cycling,
                   OwnerShape, GestureActive, Repeat
<1>2. /\ f \in EngineState /\ Owned(f) /\ Held(f) = Held(eng) /\ Timed(f) /\ f.out = <<>>
      /\ (GestureActive(f) <=> GestureActive(eng)) /\ (Waiting(f) <=> Waiting(eng))
      /\ GestureActive(eng) => Held(eng) # {}
      /\ f.committedCode = eng.committedCode
  BY <1>1, SettledSeen, SettersFrame DEF Same
<1>3. ~Filtered  BY <1>1 DEF SteadySettings, Filtered
<1> HIDE DEF f
<1>4. ASSUME NEW t, eng' = t, Held(t) \subseteq Held(f),
             Mute(f, t) \/ Over(f, t) \/ (c /\ Begun(f, t))
      PROVE  Reacts(k, "repeat")
  <2>1. c \in BOOLEAN  OBVIOUS
  <2> HIDE DEF c
  <2>2. [d |-> Seen(eng'), consumed |-> c]
          \in Loop!EngineKey(Seen(f), [key |-> k, value |-> "repeat"], Gone)
    BY <1>1, <1>2, <1>4, <2>1, RepeatAnswered
  <2> QED BY <2>2 DEF Reacts, Before, c, f
<1>5. ASSUME NEW s \in EngineState, Held(s) \subseteq Held(f), Mute(f, s),
             eng' = Consume(s) \/ eng' = Forward(s)
      PROVE  Reacts(k, "repeat")
  <2> DEFINE u == Forward(s)
             v == Consume(s)
  <2>1. Same(s, u) /\ Mute(s, u) /\ Same(s, v) /\ Mute(s, v)
    BY <1>5, SettersFrame, SettersMute
  <2>2. eng' = u \/ eng' = v  BY <1>5
  <2> HIDE DEF u, v
  <2>3. Held(u) = Held(s) /\ Held(v) = Held(s) /\ Mute(f, u) /\ Mute(f, v)
    BY <1>5, <2>1, SameOwners, MuteComposes
  <2> QED BY <1>4, <1>5, <2>2, <2>3
<1>6. CASE RepeatOwnKey(k)  BY <1>2, <1>5, <1>6, MuteComposes DEF RepeatOwnKey, f
<1>7. CASE RepeatOther(k)  BY <1>2, <1>5, <1>7, MuteComposes DEF RepeatOther, f
<1>8. CASE RepeatLeader(k)
  <2> DEFINE t == HandleLeader(f, k)
  <2>1. config.leaderAutoRepeat /\ Cycling(eng) /\ ClassifyLeader(config.leader, k) # "None"
    BY <1>8 DEF RepeatLeader, LeaderRepeats, IsLeaderFor
  <2>2. ~config.leader.alt /\ ~config.leader.altGr  BY <1>1, <2>1 DEF SteadySettings
  <2>3. k \in config.leader.builtIn \/ k = config.leader.custom1 \/ k = config.leader.custom2
    BY <2>1, <2>2 DEF ClassifyLeader
  <2>4. ~IsModifierSym(k)  BY <1>1, <2>3 DEF SteadySettings
  <2>5. ~IsAltLeaderSym(k)
    BY <2>4 DEF IsModifierSym, IsAltLeaderSym, IsAltSym, IsAltGrSym
  <2>6. Held(t) \subseteq Held(f) \cup
             (IF t.decision = "Consume" /\ IsAltLeaderSym(k) THEN {k} ELSE {})
    BY <1>1, <1>2, HandleLeaderOwners
  <2>7. Waiting(t) => Waiting(f) /\ Mute(f, t)  BY <1>1, <1>2, HandleLeaderClock
  <2>8. eng' = t  BY <1>8 DEF RepeatLeader, f
  <2> HIDE DEF t
  <2>9. Held(t) \subseteq Held(f)  BY <2>5, <2>6
  <2>10. Mute(f, t) \/ Over(f, t)  BY <1>2, <2>1, <2>7 DEF Over, GestureActive
  <2> QED BY <1>4, <2>8, <2>9, <2>10
<1>9. CASE RepeatCommitted(k)
  <2> DEFINE s == ClearCommitted(f)
             v == umlautMap[KeyText[k]]
             t == StartGesture(s, k, v)
  <2>1. k = eng.committedCode  BY <1>9 DEF RepeatCommitted
  <2>2. ~GestureActive(eng) /\ k \in Held(f)  BY <1>1, <1>2, <2>1 DEF Held
  <2>3. /\ s \in EngineState /\ s.committedCode = NoKey
        /\ s.waitingKey = f.waitingKey /\ s.waitingKeyCode = f.waitingKeyCode
        /\ s.inputKeyPressed = f.inputKeyPressed /\ s.cyclingInput = f.cyclingInput
        /\ s.consumedAltCode = f.consumedAltCode
    BY ZenonT(60), <1>2 DEF EngineState, ClearCommitted, ArmCommitted, NoKey
  <2>4. Mute(f, s)  BY <1>2, SettersMute DEF ClearCommitted
  <2>5. \/ eng' = Consume(f)
        \/ KeyText[k] \in DOMAIN umlautMap /\ eng' = t
        \/ eng' = Forward(s)
    BY <1>9 DEF RepeatCommitted, f
  <2> HIDE DEF s, t
  <2>6. Owned(s) /\ ~GestureActive(s) /\ Held(s) \subseteq Held(f)
    BY <1>2, <2>2, <2>3 DEF Owned, OwnerShape, GestureActive, Waiting, Cycling, Held
  <2>7. CASE eng' = Consume(f)  BY <1>2, <1>5, <2>7, MuteComposes
  <2>8. CASE eng' = Forward(s)  BY <1>5, <2>3, <2>4, <2>6, <2>8
  <2>9. CASE KeyText[k] \in DOMAIN umlautMap /\ eng' = t
    <3>1. KeyText[k] \in Inputs /\ v \in Seq(Variants)
      BY <1>1, <2>9 DEF Config, IsUmlautMap
    <3> HIDE DEF v
    <3>2. Held(t) \subseteq Held(s) \cup {k} /\ t.decision = "Consume"
      BY <1>1, <2>3, <2>6, <3>1, StartGestureOwners DEF t
    <3>3. t.elapsed = 0 /\ t.out = s.out
      BY <1>1, <2>3, <3>1, StartGestureBegins DEF t
    <3>4. Begun(f, t)  BY <1>2, <2>4, <3>3 DEF Begun, Mute
    <3> QED BY <1>4, <2>2, <2>6, <2>9, <3>2, <3>4
  <2> QED BY <2>5, <2>7, <2>8, <2>9
<1> QED BY <1>3, <1>6, <1>7, <1>8, <1>9 DEF Repeat

\* A release, by its owner.
LEMMA ReleaseReacts ==
  ASSUME Safe, Safe', Timed(eng), Timed(eng'), NEW kb, Keyboards = {kb},
         NEW k \in Keys, Release(kb, k)
  PROVE  Reacts(k, "release")
<1> DEFINE f == Fresh(eng)
           t == HandleRelease(k)
           c == eng'.decision = "Consume"
<1>1. /\ Config /\ eng \in EngineState /\ Owned(eng) /\ SteadySettings(config)
      /\ eng' \in EngineState /\ Owned(eng')
      /\ k # NoKey
  BY SafeFacts, KeysAssumption
     DEF Safe, TypeOK, Config, OneGesture, OneOwner, Owned, Waiting, Cycling, OwnerShape,
         GestureActive, KeysAssumption
<1>2. /\ f \in EngineState /\ Owned(f) /\ Held(f) = Held(eng) /\ Timed(f) /\ f.out = <<>>
      /\ (GestureActive(f) <=> GestureActive(eng)) /\ (Waiting(f) <=> Waiting(eng))
      /\ Same(eng, f)
  BY <1>1, SettledSeen, SettersFrame
<1>3. ~Filtered  BY <1>1 DEF SteadySettings, Filtered
<1>4. /\ (Cycling(f) <=> Cycling(eng))
      /\ f.waitingKeyCode = eng.waitingKeyCode /\ f.committedCode = eng.committedCode
      /\ f.consumedAltCode = eng.consumedAltCode /\ f.inputKeyPressed = eng.inputKeyPressed
  BY <1>2, SameOwners DEF Same
<1> HIDE DEF f
<1>5. eng' = t  BY DEF Release, DeliverRelease
<1>6. ASSUME NEW s, Same(s, t), Mute(s, t), Held(s) = Held(f) \ {k},
             (t.decision = "Consume") <=> k \in Held(f),
             Mute(f, s) \/ (k \in Held(f) /\ Over(f, s))
      PROVE  Reacts(k, "release")
  <2> HIDE DEF t
  <2>1. Held(t) = Held(f) \ {k} /\ (Waiting(t) <=> Waiting(s))  BY <1>6, SameOwners
  <2>2. c \in BOOLEAN /\ (c <=> k \in Held(f))  BY <1>5, <1>6
  <2>3. Mute(f, s) => Mute(f, t)  BY <1>6, MuteComposes
  <2>4. Over(f, s) => Over(f, t)  BY <1>6, <2>1 DEF Over, Mute
  <2> HIDE DEF c
  <2>5. [d |-> Seen(eng'), consumed |-> c]
          \in Loop!EngineKey(Seen(f), [key |-> k, value |-> "release"], Gone)
    BY <1>1, <1>2, <1>5, <1>6, <2>1, <2>2, <2>3, <2>4, ReleaseAnswered
  <2> QED BY <2>5 DEF Reacts, Before, c, f
<1>7. CASE ReleaseAlt(k)
  <2> DEFINE s == [f EXCEPT !.consumedAltCode = NoKey]
  <2>1. /\ s \in EngineState
        /\ s.waitingKey = f.waitingKey /\ s.waitingKeyCode = f.waitingKeyCode
        /\ s.inputKeyPressed = f.inputKeyPressed /\ s.cyclingInput = f.cyclingInput
        /\ s.committedCode = f.committedCode /\ s.consumedAltCode = NoKey
    BY <1>2 DEF EngineState, NoKey
  <2>2. Mute(f, s)  BY <1>2, SettersMute
  <2>3. t = Consume(s)  BY <1>3, <1>7 DEF HandleRelease, ReleaseCommitted, ReleaseGesture, f
  <2> HIDE DEF s, t
  <2>4. Held(s) = Held(f) \ {k} /\ k \in Held(f)
    BY <1>1, <1>2, <1>4, <1>7, <2>1
       DEF Owned, OwnerShape, GestureActive, Waiting, Cycling, Held, ReleaseAlt
  <2>5. Same(s, t) /\ Mute(s, t) /\ t.decision = "Consume"
    BY <2>1, <2>3, SettersFrame, SettersMute
  <2> QED BY <1>6, <2>2, <2>4, <2>5
<1>8. CASE ReleaseCommitted(k)
  <2> DEFINE s == ClearCommitted(f)
  <2>1. /\ s \in EngineState
        /\ s.waitingKey = f.waitingKey /\ s.waitingKeyCode = f.waitingKeyCode
        /\ s.inputKeyPressed = f.inputKeyPressed /\ s.cyclingInput = f.cyclingInput
        /\ s.committedCode = NoKey /\ s.consumedAltCode = f.consumedAltCode
    BY ZenonT(60), <1>2 DEF EngineState, NoKey, ClearCommitted, ArmCommitted
  <2>2. Mute(f, s)  BY <1>2, SettersMute DEF ClearCommitted
  <2>3. t = Consume(s)  BY <1>3, <1>8 DEF HandleRelease, ReleaseCommitted, ReleaseGesture, f
  <2> HIDE DEF s, t
  <2>4. Held(s) = Held(f) \ {k} /\ k \in Held(f)
    BY <1>1, <1>2, <1>4, <1>8, <2>1
       DEF Owned, OwnerShape, GestureActive, Waiting, Cycling, Held, ReleaseCommitted, ReleaseAlt
  <2>5. Same(s, t) /\ Mute(s, t) /\ t.decision = "Consume"
    BY <2>1, <2>3, SettersFrame, SettersMute
  <2> QED BY <1>6, <2>2, <2>4, <2>5
<1>9. CASE ReleaseGesture(k)
  <2> DEFINE s == IF Cycling(f) THEN CommitCyclingValue(f) ELSE CommitPendingKey(f)
  <2>1. s \in EngineState  BY <1>1, <1>2, CommitCyclingValueType, CommitPendingKeyType
  <2>2. Ended(f, s)
    <3>1. CASE Cycling(f)  BY <1>1, <1>2, <3>1, CommitCyclingValueEnds
    <3>2. CASE ~Cycling(f)
      <4>1. Waiting(f)  BY <1>2, <1>4, <1>9, <3>2 DEF ReleaseGesture, GestureActive
      <4> QED BY <1>2, <3>2, <4>1, CommitPendingKeyEnds DEF Ended, Cycling
    <3> QED BY <3>1, <3>2
  <2>3. t = Consume(s)  BY <1>3, <1>9 DEF HandleRelease, ReleaseGesture, f
  <2> HIDE DEF s, t
  <2>4. Held(s) = Held(f) \ {k} /\ k \in Held(f)
    BY <1>1, <1>2, <1>4, <1>9, <2>2
       DEF Ended, Owned, OwnerShape, GestureActive, Waiting, Cycling, Held,
           ReleaseGesture, ReleaseCommitted, ReleaseAlt
  <2>5. Same(s, t) /\ Mute(s, t) /\ t.decision = "Consume"
    BY <2>1, <2>3, SettersFrame, SettersMute
  <2>6. Over(f, s)  BY <2>2, <2>4 DEF Over, Ended, Waiting
  <2> QED BY <1>6, <2>4, <2>5, <2>6
<1>10. CASE ~ReleaseAlt(k) /\ ~ReleaseCommitted(k) /\ ~ReleaseGesture(k)
  <2>1. t = Forward(f)  BY <1>3, <1>10 DEF HandleRelease, f
  <2> HIDE DEF t
  <2>2. Same(f, t) /\ Mute(f, t) /\ t.decision = "Forward"
    BY <1>2, <2>1, SettersFrame, SettersMute
  <2>3. k \notin Held(f)
    BY <1>1, <1>2, <1>4, <1>10
       DEF Owned, OwnerShape, Held, ReleaseGesture, ReleaseCommitted, ReleaseAlt
  <2> QED BY <1>6, <2>2, <2>3, MuteComposes
<1> QED BY <1>7, <1>8, <1>9, <1>10

\* The window, once over, has committed or not, and may have handed back releases.
LEMMA TimeoutViews ==
  ASSUME NEW h, NEW o \in SUBSET h, NEW b \in BOOLEAN
  PROVE  View(o, "off", b) \in Loop!EngineTimeout(View(h, "off", FALSE), Gone)
<1> DEFINE d == View(h, "off", FALSE)
           ends == {d, Loop!Commit(d, Gone)}
<1>1. d.owned = h  BY DEF View
<1>2. Loop!Commit(d, Gone) = View(h, "off", TRUE)  BY CommitView
<1>3. b = FALSE \/ b = TRUE  OBVIOUS
<1> HIDE DEF d
<1>4. View(h, "off", b) \in ends  BY <1>2, <1>3 DEF d
<1>5. Loop!Owning(View(h, "off", b), o) = View(o, "off", b)  BY ViewEdits DEF Loop!Owning
<1>6. ASSUME NEW x \in ends PROVE Loop!Owning(x, o) \in Loop!EngineTimeout(d, Gone)
  <2>1. o \in SUBSET d.owned  BY <1>1
  <2>2. \E y \in ends, q \in SUBSET d.owned : Loop!Owning(x, o) = Loop!Owning(y, q)
    BY <2>1
  <2> QED BY <2>2 DEF Loop!EngineTimeout
<1> HIDE DEF ends
<1>7. Loop!Owning(View(h, "off", b), o) \in Loop!EngineTimeout(d, Gone)  BY <1>4, <1>6
<1> QED BY <1>5, <1>7 DEF d

\* The window over, and the owners dropped with it.
Off(d) == [d EXCEPT !.window = "off"]
Dropped(d) == [d EXCEPT !.owned = {}, !.window = "off"]

\* What is a view stays one.
LEMMA ViewEnds ==
  ASSUME NEW d, NEW h, NEW w, NEW b, d = View(h, w, b)
  PROVE  Off(d) = View(h, "off", b) /\ Dropped(d) = View({}, "off", b)
<1> DEFINE v == "off"
           x == {}
<1> HIDE DEF v, x
<1> DEFINE F == {"owned", "window", "sinkDead"}
           l == [d EXCEPT !.window = v]
           m == [d EXCEPT !.owned = x, !.window = v]
<1>1. /\ DOMAIN d = F /\ d = [i \in F |-> d[i]]
      /\ d.owned = h /\ d.window = w /\ d.sinkDead = b
  BY DEF View
<1>2. l = [i \in F |-> l[i]] /\ l.owned = h /\ l.window = v /\ l.sinkDead = b  BY <1>1
<1>3. m = [i \in F |-> m[i]] /\ m.owned = x /\ m.window = v /\ m.sinkDead = b  BY <1>1
<1> HIDE DEF l, m
<1>4. l = View(h, v, b) /\ m = View(x, v, b)  BY <1>2, <1>3 DEF View
<1>5. Off(d) = l /\ Dropped(d) = m  BY DEF Off, Dropped, l, m, v, x
<1> QED BY <1>4, <1>5 DEF v, x

\* When the window timer fires there is no window left.
LEMMA TimeoutReacts ==
  ASSUME Safe, Safe', Timed(eng), Timed(eng'), NEW kb, Keyboards = {kb}, WindowTimeout
  PROVE  Seen(eng') \in Loop!EngineTimeout([Before EXCEPT !.window = "off"], Gone)
<1> DEFINE f == Fresh(eng)
           s == [f EXCEPT !.windowTimer = NoTimer]
           h == Held(f)
           w == WindowSeen(f)
           b == eng'.out # <<>>
<1>1. /\ Config /\ eng \in EngineState /\ Owned(eng)
      /\ eng' \in EngineState /\ Owned(eng')
  BY SafeFacts DEF Safe, TypeOK, Config, OneGesture, OneOwner, Owned, Waiting, Cycling,
                   OwnerShape, GestureActive
<1>2. f \in EngineState /\ Owned(f) /\ f.out = <<>>  BY <1>1, SettledSeen
<1>3. Before = View(h, w, FALSE)  BY <1>2, SeenIs DEF Before
<1> HIDE DEF f
<1>4. s \in EngineState /\ Same(f, s)  BY SMTT(30), <1>2 DEF EngineState, NoTimer, Same
<1>5. eng' = IF Waiting(s) THEN CommitExpired(s) ELSE s  BY DEF WindowTimeout, f
<1> HIDE DEF s
<1>6. Owned(s) /\ Held(s) = h  BY <1>2, <1>4, SameOwners
<1>7. ~Waiting(eng') /\ Held(eng') \subseteq h
  BY <1>4, <1>5, <1>6, CommitExpiredOwners DEF GestureActive
<1>8. Seen(eng') = View(Held(eng'), "off", b)  BY <1>1, <1>7, SeenIs
<1>9. b \in BOOLEAN /\ Held(eng') \in SUBSET h  BY <1>7
<1> DEFINE d == Before
           no == FALSE
<1>10. d = View(h, w, no)  BY <1>3
<1> HIDE DEF d, h, w, b, no
<1>11. Off(d) = View(h, "off", FALSE)
  <2>1. Off(d) = View(h, "off", no)  BY <1>10, ViewEnds
  <2> QED BY <2>1 DEF no
<1>12. View(Held(eng'), "off", b) \in Loop!EngineTimeout(View(h, "off", FALSE), Gone)
  BY <1>9, TimeoutViews
<1>13. Seen(eng') \in Loop!EngineTimeout(Off(d), Gone)  BY <1>8, <1>11, <1>12
<1> QED BY <1>13 DEF d, Off

\* After a focus change no release is waited for.
LEMMA FocusReacts ==
  ASSUME Safe, Safe', Timed(eng'), NEW kb, Keyboards = {kb}, FocusChanged
  PROVE  Seen(eng') = [Before EXCEPT !.owned = {}, !.window = "off"]
<1> DEFINE f == Fresh(eng)
           r == CancelGestureTimers(f)
           a == ClearCommitted(ResetCycling(ResetWaiting(r)))
           h == OverlayHideAll(a)
           s == [h EXCEPT !.consumedAltCode = NoKey, !.usageDirty = FALSE, !.decision = "Focus"]
<1>1. /\ eng \in EngineState /\ Owned(eng)
      /\ eng' \in EngineState /\ Owned(eng')
  BY SafeFacts DEF Safe, TypeOK, OneGesture, OneOwner, Owned, Waiting, Cycling,
                   OwnerShape, GestureActive
<1>2. f \in EngineState /\ Owned(f) /\ f.out = <<>>
  BY <1>1, FreshType, FreshSilent, SettersFrame, SameOwners
<1>3. Before = View(Held(f), WindowSeen(f), FALSE)  BY <1>2, SeenIs DEF Before
<1>4. eng' = s  BY DEF FocusChanged
<1>5. r \in EngineState  BY <1>2, SettersType
<1> HIDE DEF r
<1>6. ResetWaiting(r) \in EngineState /\ a \in EngineState  BY <1>5, SettersType
<1>7. a.waitingKey = NoText /\ a.waitingKeyCode = NoKey /\ a.committedCode = NoKey
  BY <1>5, <1>6 DEF EngineState, ResetWaiting, ResetCycling, ClearCommitted, ArmCommitted
<1> HIDE DEF a
<1>8. h \in EngineState /\ Same(a, h)  BY <1>6, OverlayHideAllType, OverlayFrame
<1> HIDE DEF h
<1>9. /\ s.waitingKey = NoText /\ s.waitingKeyCode = NoKey
      /\ s.committedCode = NoKey /\ s.consumedAltCode = NoKey
  BY <1>7, <1>8 DEF EngineState, Same
<1> HIDE DEF s
<1>10. Held(eng') = {} /\ ~Waiting(eng') /\ eng'.out = <<>>
  BY <1>4, <1>9, FocusSays DEF Held, Waiting
<1>11. Seen(eng') = View({}, "off", FALSE)  BY <1>1, <1>10, SeenIs
<1> DEFINE d == Before
           o == Held(f)
           w == WindowSeen(f)
           no == FALSE
<1>12. d = View(o, w, no)  BY <1>3
<1> HIDE DEF d, o, w, no
<1>13. Dropped(d) = View({}, "off", FALSE)
  <2>1. Dropped(d) = View({}, "off", no)  BY <1>12, ViewEnds
  <2> QED BY <2>1 DEF no
<1> QED BY <1>11, <1>13 DEF d, Dropped

\* The other steps move no release and say nothing.
LEMMA QuietReacts ==
  ASSUME Safe, Safe', NEW kb, Keyboards = {kb},
         Tick \/ AutoSelect \/ OverlayShow \/ OverlayHide \/ ProfileFlash \/ UsageFlush \/ Reload
  PROVE  Seen(eng').owned = Before.owned /\ eng'.out = <<>>
<1> DEFINE f == Fresh(eng)
<1>1. /\ Config /\ eng \in EngineState /\ Owned(eng)
      /\ eng' \in EngineState /\ Owned(eng')
  BY SafeFacts DEF Safe, TypeOK, Config, OneGesture, OneOwner, Owned, Waiting, Cycling,
                   OwnerShape, GestureActive
<1>2. f \in EngineState /\ Owned(f) /\ f.out = <<>>
  BY <1>1, FreshType, FreshSilent, SettersFrame, SameOwners
<1>3. Before.owned = Held(f)
  <2>1. Before = View(Held(f), WindowSeen(f), f.out # <<>>)  BY <1>2, SeenIs DEF Before
  <2> HIDE DEF f
  <2> QED BY <2>1, ViewEdits
<1> HIDE DEF f
<1>4. Seen(eng').owned = Held(eng')  BY <1>1, SeenIs, ViewEdits
<1>5. SUFFICES Held(eng') = Held(f) /\ eng'.out = f.out  BY <1>2, <1>3, <1>4
<1>6. ASSUME NEW s, Same(f, s), s.out = f.out, eng' = s
      PROVE  Held(eng') = Held(f) /\ eng'.out = f.out
  BY <1>6, SameOwners
<1>7. CASE Tick
  <2> DEFINE s == [f EXCEPT !.elapsed = @ + 1]
  <2>1. Same(f, s) /\ s.out = f.out  BY <1>2 DEF EngineState, Same
  <2> QED BY <1>6, <1>7, <2>1 DEF Tick, f
<1>8. CASE AutoSelect
  <2> DEFINE s == [f EXCEPT !.autoSelectTimer = NoTimer]
             u == [s EXCEPT !.windowTimer = NoTimer]
             i == s.waitingKey
             a == [u EXCEPT !.cyclingInput = i, !.cyclingIndex = 0, !.waitingKey = NoText]
             w == VariantsFor(i)
             v == OverlayShowVariants(a, w, 0)
             t == EnterCycling(u, i, 0)
  <2>1. s \in EngineState  BY ZenonT(60), <1>2 DEF EngineState, NoTimer
  <2>2. Same(f, s) /\ s.out = f.out  BY <1>2 DEF EngineState, Same
  <2>3. eng' = IF Waiting(s) /\ ~Cycling(s) /\ s.inputKeyPressed THEN t ELSE s
    BY <1>8 DEF AutoSelect, f
  <2> HIDE DEF s
  <2>4. u \in EngineState
    <3>1. NoTimer \in Nat  BY DEF NoTimer
    <3> QED BY ZenonT(60), <2>1, <3>1 DEF EngineState
  <2>5. Same(s, u) /\ u.out = s.out  BY <2>1 DEF EngineState, Same
  <2>6. t = u \/ t = v  BY DEF EnterCycling
  <2> HIDE DEF u
  <2>7. Held(u) = Held(f) /\ u.out = f.out /\ Owned(u) /\ (Waiting(u) <=> Waiting(s))
        /\ u.waitingKey = i
    BY <1>2, <2>2, <2>5, SameOwners DEF Same
  <2>8. i \in Inputs \cup {NoText} /\ 0 \in Nat /\ 0 \in Int  BY <2>1 DEF EngineState
  <2>14. w \in Seq(Variants)  BY <1>1, VariantsForType DEF Config
  <2> HIDE DEF i, w
  <2>9. a \in EngineState  BY ZenonT(60), <2>4, <2>8 DEF EngineState, NoText
  <2>10. a.out = u.out  BY <2>4 DEF EngineState
  <2> HIDE DEF a
  <2>11. v.out = a.out  BY <2>8, <2>9, <2>14, OverlayFreezes DEF Frozen
  <2> HIDE DEF v
  <2>12. t.out = f.out  BY <2>6, <2>7, <2>10, <2>11
  <2>13. Waiting(s) => Held(t) = Held(f)  BY <1>1, <2>4, <2>7, <2>8, EnterCyclingOwners
  <2> HIDE DEF t
  <2> QED BY <1>6, <2>2, <2>3, <2>12, <2>13
<1>9. CASE OverlayShow
  <2> DEFINE s     == [f EXCEPT !.overlayShowTimer = NoShow]
             shown == eng.overlayShowTimer.variants
             t     == OverlayShowVariants(s, shown, -1)
  <2>1. s \in EngineState /\ Same(f, s) /\ s.out = f.out
    <3>1. s \in EngineState  BY <1>2, NoShowType
    <3>2. Same(f, s) /\ s.out = f.out  BY <1>2 DEF EngineState, Same
    <3> QED BY <3>1, <3>2
  <2>2. shown \in Seq(Variants) /\ -1 \in Int  BY <1>1 DEF EngineState
  <2>3. eng' = t \/ eng' = s  BY <1>9 DEF OverlayShow, f
  <2> HIDE DEF s, shown
  <2>4. Same(s, t) /\ t.out = s.out  BY <2>1, <2>2, OverlayFrame, OverlayFreezes DEF Frozen
  <2> HIDE DEF t
  <2> QED BY <1>6, <2>1, <2>3, <2>4, SameTransitive
<1>10. CASE OverlayHide
  <2> DEFINE s == [f EXCEPT !.overlayHideTimer = FALSE]
             t == OverlayHideAll(s)
  <2>1. s \in EngineState  BY ZenonT(60), <1>2 DEF EngineState
  <2>2. Same(f, s) /\ s.out = f.out  BY <1>2 DEF EngineState, Same
  <2>3. eng' = t  BY <1>10 DEF OverlayHide, f
  <2> HIDE DEF s
  <2>4. Same(s, t) /\ t.out = s.out  BY <2>1, OverlayFrame, OverlayFreezes DEF Frozen
  <2> HIDE DEF t
  <2> QED BY <1>6, <2>2, <2>3, <2>4, SameTransitive
<1>11. CASE ProfileFlash
  <2> DEFINE s == [f EXCEPT !.profileFlashTimer = FALSE, !.panel = Hidden,
                            !.overlayVisible = FALSE]
  <2>1. Same(f, s) /\ s.out = f.out  BY <1>2 DEF EngineState, Same
  <2> QED BY <1>6, <1>11, <2>1 DEF ProfileFlash, f
<1>12. ASSUME NEW s \in EngineState, NEW x
       PROVE  Same(s, ApplyUsageTracking(s, x)) /\ ApplyUsageTracking(s, x).out = s.out
  BY DEF ApplyUsageTracking, EngineState, Same
<1>13. CASE UsageFlush
  <2> DEFINE s == [f EXCEPT !.usageDirty = FALSE]
             a == [s EXCEPT !.usageTimer = 2]
             b == [s EXCEPT !.usageTimer = 0]
             c == ApplyUsageTracking(b, config)
  <2>1. s \in EngineState  BY ZenonT(60), <1>2 DEF EngineState
  <2>2. Same(f, s) /\ s.out = f.out  BY <1>2 DEF EngineState, Same
  <2>3. eng' = a \/ eng' = c  BY <1>13 DEF UsageFlush, f
  <2> HIDE DEF s
  <2>4. b \in EngineState
    <3>1. 0 \in 0..2  OBVIOUS
    <3> QED BY ZenonT(60), <2>1, <3>1 DEF EngineState
  <2>5. Same(s, a) /\ a.out = s.out /\ Same(s, b) /\ b.out = s.out
    BY <2>1 DEF EngineState, Same
  <2> HIDE DEF a, b
  <2>6. Same(b, c) /\ c.out = b.out  BY <1>12, <2>4
  <2> HIDE DEF c
  <2>7. Same(f, a) /\ Same(f, c)  BY <2>2, <2>5, <2>6, SameTransitive
  <2> QED BY <1>6, <2>2, <2>3, <2>5, <2>6, <2>7
<1>14. CASE Reload
  <2>1. PICK r \in Reloads :
          eng' = IF config.overlayEnabled /\ ~r.config.overlayEnabled
                 THEN [ApplyUsageTracking(f, r.config) EXCEPT !.panel = Hidden]
                 ELSE ApplyUsageTracking(f, r.config)
    BY <1>14 DEF Reload, f
  <2> DEFINE s == ApplyUsageTracking(f, r.config)
             t == [s EXCEPT !.panel = Hidden]
  <2>2. s \in EngineState  BY <1>2, ApplyUsageTrackingType
  <2>3. Same(f, s) /\ s.out = f.out  BY <1>2, <1>12
  <2>4. eng' = t \/ eng' = s  BY <2>1
  <2> HIDE DEF s
  <2>5. Same(s, t) /\ t.out = s.out  BY <2>2 DEF EngineState, Same
  <2> HIDE DEF t
  <2> QED BY <1>6, <2>3, <2>4, <2>5, SameTransitive
<1> QED BY <1>7, <1>8, <1>9, <1>10, <1>11, <1>13, <1>14

\* On one steady keyboard the daemon's loop sees no answer but those of module
\* KeyAnswers, whatever the layout, the mappings, the settings and their reloads.
THEOREM LoopSeesAllHolds ==
  ASSUME OneSteadyKeyboard PROVE Spec => LoopSeesAll
<1>1. PICK one : Keyboards = {one}  BY DEF OneSteadyKeyboard
<1> DEFINE Step ==
      /\ \A kb \in Keyboards, k \in Keys :
           /\ Press(kb, k) => Reacts(k, "press")
           /\ Release(kb, k) => Reacts(k, "release")
           /\ rep[kb] = k /\ Repeat(kb) => Reacts(k, "repeat")
      /\ WindowTimeout
           => Seen(eng') \in Loop!EngineTimeout([Before EXCEPT !.window = "off"], Gone)
      /\ FocusChanged => Seen(eng') = [Before EXCEPT !.owned = {}, !.window = "off"]
      /\ Tick \/ AutoSelect \/ OverlayShow \/ OverlayHide \/ ProfileFlash
           \/ UsageFlush \/ Reload
           => Seen(eng').owned = Before.owned /\ eng'.out = <<>>
<1>2. ASSUME Safe, Safe', Timed(eng), Timed(eng') PROVE Step
  <2>1. ASSUME NEW kb \in Keyboards, NEW k \in Keys
        PROVE  /\ Press(kb, k) => Reacts(k, "press")
               /\ Release(kb, k) => Reacts(k, "release")
               /\ rep[kb] = k /\ Repeat(kb) => Reacts(k, "repeat")
    <3>1. Keyboards = {kb}  BY <1>1
    <3> QED BY <1>2, <3>1, PressReacts, ReleaseReacts, RepeatReacts
  <2>2. WindowTimeout
          => Seen(eng') \in Loop!EngineTimeout([Before EXCEPT !.window = "off"], Gone)
    BY <1>1, <1>2, TimeoutReacts
  <2>3. FocusChanged => Seen(eng') = [Before EXCEPT !.owned = {}, !.window = "off"]
    BY <1>1, <1>2, FocusReacts
  <2>4. Tick \/ AutoSelect \/ OverlayShow \/ OverlayHide \/ ProfileFlash
          \/ UsageFlush \/ Reload
          => Seen(eng').owned = Before.owned /\ eng'.out = <<>>
    BY <1>1, <1>2, QuietReacts
  <2> QED BY <2>1, <2>2, <2>3, <2>4
<1>3. Safe /\ Safe' /\ Timed(eng) /\ Timed(eng)' => [Step]_vars
  BY <1>2 DEF Timed, Waiting
<1> QED BY <1>3, SafeInvariant, TimedInvariant, PTL DEF LoopSeesAll
=============================================================================
