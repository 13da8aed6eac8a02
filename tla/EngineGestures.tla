--------------------------- MODULE EngineGestures ---------------------------
(***************************************************************************)
(* What belongs to a gesture ends with it: the timers of its key, and the  *)
(* panel that shows its variants.  And while a gesture cycles, the panel   *)
(* shows the variant that letting go would commit.                         *)
(*                                                                         *)
(* The theorems are about the keyboard and the settings of module          *)
(* EngineProofs, which shows that a gesture waits or cycles and never      *)
(* both.  Those about the panel also need settings of the overlay that no  *)
(* reload changes: a reload that turns the preview off leaves its panel    *)
(* open (hideTriggerOverlay, engine.cpp:437-442, asks the new settings     *)
(* whether there is one to hide).  And the panel keeps the texts it was    *)
(* given, so what it shows is what letting go commits only as long as no   *)
(* reload changes the variants of an open cycle (CyclesUndisturbed).       *)
(***************************************************************************)
EXTENDS EngineProofs

Enabled == config.overlayEnabled
Preview == config.showOnTrigger \/ config.progressBar

\* The clock of a withheld key and of automatic selection run for a waiting key.
Timed(s) == s.windowTimer # NoTimer \/ s.autoSelectTimer # NoTimer => Waiting(s)

\* A panel that is shown is known to be (overlayVisible_), without the overlay
\* only a profile is shown, and only the preview of an input is waited for.
Drawn(s) ==
  /\ s.panel # Hidden => s.overlayVisible
  /\ ~Enabled => (s.panel # Hidden => s.profileFlashTimer)
  /\ s.overlayShowTimer # NoShow =>
       Enabled /\ Preview /\ s.overlayShowTimer.input # NoText

\* Nothing is shown that no timer will hide.
Dark(s) == s.panel # Hidden => s.overlayHideTimer \/ s.profileFlashTimer

\* Whatever ends the gesture also closes its panel.
Closable(s) ==
  /\ Drawn(s)
  /\ ~GestureActive(s) => Dark(s)
  /\ Waiting(s) => Dark(s) \/ (Enabled /\ Preview)

\* A gesture's panel is not about to be hidden, and follows the selection.
Mirrors(s) ==
  Enabled /\ GestureActive(s) =>
    /\ ~s.overlayHideTimer
    /\ Cycling(s) => /\ ~s.profileFlashTimer
                     /\ s.panel = Panel(VariantsFor(s.cyclingInput), s.cyclingIndex)

\* With the overlay on there is a preview, and what is mapped has a variant
\* (loadMappingsFromFile and projectValues skip what has none).
Previewed == (Enabled => Preview) /\ \A i \in DOMAIN umlautMap : umlautMap[i] # <<>>

\* What is in order stays in order.
Follows(s, t) ==
  /\ Timed(s) => Timed(t)
  /\ Closable(s) => Closable(t)
  /\ Previewed /\ Mirrors(s) => Mirrors(t)

\* Same gesture, with the same selection and the same clocks.
Kept(s, t) ==
  /\ t.waitingKey = s.waitingKey /\ t.waitingKeyCode = s.waitingKeyCode
  /\ t.cyclingInput = s.cyclingInput /\ t.cyclingIndex = s.cyclingIndex
  /\ t.windowTimer = s.windowTimer /\ t.autoSelectTimer = s.autoSelectTimer

\* The same on the screen.
Screen(s, t) ==
  /\ t.panel = s.panel /\ t.overlayVisible = s.overlayVisible
  /\ t.overlayShowTimer = s.overlayShowTimer
  /\ t.overlayHideTimer = s.overlayHideTimer
  /\ t.profileFlashTimer = s.profileFlashTimer

-----------------------------------------------------------------------------
(* A re-sorted key keeps having variants *)

\* A reordering has a variant if what it reorders has.
LEMMA ReorderingNonEmpty ==
  ASSUME NEW v \in Seq(Variants), v # <<>>, NEW r \in Reorderings(v)
  PROVE  r # <<>>
<1>1. DOMAIN r = DOMAIN v  BY DEF Reorderings
<1>2. DOMAIN v # {}  OBVIOUS
<1> QED BY <1>1, <1>2

\* So has a key's list after a re-sort.
LEMMA ResortNonEmpty ==
  ASSUME IsUmlautMap(umlautMap), NEW s, Resort(s), NEW input \in DOMAIN umlautMap,
         umlautMap[input] # <<>>
  PROVE  umlautMap'[input] # <<>>
<1>1. CASE s.used \notin DOMAIN umlautMap  BY <1>1 DEF Resort, Resorted
<1>2. CASE s.used \in DOMAIN umlautMap
  <2>1. PICK r \in Reorderings(umlautMap[s.used]) :
          umlautMap' = [umlautMap EXCEPT ![s.used] = r]
    BY <1>2 DEF Resort, Resorted
  <2>2. CASE input = s.used
    <3>1. r # <<>>  BY <2>2, ReorderingNonEmpty DEF IsUmlautMap
    <3> QED BY <2>1, <2>2, <3>1
  <2> QED BY <2>1, <2>2
<1> QED BY <1>1, <1>2

-----------------------------------------------------------------------------
(* What the helpers leave alone *)

\* The same gesture on the same screen is as well off.
LEMMA KeptPredicates ==
  ASSUME NEW s, NEW t, Kept(s, t)
  PROVE  /\ Waiting(t) <=> Waiting(s)
         /\ Cycling(t) <=> Cycling(s)
         /\ GestureActive(t) <=> GestureActive(s)
         /\ Timed(s) <=> Timed(t)
         /\ Screen(s, t) => /\ Closable(s) <=> Closable(t)
                            /\ Mirrors(s) <=> Mirrors(t)
                            /\ Drawn(s) <=> Drawn(t)
                            /\ Dark(s) <=> Dark(t)
<1>1. /\ Waiting(t) <=> Waiting(s)
      /\ Cycling(t) <=> Cycling(s)
      /\ GestureActive(t) <=> GestureActive(s)
  BY DEF Kept, Waiting, Cycling, GestureActive
<1>2. Timed(s) <=> Timed(t)  BY <1>1 DEF Kept, Timed
<1>3. ASSUME Screen(s, t)
      PROVE  /\ Drawn(s) <=> Drawn(t)
             /\ Dark(s) <=> Dark(t)
             /\ Mirrors(s) <=> Mirrors(t)
  BY <1>1, <1>3 DEF Kept, Screen, Drawn, Dark, Mirrors
<1>4. ASSUME Screen(s, t) PROVE Closable(s) <=> Closable(t)
  BY <1>1, <1>3, <1>4 DEF Closable
<1> QED BY <1>1, <1>2, <1>3, <1>4

\* Both compose.
LEMMA KeptTransitive ==
  ASSUME NEW s, NEW t, NEW u
  PROVE  /\ Kept(s, t) /\ Kept(t, u) => Kept(s, u)
         /\ Screen(s, t) /\ Screen(t, u) => Screen(s, u)
BY DEF Kept, Screen

\* Decisions, outputs and armed releases belong to neither.
LEMMA SettersKeep ==
  ASSUME NEW s \in EngineState
  PROVE  /\ Kept(s, Fresh(s)) /\ Screen(s, Fresh(s))
         /\ Kept(s, Consume(s)) /\ Screen(s, Consume(s))
         /\ Kept(s, Forward(s)) /\ Screen(s, Forward(s))
         /\ \A k, b : Kept(s, ArmCommitted(s, k, b)) /\ Screen(s, ArmCommitted(s, k, b))
         /\ \A k : /\ Kept(s, [s EXCEPT !.consumedAltCode = k])
                   /\ Screen(s, [s EXCEPT !.consumedAltCode = k])
<1>1. Kept(s, Fresh(s)) /\ Screen(s, Fresh(s))  BY DEF Kept, Screen, Fresh, EngineState
<1>2. Kept(s, Consume(s)) /\ Screen(s, Consume(s))  BY DEF Kept, Screen, Consume, EngineState
<1>3. Kept(s, Forward(s)) /\ Screen(s, Forward(s))  BY DEF Kept, Screen, Forward, EngineState
<1>4. \A k, b : Kept(s, ArmCommitted(s, k, b)) /\ Screen(s, ArmCommitted(s, k, b))
  BY DEF Kept, Screen, ArmCommitted, EngineState
<1>5. \A k : /\ Kept(s, [s EXCEPT !.consumedAltCode = k])
             /\ Screen(s, [s EXCEPT !.consumedAltCode = k])
  BY DEF Kept, Screen, EngineState
<1> QED BY <1>1, <1>2, <1>3, <1>4, <1>5

\* Committed texts neither.
LEMMA CommitKeeps ==
  ASSUME NEW s \in EngineState, NEW k, NEW v, NEW input
  PROVE  /\ Kept(s, CommitText(s, k, v)) /\ Screen(s, CommitText(s, k, v))
         /\ Kept(s, CommitVariant(s, input, v)) /\ Screen(s, CommitVariant(s, input, v))
<1>1. ASSUME NEW c PROVE Kept(s, CommitText(s, c, v)) /\ Screen(s, CommitText(s, c, v))
  BY DEF CommitText, Kept, Screen, EngineState
<1> DEFINE t == CommitText(s, s.waitingKeyCode, v)
<1>2. DOMAIN t = DOMAIN s  BY DEF CommitText, EngineState
<1>3. ASSUME NEW u, NEW d
      PROVE  /\ Kept(t, [t EXCEPT !.used = u, !.usageDirty = d])
             /\ Screen(t, [t EXCEPT !.used = u, !.usageDirty = d])
  <2>1. /\ "waitingKey" \in DOMAIN t /\ "waitingKeyCode" \in DOMAIN t
        /\ "cyclingInput" \in DOMAIN t /\ "cyclingIndex" \in DOMAIN t
        /\ "windowTimer" \in DOMAIN t /\ "autoSelectTimer" \in DOMAIN t
        /\ "panel" \in DOMAIN t /\ "overlayVisible" \in DOMAIN t
        /\ "overlayShowTimer" \in DOMAIN t /\ "overlayHideTimer" \in DOMAIN t
        /\ "profileFlashTimer" \in DOMAIN t
    <3> HIDE DEF t
    <3> QED BY <1>2 DEF EngineState
  <2> HIDE DEF t
  <2> QED BY <2>1 DEF Kept, Screen
<1>4. Kept(s, CommitVariant(s, input, v)) /\ Screen(s, CommitVariant(s, input, v))
  <2> DEFINE u == [t EXCEPT !.used = IF config.sortByFrequency THEN input ELSE NoText,
                            !.usageDirty = @ \/ config.sortByFrequency]
  <2>1. CommitVariant(s, input, v) = u  BY DEF CommitVariant
  <2>2. Kept(t, u) /\ Screen(t, u)
    <3> HIDE DEF t
    <3> QED BY <1>3
  <2> HIDE DEF t
  <2> QED BY <1>1, <2>1, <2>2, KeptTransitive DEF t
<1> QED BY <1>1, <1>4

-----------------------------------------------------------------------------
(* The overlay *)

\* Hiding the panel hides it, unless it is a profile that its timer hides.
LEMMA OverlayHideAllDark ==
  ASSUME NEW s \in EngineState
  PROVE  LET t == OverlayHideAll(s) IN
         /\ Kept(s, t)
         /\ t.overlayShowTimer = s.overlayShowTimer
         /\ t.overlayHideTimer = s.overlayHideTimer
         /\ t.profileFlashTimer = s.profileFlashTimer
         /\ Drawn(s) => Drawn(t) /\ Dark(t)
<1> DEFINE u == [s EXCEPT !.panel = Hidden, !.overlayVisible = FALSE]
<1>1. /\ Kept(s, u) /\ u.panel = Hidden
      /\ u.overlayShowTimer = s.overlayShowTimer
      /\ u.overlayHideTimer = s.overlayHideTimer
      /\ u.profileFlashTimer = s.profileFlashTimer
  BY DEF Kept, EngineState
<1>2. OverlayHideAll(s) = IF ~Enabled \/ ~s.overlayVisible THEN s ELSE u
  BY DEF OverlayHideAll, Enabled
<1> HIDE DEF u
<1>3. Drawn(s) => Drawn(u) /\ Dark(u)  BY <1>1 DEF Drawn, Dark
<1>4. Drawn(s) /\ (~Enabled \/ ~s.overlayVisible) => Dark(s)  BY DEF Drawn, Dark
<1>5. Kept(s, s)  BY DEF Kept
<1> QED BY <1>1, <1>2, <1>3, <1>4, <1>5

\* Showing variants shows them, and no timer of a profile hides them.
LEMMA OverlayShowVariantsDrawn ==
  ASSUME NEW s \in EngineState, NEW v, NEW i
  PROVE  LET t == OverlayShowVariants(s, v, i) IN
         /\ Kept(s, t)
         /\ t.overlayShowTimer = s.overlayShowTimer
         /\ t.overlayHideTimer = s.overlayHideTimer
         /\ Enabled => t.panel = Panel(v, i) /\ ~t.profileFlashTimer
         /\ Drawn(s) => Drawn(t)
         /\ ~Enabled => t = s
<1> DEFINE u == [s EXCEPT !.profileFlashTimer = FALSE, !.overlayVisible = TRUE,
                          !.panel = Panel(v, i)]
<1>1. /\ Kept(s, u) /\ u.panel = Panel(v, i) /\ u.overlayVisible = TRUE
      /\ u.overlayShowTimer = s.overlayShowTimer
      /\ u.overlayHideTimer = s.overlayHideTimer
      /\ u.profileFlashTimer = FALSE
  BY DEF Kept, EngineState
<1>2. OverlayShowVariants(s, v, i) = IF ~Enabled THEN s ELSE u
  BY DEF OverlayShowVariants, Enabled
<1> HIDE DEF u
<1>3. Enabled /\ Drawn(s) => Drawn(u)  BY <1>1 DEF Drawn
<1>4. Kept(s, s)  BY DEF Kept
<1> QED BY <1>1, <1>2, <1>3, <1>4

\* Dropping the preview that is waited for leaves the rest as it is.
LEMMA DropPreview ==
  ASSUME NEW s \in EngineState
  PROVE  LET t == [s EXCEPT !.overlayShowTimer = NoShow] IN
         /\ t \in EngineState /\ Kept(s, t)
         /\ t.panel = s.panel /\ t.overlayVisible = s.overlayVisible
         /\ t.overlayHideTimer = s.overlayHideTimer
         /\ t.profileFlashTimer = s.profileFlashTimer
         /\ Drawn(s) => Drawn(t)
         /\ Dark(s) <=> Dark(t)
         /\ Closable(s) => Closable(t)
         /\ Mirrors(s) => Mirrors(t)
<1> DEFINE t == [s EXCEPT !.overlayShowTimer = NoShow]
<1>1. /\ t \in EngineState /\ Kept(s, t)
      /\ t.panel = s.panel /\ t.overlayVisible = s.overlayVisible
      /\ t.overlayHideTimer = s.overlayHideTimer
      /\ t.profileFlashTimer = s.profileFlashTimer
      /\ t.overlayShowTimer = NoShow
  <2>1. t \in EngineState  BY NoShowType
  <2> QED BY <2>1 DEF EngineState, Kept
<1> HIDE DEF t
<1>2. Drawn(s) => Drawn(t)  BY <1>1 DEF Drawn
<1>3. Dark(s) <=> Dark(t)  BY <1>1 DEF Dark
<1>4. /\ Waiting(t) <=> Waiting(s)
      /\ Cycling(t) <=> Cycling(s)
      /\ GestureActive(t) <=> GestureActive(s)
  BY <1>1, KeptPredicates
<1>5. Closable(s) => Closable(t)  BY <1>2, <1>3, <1>4 DEF Closable
<1>6. Mirrors(s) => Mirrors(t)  BY <1>1, <1>4 DEF Mirrors, Kept
<1> QED BY <1>1, <1>2, <1>3, <1>5, <1>6 DEF t

\* Closing the preview leaves nothing that stays, if all there was is a preview.
LEMMA HideTriggerOverlayDark ==
  ASSUME NEW s \in EngineState
  PROVE  LET t == HideTriggerOverlay(s) IN
         /\ Kept(s, t)
         /\ Drawn(s) => Drawn(t)
         /\ Drawn(s) /\ (Dark(s) \/ (Enabled /\ Preview) \/ ~s.overlayVisible) => Dark(t)
<1> DEFINE t == [s EXCEPT !.overlayShowTimer = NoShow]
<1>1. /\ t \in EngineState /\ Kept(s, t) /\ t.panel = s.panel
      /\ Drawn(s) => Drawn(t)
      /\ Dark(s) <=> Dark(t)
  BY DropPreview
<1>2. HideTriggerOverlay(s) = IF Preview THEN OverlayHideAll(t) ELSE t
  BY DEF HideTriggerOverlay, Preview
<1> HIDE DEF t
<1>3. /\ Kept(t, OverlayHideAll(t))
      /\ Drawn(t) => Drawn(OverlayHideAll(t)) /\ Dark(OverlayHideAll(t))
  BY <1>1, OverlayHideAllDark
<1>4. Drawn(s) /\ ~s.overlayVisible => Dark(s)  BY DEF Drawn, Dark
<1> QED BY <1>1, <1>2, <1>3, <1>4, KeptTransitive

\* The flash of a committed variant is hidden by its timer.
LEMMA FlashCommitOverlayDark ==
  ASSUME NEW s \in EngineState, NEW v \in Seq(Variants)
  PROVE  LET t == FlashCommitOverlay(s, v) IN
         /\ Kept(s, t)
         /\ Drawn(s) => Drawn(t) /\ Dark(t)
<1> DEFINE a == [s EXCEPT !.overlayShowTimer = NoShow]
           b == OverlayShowVariants(a, v, 0)
           t == [b EXCEPT !.overlayHideTimer = TRUE]
<1>1. a \in EngineState /\ Kept(s, a) /\ (Drawn(s) => Drawn(a))  BY DropPreview
<1>2. FlashCommitOverlay(s, v) = t  BY DEF FlashCommitOverlay
<1> HIDE DEF a
<1>3. 0 \in Int  OBVIOUS
<1>4. b \in EngineState  BY <1>1, <1>3, OverlayShowVariantsType
<1>5. Kept(a, b) /\ (Drawn(a) => Drawn(b))  BY <1>1, OverlayShowVariantsDrawn
<1> HIDE DEF b
<1>6. /\ Kept(b, t) /\ t.overlayHideTimer = TRUE
      /\ t.panel = b.panel /\ t.overlayVisible = b.overlayVisible
      /\ t.overlayShowTimer = b.overlayShowTimer /\ t.profileFlashTimer = b.profileFlashTimer
  BY <1>4 DEF Kept, EngineState
<1> HIDE DEF t
<1>7. Drawn(b) => Drawn(t) /\ Dark(t)  BY <1>6 DEF Drawn, Dark
<1> QED BY <1>1, <1>2, <1>5, <1>6, <1>7, KeptTransitive

\* The preview of a new gesture takes the panel over from a flash, and is closed
\* with the gesture.
LEMMA ShowGestureOverlayDrawn ==
  ASSUME Config, NEW s \in EngineState, NEW input \in Inputs,
         NEW v \in Seq(Variants)
  PROVE  LET t == ShowGestureOverlay(s, input, v) IN
         /\ Kept(s, t)
         /\ Drawn(s) => Drawn(t)
         /\ Dark(s) => Dark(t) \/ (Enabled /\ Preview)
         /\ Enabled /\ Preview /\ v # <<>> => ~t.overlayHideTimer
<1> DEFINE open == Enabled /\ Preview /\ v # <<>>
           a    == [s EXCEPT !.overlayHideTimer = FALSE]
           min  == EffectiveWindow(config.delay, input).min
           b    == OverlayShowVariants(a, v, -1)
           c    == [a EXCEPT !.overlayShowTimer =
                     [due |-> min, input |-> input, variants |-> v]]
<1>1. ShowGestureOverlay(s, input, v) =
        IF ~open THEN s ELSE IF config.progressBar \/ min = 0 THEN b ELSE c
  BY DEF ShowGestureOverlay, Enabled, Preview
<1>2. /\ a \in EngineState /\ Kept(s, a) /\ a.overlayHideTimer = FALSE
      /\ a.panel = s.panel /\ a.overlayVisible = s.overlayVisible
      /\ a.overlayShowTimer = s.overlayShowTimer /\ a.profileFlashTimer = s.profileFlashTimer
  BY ZenonT(60) DEF EngineState, Kept
<1> HIDE DEF a, min
<1>3. /\ Kept(a, c) /\ c.overlayHideTimer = FALSE /\ c.overlayShowTimer.input = input
      /\ c.panel = a.panel /\ c.overlayVisible = a.overlayVisible
      /\ c.profileFlashTimer = a.profileFlashTimer
  BY <1>2 DEF EngineState, Kept
<1>4. /\ Kept(a, b) /\ b.overlayHideTimer = a.overlayHideTimer
      /\ Drawn(a) => Drawn(b)
  BY <1>2, OverlayShowVariantsDrawn
<1> HIDE DEF b, c
<1>5. Drawn(s) => Drawn(a)  BY <1>2 DEF Drawn
<1>6. open /\ Drawn(a) => Drawn(c)
  <2>1. input # NoText  BY EngineAssumption DEF EngineAssumption
  <2> QED BY <1>3, <2>1 DEF Drawn
<1>7. Kept(s, s)  BY DEF Kept
<1>8. CASE ~open  BY <1>1, <1>7, <1>8
<1>9. CASE open
  <2>1. \/ ShowGestureOverlay(s, input, v) = b
        \/ ShowGestureOverlay(s, input, v) = c
    BY <1>1, <1>9
  <2> QED BY <1>2, <1>3, <1>4, <1>5, <1>6, <1>9, <2>1, KeptTransitive
<1> QED BY <1>8, <1>9

-----------------------------------------------------------------------------
(* Ending, opening and continuing a gesture *)

\* Committing the plain character stops the clocks and closes the preview.
LEMMA CommitPendingKeyTidy ==
  ASSUME NEW s \in EngineState
  PROVE  LET t == CommitPendingKey(s) IN
         /\ ~Waiting(s) => t = s
         /\ Waiting(s) => /\ t.windowTimer = NoTimer /\ t.autoSelectTimer = NoTimer
                          /\ Drawn(s) => Drawn(t)
                          /\ Closable(s) => Dark(t)
<1> DEFINE a == HideTriggerOverlay(s)
           b == CommitText(a, s.waitingKeyCode, s.waitingKey)
           c == ResetWaiting(b)
           t == [c EXCEPT !.windowTimer = NoTimer, !.autoSelectTimer = NoTimer]
<1>1. s.waitingKeyCode \in Keys \cup {NoKey} /\ s.waitingKey \in STRING
  <2>1. s.waitingKeyCode \in Keys \cup {NoKey} /\ s.waitingKey \in Inputs \cup {NoText}
    BY DEF EngineState
  <2> HIDE DEF a, b, c, t
  <2> QED BY <2>1, TextTypes
<1>2. a \in EngineState  BY HideTriggerOverlayType
<1>3. /\ Drawn(s) => Drawn(a)
      /\ Waiting(s) /\ Closable(s) => Dark(a)
  BY HideTriggerOverlayDark DEF Closable
<1>4. CommitPendingKey(s) = IF ~Waiting(s) THEN s ELSE t  BY DEF CommitPendingKey
<1> HIDE DEF a
<1>5. b \in EngineState  BY <1>1, <1>2, CommitTextType
<1>6. Kept(a, b) /\ Screen(a, b)  BY <1>2, CommitKeeps
<1> HIDE DEF b
<1>7. c \in EngineState /\ Screen(b, c)
  <2>1. c \in EngineState  BY <1>5, SettersType
  <2>2. Screen(b, c)  BY <1>5 DEF ResetWaiting, EngineState, Screen
  <2> QED BY <2>1, <2>2
<1> HIDE DEF c
<1>8. Screen(c, t) /\ t.windowTimer = NoTimer /\ t.autoSelectTimer = NoTimer
  BY <1>7 DEF EngineState, Screen
<1> HIDE DEF t
<1>9. Screen(a, t)  BY <1>6, <1>7, <1>8, KeptTransitive
<1>10. (Drawn(a) <=> Drawn(t)) /\ (Dark(a) <=> Dark(t))  BY <1>9 DEF Screen, Drawn, Dark
<1> QED BY <1>3, <1>4, <1>8, <1>10

\* Committing the selected variant closes the panel; no clock runs by then.
LEMMA CommitCyclingValueTidy ==
  ASSUME Config, NEW s \in EngineState
  PROVE  LET t == CommitCyclingValue(s) IN
         /\ ~Cycling(s) => t = s
         /\ Cycling(s) => /\ t.windowTimer = s.windowTimer
                          /\ t.autoSelectTimer = s.autoSelectTimer
                          /\ Drawn(s) => Drawn(t) /\ Dark(t)
<1> DEFINE v == VariantsFor(s.cyclingInput)
           a == IF s.cyclingIndex < Len(v)
                THEN CommitVariant(s, s.cyclingInput, v[s.cyclingIndex + 1]) ELSE s
           b == ResetCycling(ResetWaiting(a))
           t == OverlayHideAll(b)
<1>1. s.cyclingInput \in Inputs \cup {NoText} /\ s.cyclingIndex \in Nat  BY DEF EngineState
<1>2. ASSUME s.cyclingIndex < Len(v) PROVE v[s.cyclingIndex + 1] \in STRING
  <2>1. Len(v) \in Nat /\ \A i \in 1..Len(v) : v[i] \in STRING
    BY VariantsForType DEF Config
  <2> HIDE DEF v
  <2> QED BY <1>1, <1>2, <2>1
<1>3. a \in EngineState  BY <1>1, <1>2, CommitVariantType
<1>4. Kept(s, a) /\ Screen(s, a)
  <2>1. Kept(s, s) /\ Screen(s, s)  BY DEF Kept, Screen
  <2> QED BY <2>1, CommitKeeps
<1>5. CommitCyclingValue(s) = IF ~Cycling(s) THEN s ELSE t  BY DEF CommitCyclingValue
<1> HIDE DEF a
<1>6. /\ b \in EngineState /\ Screen(a, b)
      /\ b.windowTimer = a.windowTimer /\ b.autoSelectTimer = a.autoSelectTimer
  <2>1. b \in EngineState  BY <1>3, SettersType
  <2>2. /\ Screen(a, b)
        /\ b.windowTimer = a.windowTimer /\ b.autoSelectTimer = a.autoSelectTimer
    BY <1>3 DEF ResetCycling, ResetWaiting, EngineState, Screen
  <2> QED BY <2>1, <2>2
<1> HIDE DEF b
<1>7. Kept(b, t) /\ (Drawn(b) => Drawn(t) /\ Dark(t))  BY <1>6, OverlayHideAllDark
<1> HIDE DEF t
<1>8. Screen(s, b)  BY <1>4, <1>6, KeptTransitive
<1>9. Drawn(s) => Drawn(b)  BY <1>8 DEF Screen, Drawn
<1> QED BY <1>4, <1>5, <1>6, <1>7, <1>9 DEF Kept

\* A state without a gesture has nothing left of one.
LEMMA EndedTidy ==
  ASSUME NEW s, ~GestureActive(s)
  PROVE  /\ Mirrors(s)
         /\ Drawn(s) /\ Dark(s) => Closable(s)
         /\ s.windowTimer = NoTimer /\ s.autoSelectTimer = NoTimer => Timed(s)
         /\ Timed(s) => s.windowTimer = NoTimer /\ s.autoSelectTimer = NoTimer
         /\ Closable(s) => Drawn(s) /\ Dark(s)
BY DEF Mirrors, Closable, Timed, GestureActive

\* Whichever is open, committing the gesture leaves nothing of it.
LEMMA CommitGestureTidy ==
  ASSUME Config, NEW s \in EngineState, Owned(s)
  PROVE  LET t == CommitGesture(s) IN
         /\ Timed(s) => Timed(t)
         /\ Closable(s) => Closable(t)
<1> DEFINE a == CommitPendingKey(s)
           t == CommitGesture(s)
<1>1. a \in EngineState /\ t \in EngineState  BY CommitPendingKeyType, CommitGestureType
<1>2. ~GestureActive(t)  BY CommitGestureEnds, EndedOwners
<1>3. CASE Waiting(s)
  <2>1. ~Cycling(s)  BY <1>3 DEF Owned
  <2>2. ~Cycling(a)  BY <1>3, <2>1, CommitPendingKeyEnds DEF Cycling
  <2>3. t = a  BY <1>1, <2>2, CommitCyclingValueEnds DEF CommitGesture
  <2>4. /\ a.windowTimer = NoTimer /\ a.autoSelectTimer = NoTimer
        /\ Drawn(s) => Drawn(a)
        /\ Closable(s) => Dark(a)
    BY <1>3, CommitPendingKeyTidy
  <2> HIDE DEF a
  <2> QED BY <1>2, <2>3, <2>4, EndedTidy DEF Closable
<1>4. CASE ~Waiting(s) /\ Cycling(s)
  <2>1. a = s  BY <1>4, CommitPendingKeyTidy
  <2>2. t = CommitCyclingValue(s)  BY <2>1 DEF CommitGesture
  <2>3. /\ t.windowTimer = s.windowTimer /\ t.autoSelectTimer = s.autoSelectTimer
        /\ Drawn(s) => Drawn(t) /\ Dark(t)
    BY <1>4, <2>2, CommitCyclingValueTidy
  <2> HIDE DEF a
  <2> QED BY <1>2, <1>4, <2>3, EndedTidy DEF Closable, Timed
<1>5. CASE ~Waiting(s) /\ ~Cycling(s)
  <2>1. a = s  BY <1>5, CommitPendingKeyTidy
  <2>2. t = s  BY <1>5, <2>1, CommitCyclingValueTidy DEF CommitGesture
  <2> QED BY <2>2
<1> QED BY <1>3, <1>4, <1>5

\* So does an elapsed window.
LEMMA CommitExpiredTidy ==
  ASSUME Config, NEW s \in EngineState, Owned(s), Waiting(s)
  PROVE  LET t == CommitExpired(s) IN
         /\ Timed(t) /\ Mirrors(t)
         /\ Closable(s) => Closable(t)
<1> DEFINE a == CommitPendingKey(s)
           t == CommitExpired(s)
<1>1. a \in EngineState  BY CommitPendingKeyType
<1>2. /\ a.windowTimer = NoTimer /\ a.autoSelectTimer = NoTimer
      /\ Drawn(s) => Drawn(a)
      /\ Closable(s) => Dark(a)
  BY CommitPendingKeyTidy
<1>3. t = a \/ t = ArmCommitted(a, s.waitingKeyCode, FALSE)  BY DEF CommitExpired
<1>4. ~GestureActive(t)  BY CommitExpiredOwners
<1> HIDE DEF a, t
<1>5. Kept(a, a) /\ Screen(a, a)  BY DEF Kept, Screen
<1>6. Kept(a, t) /\ Screen(a, t)  BY <1>1, <1>3, <1>5, SettersKeep
<1>7. (Drawn(a) <=> Drawn(t)) /\ (Dark(a) <=> Dark(t))  BY <1>6, KeptPredicates
<1>8. t.windowTimer = NoTimer /\ t.autoSelectTimer = NoTimer  BY <1>2, <1>6 DEF Kept
<1> QED BY <1>2, <1>4, <1>7, <1>8, EndedTidy DEF Closable, t

\* Withholding a key starts its clocks and takes the panel over.
LEMMA StartGestureTidy ==
  ASSUME Config, NEW s \in EngineState, NEW k \in Keys, KeyText[k] \in Inputs,
         NEW v \in Seq(Variants), ~GestureActive(s)
  PROVE  LET t == StartGesture(s, k, v) IN
         /\ Waiting(t) /\ Timed(t)
         /\ t.waitingKey = KeyText[k] /\ t.waitingKeyCode = k /\ t.cyclingInput = NoText
         /\ Closable(s) => Closable(t)
         /\ (Enabled => Preview) /\ v # <<>> => Mirrors(t)
<1> DEFINE w == EffectiveWindow(config.delay, KeyText[k])
           wt == IF w.unlimited THEN NoTimer ELSE w.max
           at == IF config.autoSelect THEN config.autoSelectMs ELSE NoTimer
           a == [s EXCEPT !.waitingKey = KeyText[k], !.waitingKeyCode = k,
                          !.inputKeyPressed = TRUE, !.elapsed = 0,
                          !.windowTimer = wt, !.autoSelectTimer = at]
           b == ShowGestureOverlay(a, KeyText[k], v)
           t == Consume(b)
<1>1. wt \in Nat /\ at \in Nat
  BY EffectiveWindowType DEF Config, EngineConfig, NoTimer
<1>2. StartGesture(s, k, v) = t  BY DEF StartGesture
<1> HIDE DEF wt, at
<1>3. /\ a \in EngineState /\ Screen(s, a)
      /\ a.waitingKey = KeyText[k] /\ a.waitingKeyCode = k /\ a.cyclingInput = s.cyclingInput
  BY <1>1 DEF EngineState, Screen
<1> HIDE DEF a
<1>4. /\ b \in EngineState /\ Kept(a, b)
      /\ Drawn(a) => Drawn(b)
      /\ Dark(a) => Dark(b) \/ (Enabled /\ Preview)
      /\ Enabled /\ Preview /\ v # <<>> => ~b.overlayHideTimer
  BY <1>3, ShowGestureOverlayType, ShowGestureOverlayDrawn
<1> HIDE DEF b
<1>5. Kept(b, t) /\ Screen(b, t)  BY <1>4, SettersKeep
<1> HIDE DEF t
<1>6. KeyText[k] # NoText  BY EngineAssumption DEF EngineAssumption
<1>7. /\ t.waitingKey = KeyText[k] /\ t.waitingKeyCode = k /\ t.cyclingInput = NoText
      /\ Waiting(t) /\ ~Cycling(t)
  BY <1>3, <1>4, <1>5, <1>6 DEF Kept, Waiting, Cycling, GestureActive
<1>8. Drawn(s) /\ Dark(s) => Drawn(a) /\ Dark(a)  BY <1>3 DEF Screen, Drawn, Dark
<1>9. (Drawn(b) <=> Drawn(t)) /\ (Dark(b) <=> Dark(t)) /\ t.overlayHideTimer = b.overlayHideTimer
  BY <1>5 DEF Screen, Drawn, Dark
<1>10. Closable(s) => Closable(t)
  BY <1>4, <1>7, <1>8, <1>9, EndedTidy DEF Closable, GestureActive
<1>11. (Enabled => Preview) /\ v # <<>> => Mirrors(t)
  BY <1>4, <1>7, <1>9 DEF Mirrors
<1> QED BY <1>2, <1>7, <1>10, <1>11 DEF Timed

\* Opening the cycle shows its variants; the clocks have stopped by then.
LEMMA EnterCyclingTidy ==
  ASSUME NEW s \in EngineState, NEW i \in Nat, Waiting(s), Owned(s)
  PROVE  LET t == EnterCycling(s, s.waitingKey, i) IN
         /\ s.windowTimer = NoTimer /\ s.autoSelectTimer = NoTimer => Timed(t)
         /\ Closable(s) => Closable(t)
         /\ Mirrors(s) => Mirrors(t)
<1> DEFINE input == s.waitingKey
           a == [s EXCEPT !.cyclingInput = input, !.cyclingIndex = i, !.waitingKey = NoText]
           b == OverlayShowVariants(a, VariantsFor(input), i)
           t == EnterCycling(s, input, i)
<1>1. /\ a \in EngineState /\ Screen(s, a)
      /\ a.waitingKey = NoText /\ a.cyclingInput = input /\ a.cyclingIndex = i
      /\ a.windowTimer = s.windowTimer /\ a.autoSelectTimer = s.autoSelectTimer
  BY ZenonT(60) DEF EngineState, Screen, NoText
<1>2. t = s \/ t = b  BY DEF EnterCycling
<1>3. CASE t = s
  BY <1>3 DEF Timed
<1>4. CASE t = b
  <2> HIDE DEF a
  <2>1. /\ Kept(a, b)
        /\ b.overlayHideTimer = a.overlayHideTimer
        /\ Enabled => b.panel = Panel(VariantsFor(input), i) /\ ~b.profileFlashTimer
        /\ Drawn(a) => Drawn(b)
    BY <1>1, OverlayShowVariantsDrawn
  <2> HIDE DEF b
  <2>2. ~Waiting(b) /\ Cycling(b) /\ b.cyclingInput = input /\ b.cyclingIndex = i
    BY <1>1, <2>1 DEF Kept, Waiting, Cycling
  <2>3. Drawn(s) => Drawn(b)  BY <1>1, <2>1 DEF Screen, Drawn
  <2>4. s.windowTimer = NoTimer /\ s.autoSelectTimer = NoTimer => Timed(b)
    BY <1>1, <2>1 DEF Timed, Kept
  <2>5. Closable(s) => Closable(b)  BY <2>2, <2>3 DEF Closable, GestureActive
  <2>6. Mirrors(s) => Mirrors(b)
    BY <1>1, <2>1, <2>2 DEF Mirrors, GestureActive, Screen
  <2> QED BY <1>4, <2>4, <2>5, <2>6
<1> QED BY <1>2, <1>3, <1>4

\* A step of the cycle shows the new selection, unless there is only one.
LEMMA StepCyclingTidy ==
  ASSUME Config, NEW s \in EngineState, NEW k \in Keys,
         Cycling(s), Owned(s), VariantsFor(s.cyclingInput) # <<>>
  PROVE  LET t == StepCycling(s, k) IN
         /\ Timed(s) => Timed(t)
         /\ Closable(s) => Closable(t)
         /\ Mirrors(s) => Mirrors(t)
<1> DEFINE n == (s.cyclingIndex + LeaderStep(config.leader, k)) % Len(VariantsFor(s.cyclingInput))
           a == [s EXCEPT !.cyclingIndex = n]
           b == OverlayShowVariants(a, VariantsFor(s.cyclingInput), n)
           t == StepCycling(s, k)
<1>1. t = s \/ t = b  BY DEF StepCycling
<1>2. n \in Nat
  <2>1. Len(VariantsFor(s.cyclingInput)) \in Nat /\ Len(VariantsFor(s.cyclingInput)) > 0
    BY VariantsForType DEF Config
  <2>2. s.cyclingIndex + LeaderStep(config.leader, k) \in Int  BY DEF EngineState, LeaderStep
  <2> QED BY <2>1, <2>2, ModuloType
<1> HIDE DEF n
<1>3. /\ a \in EngineState /\ Screen(s, a)
      /\ a.waitingKey = s.waitingKey /\ a.cyclingInput = s.cyclingInput /\ a.cyclingIndex = n
      /\ a.windowTimer = s.windowTimer /\ a.autoSelectTimer = s.autoSelectTimer
  BY <1>2 DEF EngineState, Screen
<1> HIDE DEF a
<1>4. /\ Kept(a, b)
      /\ b.overlayHideTimer = a.overlayHideTimer
      /\ Enabled => b.panel = Panel(VariantsFor(s.cyclingInput), n) /\ ~b.profileFlashTimer
      /\ Drawn(a) => Drawn(b)
  BY <1>3, OverlayShowVariantsDrawn
<1> HIDE DEF b
<1>5. ~Waiting(s) /\ ~Waiting(b) /\ Cycling(b)
  BY <1>3, <1>4 DEF Kept, Waiting, Cycling, Owned
<1>6. Timed(s) => Timed(b)  BY <1>3, <1>4, <1>5 DEF Timed, Kept
<1>7. Closable(s) => Closable(b)
  BY <1>3, <1>4, <1>5 DEF Closable, GestureActive, Drawn, Screen
<1>8. Mirrors(s) => Mirrors(b)
  BY <1>3, <1>4, <1>5 DEF Mirrors, GestureActive, Screen, Kept
<1> QED BY <1>1, <1>6, <1>7, <1>8

\* The first leader stops the clocks, and opens the cycle or flashes what it
\* committed.
LEMMA OpenGestureTidy ==
  ASSUME Config, NEW s \in EngineState, NEW k \in Keys,
         Owned(s), Waiting(s), VariantsFor(s.waitingKey) # <<>>
  PROVE  LET t == OpenGesture(s, k) IN
         /\ Timed(t)
         /\ Closable(s) => Closable(t)
         /\ Mirrors(s) => Mirrors(t)
<1> DEFINE input    == s.waitingKey
           variants == VariantsFor(input)
           start    == IF LeaderStep(config.leader, k) < 0 THEN Len(variants) - 1 ELSE 0
           f        == IF s.overlayVisible THEN FlashCommitOverlay(s, variants)
                       ELSE HideTriggerOverlay(s)
           c        == CommitVariant(f, input, variants[1])
           a        == ArmCommitted(c, s.waitingKeyCode, TRUE)
           single   == ResetWaiting(a)
           e        == EnterCycling(s, input, start)
           m        == IF Len(variants) > 1 THEN e ELSE single
           t        == [m EXCEPT !.autoSelectTimer = NoTimer, !.windowTimer = NoTimer]
<1>1. input \in Inputs \cup {NoText} /\ s.waitingKeyCode \in Keys \cup {NoKey}
  BY DEF EngineState
<1>2. /\ Len(variants) \in Nat /\ Len(variants) > 0
      /\ variants[1] \in STRING /\ variants \in Seq(Variants)
  <2>1. /\ Len(variants) \in Nat /\ Len(variants) > 0 /\ variants \in Seq(Variants)
        /\ \A i \in 1..Len(variants) : variants[i] \in STRING
    BY VariantsForType DEF Config
  <2> HIDE DEF variants
  <2> QED BY <2>1
<1>3. start \in Nat
  <2> HIDE DEF variants
  <2> QED BY <1>2
<1>4. OpenGesture(s, k) = t  BY DEF OpenGesture
<1>5. ~Cycling(s)  BY DEF Owned
<1> HIDE DEF start
<1>6. CASE Len(variants) > 1
  <2>1. m = e  BY <1>6
  <2>2. e \in EngineState  BY <1>1, <1>3, EnterCyclingType
  <2>3. /\ Closable(s) => Closable(e)
        /\ Mirrors(s) => Mirrors(e)
    BY <1>3, EnterCyclingTidy
  <2> HIDE DEF e
  <2>4. t = [e EXCEPT !.autoSelectTimer = NoTimer, !.windowTimer = NoTimer]  BY <2>1
  <2> HIDE DEF t
  <2>5. /\ Screen(e, t) /\ Same(e, t) /\ t.windowTimer = NoTimer /\ t.autoSelectTimer = NoTimer
        /\ t.cyclingIndex = e.cyclingIndex
    BY <2>2, <2>4 DEF EngineState, Screen, Same
  <2>6. /\ Closable(e) => Closable(t)
        /\ Mirrors(e) => Mirrors(t)
        /\ Timed(t)
    BY <2>5 DEF Closable, Mirrors, Timed, Drawn, Dark, Screen, Same, GestureActive, Waiting,
                Cycling
  <2> QED BY <1>4, <2>3, <2>6
<1>7. CASE ~(Len(variants) > 1)
  <2>1. m = single  BY <1>7
  <2>2. f \in EngineState /\ Same(s, f) /\ (Closable(s) => Drawn(f) /\ Dark(f))
    <3> HIDE DEF variants
    <3>1. 0 \in Int  OBVIOUS
    <3>2. FlashCommitOverlay(s, variants) \in EngineState /\ HideTriggerOverlay(s) \in EngineState
      BY <1>2, FlashCommitOverlayType, HideTriggerOverlayType
    <3>3. Drawn(s) => Drawn(FlashCommitOverlay(s, variants)) /\ Dark(FlashCommitOverlay(s, variants))
      BY <1>2, FlashCommitOverlayDark
    <3>4. ~s.overlayVisible /\ Drawn(s) =>
            Drawn(HideTriggerOverlay(s)) /\ Dark(HideTriggerOverlay(s))
      BY HideTriggerOverlayDark
    <3>5. Same(s, FlashCommitOverlay(s, variants)) /\ Same(s, HideTriggerOverlay(s))
      BY <1>2, <3>1, OverlayFrame
    <3> QED BY <3>2, <3>3, <3>4, <3>5 DEF Closable
  <2> HIDE DEF f, variants
  <2>3. c \in EngineState /\ Kept(f, c) /\ Screen(f, c) /\ Same(f, c)
    <3>1. NoKey \in Keys \cup {NoKey}  OBVIOUS
    <3>2. c \in EngineState  BY <1>1, <1>2, <2>2, CommitVariantType
    <3>3. Kept(f, c) /\ Screen(f, c)  BY <2>2, CommitKeeps
    <3>4. Same(f, c)  BY <1>1, <1>2, <2>2, <3>1, CommitFrame
    <3> QED BY <3>2, <3>3, <3>4
  <2> HIDE DEF c
  <2>4. a \in EngineState /\ Screen(c, a) /\ a.cyclingInput = c.cyclingInput
    <3>1. a \in EngineState  BY <1>1, <2>3, ArmCommittedType
    <3>2. Kept(c, a) /\ Screen(c, a)  BY <2>3, SettersKeep
    <3> QED BY <3>1, <3>2 DEF Kept
  <2> HIDE DEF a
  <2>5. /\ single \in EngineState /\ Screen(a, single)
        /\ single.waitingKey = NoText /\ single.cyclingInput = a.cyclingInput
    <3>1. single \in EngineState  BY <2>4, SettersType
    <3>2. /\ Screen(a, single)
          /\ single.waitingKey = NoText /\ single.cyclingInput = a.cyclingInput
      BY <2>4 DEF ResetWaiting, EngineState, Screen
    <3> QED BY <3>1, <3>2
  <2> HIDE DEF single
  <2>6. /\ t.waitingKey = single.waitingKey /\ t.cyclingInput = single.cyclingInput
        /\ Screen(single, t) /\ t.windowTimer = NoTimer /\ t.autoSelectTimer = NoTimer
    <3>1. t = [single EXCEPT !.autoSelectTimer = NoTimer, !.windowTimer = NoTimer]  BY <2>1
    <3> HIDE DEF t
    <3> QED BY <2>5, <3>1 DEF EngineState, Screen
  <2> HIDE DEF t
  <2>7. ~GestureActive(t)
    BY <1>5, <2>2, <2>3, <2>4, <2>5, <2>6 DEF Same, GestureActive, Waiting, Cycling
  <2>8. Screen(f, t)  BY <2>3, <2>4, <2>5, <2>6, KeptTransitive
  <2>9. Closable(s) => Drawn(t) /\ Dark(t)  BY <2>2, <2>8 DEF Screen, Drawn, Dark
  <2> QED BY <1>4, <2>6, <2>7, <2>9, EndedTidy
<1> QED BY <1>6, <1>7

\* To be in order is passed on from helper to helper.
LEMMA FollowsComposes ==
  ASSUME NEW s, NEW t
  PROVE  /\ Follows(s, s)
         /\ Kept(s, t) /\ Screen(s, t) => Follows(s, t)
         /\ \A u : Follows(s, t) /\ Follows(t, u) => Follows(s, u)
BY KeptPredicates DEF Follows

\* What a leader does leaves everything in order.
LEMMA HandleLeaderTidy ==
  ASSUME Config, NEW s \in EngineState, NEW k \in Keys, Owned(s)
  PROVE  Follows(s, HandleLeader(s, k))
<1> DEFINE a == [s EXCEPT !.overlayShowTimer = NoShow]
           b == ArmCommitted(a, a.waitingKeyCode, TRUE)
           c == CommitPendingKey(b)
           d == StepCycling(a, k)
           e == OpenGesture(a, k)
           g == [a EXCEPT !.consumedAltCode = NoKey]
           t == HandleLeader(s, k)
<1>1. /\ a \in EngineState /\ Same(s, a) /\ Kept(s, a)
      /\ Closable(s) => Closable(a)
      /\ Mirrors(s) => Mirrors(a)
  <2>1. a \in EngineState  BY NoShowType
  <2> QED BY <2>1, DropPreview DEF EngineState, Same
<1>2. Owned(a)  BY <1>1, SameOwners
<1>3. Follows(s, a)  BY <1>1, KeptPredicates DEF Follows
<1>4. ~(Cycling(a) /\ ~a.inputKeyPressed)
  BY <1>2 DEF Owned, OwnerShape, GestureActive
<1>5. \/ t = Forward(c) /\ Waiting(a)
      \/ t = ConsumeLeader(d, k) /\ Cycling(a) /\ VariantsFor(a.cyclingInput) # <<>>
      \/ t = ConsumeLeader(e, k) /\ Waiting(a) /\ VariantsFor(a.waitingKey) # <<>>
      \/ t = Forward(g)
  BY <1>4 DEF HandleLeader
<1> HIDE DEF a, t
<1>6. ASSUME NEW x \in EngineState
      PROVE  Follows(x, Forward(x)) /\ Follows(x, ConsumeLeader(x, k))
  <2>1. Follows(x, Forward(x))  BY SettersKeep, FollowsComposes
  <2> DEFINE z == IF IsAltLeaderSym(k) THEN k ELSE x.consumedAltCode
             y == [x EXCEPT !.consumedAltCode = z]
  <2>2. ConsumeLeader(x, k) = Consume(y)  BY DEF ConsumeLeader
  <2>3. z \in Keys \cup {NoKey}  BY DEF EngineState
  <2> HIDE DEF z
  <2>4. Kept(x, y) /\ Screen(x, y)  BY SettersKeep
  <2>5. y \in EngineState  BY ZenonT(60), <2>3 DEF EngineState
  <2> HIDE DEF y
  <2>6. Kept(y, Consume(y)) /\ Screen(y, Consume(y))  BY <2>5, SettersKeep
  <2> QED BY <2>1, <2>2, <2>4, <2>6, FollowsComposes
<1>7. ASSUME Waiting(a) PROVE Follows(a, Forward(c))
  <2>1. a.waitingKeyCode \in Keys \cup {NoKey}  BY <1>1 DEF EngineState
  <2>2. b \in EngineState /\ Kept(a, b) /\ Screen(a, b)
    BY <1>1, <2>1, ArmCommittedType, SettersKeep
  <2> HIDE DEF b
  <2>3. c \in EngineState  BY <2>2, CommitPendingKeyType
  <2>4. Waiting(b) /\ ~Cycling(b)  BY <1>2, <1>7, <2>2, KeptPredicates DEF Owned
  <2>5. /\ c.windowTimer = NoTimer /\ c.autoSelectTimer = NoTimer
        /\ Drawn(b) => Drawn(c)
        /\ Closable(b) => Dark(c)
    BY <2>2, <2>4, CommitPendingKeyTidy
  <2>6. ~GestureActive(c)
    BY <2>2, <2>4, CommitPendingKeyEnds DEF GestureActive, Waiting, Cycling
  <2> HIDE DEF c
  <2>7. Follows(b, c)  BY <2>5, <2>6, EndedTidy DEF Follows, Closable
  <2> QED BY <1>6, <2>2, <2>3, <2>7, FollowsComposes
<1>8. ASSUME Cycling(a), VariantsFor(a.cyclingInput) # <<>>
      PROVE  Follows(a, ConsumeLeader(d, k))
  <2>1. d \in EngineState  BY <1>1, <1>8, StepCyclingType
  <2>2. Follows(a, d)  BY <1>1, <1>2, <1>8, StepCyclingTidy DEF Follows
  <2> HIDE DEF d
  <2> QED BY <1>6, <2>1, <2>2, FollowsComposes
<1>9. ASSUME Waiting(a), VariantsFor(a.waitingKey) # <<>>
      PROVE  Follows(a, ConsumeLeader(e, k))
  <2>1. e \in EngineState  BY <1>1, <1>9, OpenGestureType
  <2>2. Follows(a, e)  BY <1>1, <1>2, <1>9, OpenGestureTidy DEF Follows
  <2> HIDE DEF e
  <2> QED BY <1>6, <2>1, <2>2, FollowsComposes
<1>10. Follows(a, Forward(g))
  <2>1. g \in EngineState  BY ZenonT(60), <1>1 DEF EngineState, NoKey
  <2>2. Kept(a, g) /\ Screen(a, g)  BY <1>1, SettersKeep
  <2> HIDE DEF g
  <2> QED BY <1>6, <2>1, <2>2, FollowsComposes
<1>11. Follows(a, t)
  <2> HIDE DEF b, c, d, e, g
  <2> QED BY <1>5, <1>7, <1>8, <1>9, <1>10
<1> QED BY <1>3, <1>11, FollowsComposes DEF t

\* A leader that leaves a cycle open has counted no variant.
LEMMA HandleLeaderUncounted ==
  ASSUME Config, NEW s \in EngineState, NEW k \in Keys, Owned(s),
         Cycling(HandleLeader(s, k))
  PROVE  HandleLeader(s, k).used = s.used
<1> DEFINE a == [s EXCEPT !.overlayShowTimer = NoShow]
           b == ArmCommitted(a, a.waitingKeyCode, TRUE)
           c == CommitPendingKey(b)
           d == StepCycling(a, k)
           e == OpenGesture(a, k)
           g == [a EXCEPT !.consumedAltCode = NoKey]
           t == HandleLeader(s, k)
<1>1. a \in EngineState /\ Same(s, a) /\ a.used = s.used
  <2>1. a \in EngineState  BY NoShowType
  <2> QED BY <2>1 DEF EngineState, Same
<1>2. Owned(a)  BY <1>1, SameOwners
<1>3. ~(Cycling(a) /\ ~a.inputKeyPressed)
  BY <1>2 DEF Owned, OwnerShape, GestureActive
<1>4. \/ t = Forward(c) /\ Waiting(a)
      \/ t = ConsumeLeader(d, k) /\ Cycling(a) /\ VariantsFor(a.cyclingInput) # <<>>
      \/ t = ConsumeLeader(e, k) /\ Waiting(a) /\ VariantsFor(a.waitingKey) # <<>>
      \/ t = Forward(g)
  BY <1>3 DEF HandleLeader
<1>5. Cycling(t)  OBVIOUS
<1> HIDE DEF a, t
<1>6. ASSUME NEW x \in EngineState
      PROVE  /\ Forward(x).used = x.used /\ ConsumeLeader(x, k).used = x.used
             /\ Forward(x).cyclingInput = x.cyclingInput
             /\ ConsumeLeader(x, k).cyclingInput = x.cyclingInput
  BY DEF EngineState, Forward, ConsumeLeader, Consume
<1>7. ASSUME Waiting(a) PROVE t # Forward(c)
  <2>1. a.waitingKeyCode \in Keys \cup {NoKey}  BY <1>1 DEF EngineState
  <2>2. b \in EngineState /\ Kept(a, b)  BY <1>1, <2>1, ArmCommittedType, SettersKeep
  <2> HIDE DEF b
  <2>3. c \in EngineState  BY <2>2, CommitPendingKeyType
  <2>4. Waiting(b) /\ ~Cycling(b)  BY <1>2, <1>7, <2>2, KeptPredicates DEF Owned
  <2>5. ~Cycling(c)  BY <2>2, <2>4, CommitPendingKeyEnds DEF Cycling
  <2> HIDE DEF c
  <2> QED BY <1>5, <1>6, <2>3, <2>5 DEF Cycling
<1>8. ASSUME VariantsFor(a.cyclingInput) # <<>> PROVE ConsumeLeader(d, k).used = a.used
  <2>1. d \in EngineState /\ d.used = a.used  BY <1>1, <1>8, StepCyclingType, CycleUncounted
  <2> HIDE DEF d
  <2> QED BY <1>6, <2>1
<1>9. ASSUME Waiting(a), VariantsFor(a.waitingKey) # <<>>, t = ConsumeLeader(e, k)
      PROVE  t.used = a.used
  <2>1. e \in EngineState  BY <1>1, <1>9, OpenGestureType
  <2>2. Cycling(e) => e.used = a.used  BY <1>1, <1>2, <1>9, OpenGestureOwners
  <2> HIDE DEF e
  <2> QED BY <1>5, <1>6, <1>9, <2>1, <2>2 DEF Cycling
<1>10. Forward(g).used = a.used
  <2>1. g \in EngineState /\ g.used = a.used
    <3>1. g \in EngineState  BY ZenonT(60), <1>1 DEF EngineState, NoKey
    <3> QED BY <1>1, <3>1 DEF EngineState
  <2> HIDE DEF g
  <2> QED BY <1>6, <2>1
<1> HIDE DEF b, c, d, e, g
<1> QED BY <1>1, <1>4, <1>7, <1>8, <1>9, <1>10 DEF t

\* A profile switch ends the gesture; what it shows its own timer hides.
LEMMA SwitchToProfileTidy ==
  ASSUME Config, NEW s \in EngineState, NEW name, Owned(s)
  PROVE  Follows(s, SwitchToProfile(s, name))
<1> DEFINE c == IF Cycling(s) THEN CommitCyclingValue(s) ELSE CommitPendingKey(s)
           d == CancelGestureTimers(c)
           w == ResetWaiting(d)
           e == ResetCycling(w)
           t == [e EXCEPT !.panel = Profile, !.overlayVisible = TRUE, !.profileFlashTimer = TRUE]
<1>1. SwitchToProfile(s, name) = s \/ SwitchToProfile(s, name) = t  BY DEF SwitchToProfile
<1>2. c \in EngineState  BY CommitCyclingValueType, CommitPendingKeyType
<1> HIDE DEF c
<1>3. /\ d \in EngineState
      /\ d.windowTimer = NoTimer /\ d.autoSelectTimer = NoTimer /\ d.overlayShowTimer = NoShow
  <2>1. d \in EngineState  BY <1>2, SettersType
  <2>2. d.windowTimer = NoTimer /\ d.autoSelectTimer = NoTimer /\ d.overlayShowTimer = NoShow
    BY <1>2 DEF CancelGestureTimers, EngineState
  <2> QED BY <2>1, <2>2
<1> HIDE DEF d
<1>4. w \in EngineState /\ e \in EngineState
  <2>1. w \in EngineState  BY <1>3, SettersType
  <2> HIDE DEF w
  <2> QED BY <2>1, SettersType
<1>5. /\ e.windowTimer = NoTimer /\ e.autoSelectTimer = NoTimer /\ e.overlayShowTimer = NoShow
      /\ e.waitingKey = NoText /\ e.cyclingInput = NoText
  BY <1>3 DEF ResetCycling, ResetWaiting, EngineState
<1> HIDE DEF w, e
<1>6. /\ t.windowTimer = NoTimer /\ t.autoSelectTimer = NoTimer /\ t.overlayShowTimer = NoShow
      /\ t.waitingKey = NoText /\ t.cyclingInput = NoText
      /\ t.overlayVisible = TRUE /\ t.profileFlashTimer = TRUE
  BY <1>4, <1>5 DEF EngineState
<1> HIDE DEF t
<1>7. ~GestureActive(t)  BY <1>6 DEF GestureActive, Waiting, Cycling
<1>8. Drawn(t) /\ Dark(t)  BY <1>6 DEF Drawn, Dark
<1>9. Follows(s, t)  BY <1>6, <1>7, <1>8, EndedTidy DEF Follows
<1> QED BY <1>1, <1>9, FollowsComposes

\* Settling a late window leaves everything in order.
LEMMA SettledTidy ==
  ASSUME Config, eng \in EngineState, Owned(eng)
  PROVE  Follows(eng, Settled)
<1> DEFINE f == Fresh(eng)
<1>1. f \in EngineState /\ Same(eng, f) /\ Kept(eng, f) /\ Screen(eng, f)
  BY FreshType, SettersFrame, SettersKeep
<1>2. Settled = IF Waiting(eng) /\ Expired(eng) THEN CommitExpired(f) ELSE f
  BY DEF Settled
<1> HIDE DEF f
<1>3. Owned(f) /\ (Waiting(f) <=> Waiting(eng))  BY <1>1, SameOwners
<1>4. Waiting(f) => Follows(f, CommitExpired(f))
  BY <1>1, <1>3, CommitExpiredTidy DEF Follows
<1> QED BY <1>1, <1>2, <1>3, <1>4, FollowsComposes

-----------------------------------------------------------------------------
(* Steps *)

\* A press leaves everything in order, by the alternative that handles it.
LEMMA PressTidy ==
  ASSUME Safe, NEW kb, Keyboards = {kb}, NEW k \in Keys, Press(kb, k)
  PROVE  Follows(eng, eng')
<1>1. Config /\ eng \in EngineState /\ Owned(eng)
  BY SafeFacts DEF Safe, TypeOK, Config
<1>2. Settled \in EngineState /\ Owned(Settled) /\ Follows(eng, Settled)
  BY <1>1, SettledOwners, SettledTidy
<1> DEFINE f == Fresh(eng)
           g == CommitGesture(Settled)
<1>3. f \in EngineState /\ Owned(f) /\ Follows(eng, f)
  BY <1>1, FreshType, SettersFrame, SameOwners, SettersKeep, FollowsComposes
<1>4. g \in EngineState /\ Owned(g) /\ ~GestureActive(g) /\ Follows(eng, g)
  <2>1. g \in EngineState /\ Owned(g) /\ ~GestureActive(g)
    BY <1>1, <1>2, CommitGestureType, CommitGestureEnds, EndedOwners
  <2>2. Follows(Settled, g)
    BY <1>1, <1>2, <2>1, CommitGestureTidy, EndedTidy DEF Follows
  <2> HIDE DEF g
  <2> QED BY <1>2, <2>1, <2>2, FollowsComposes
<1> HIDE DEF f, g
<1>5. ASSUME NEW s \in EngineState, Follows(eng, s)
      PROVE  Follows(eng, Forward(s)) /\ Follows(eng, Consume(s))
  BY <1>5, SettersKeep, FollowsComposes
<1>6. CASE PressFiltered(kb, k)
  BY <1>3, <1>5, <1>6 DEF PressFiltered, DeliverPress, f
<1>7. CASE PressProfileShortcut(kb, k)
  <2>1. PICK name : eng' = Consume(SwitchToProfile(f, name))
    BY <1>7 DEF PressProfileShortcut, DeliverPress, f
  <2>2. SwitchToProfile(f, name) \in EngineState  BY <1>1, <1>3, SwitchToProfileType
  <2>3. Follows(f, SwitchToProfile(f, name))  BY <1>1, <1>3, SwitchToProfileTidy
  <2> QED BY <1>3, <1>5, <2>1, <2>2, <2>3, FollowsComposes
<1>8. CASE PressModifier(kb, k)
  BY <1>3, <1>5, <1>8 DEF PressModifier, DeliverPress, f
<1>9. CASE PressShortcut(kb, k)
  <2> DEFINE s == [g EXCEPT !.inputKeyPressed = FALSE]
  <2>1. s \in EngineState /\ Kept(g, s) /\ Screen(g, s)
    BY ZenonT(60), <1>4 DEF EngineState, Kept, Screen
  <2>2. eng' = Forward(s)  BY <1>9 DEF PressShortcut, DeliverPress, g
  <2> HIDE DEF s
  <2> QED BY <1>4, <1>5, <2>1, <2>2, FollowsComposes
<1>10. CASE PressLeader(kb, k)
  <2>1. eng' = HandleLeader(Settled, k)  BY <1>10 DEF PressLeader, DeliverPress
  <2>2. Follows(Settled, HandleLeader(Settled, k))  BY <1>1, <1>2, HandleLeaderTidy
  <2> QED BY <1>2, <2>1, <2>2, FollowsComposes
<1>11. CASE PressMapped(kb, k)
  <2> DEFINE v == umlautMap'[KeyText[k]]
  <2>1. /\ eng' = StartGesture(g, k, v)
        /\ KeyText[k] \in DOMAIN umlautMap /\ Resort(g)
    BY <1>11 DEF PressMapped, DeliverPress, g
  <2>2. KeyText[k] \in Inputs  BY <1>1, <2>1 DEF Config, IsUmlautMap
  <2>3. /\ v \in Seq(Variants)
        /\ Previewed => (Enabled => Preview) /\ v # <<>>
    BY <1>1, <2>1, ResortMapped, ResortNonEmpty DEF Previewed, Config
  <2> HIDE DEF v
  <2>4. Follows(g, StartGesture(g, k, v))
    BY <1>1, <1>4, <2>2, <2>3, StartGestureTidy DEF Follows
  <2> QED BY <1>4, <2>1, <2>4, FollowsComposes
<1>12. CASE PressOther(kb, k)
  <2> DEFINE s == [g EXCEPT !.consumedAltCode = NoKey]
             c == CommitText(s, k, KeyText[k])
  <2>1. s \in EngineState /\ Kept(g, s) /\ Screen(g, s)
    <3>1. s \in EngineState  BY <1>4 DEF EngineState, NoKey
    <3>2. Kept(g, s) /\ Screen(g, s)  BY <1>4, SettersKeep
    <3> QED BY <3>1, <3>2
  <2>2. eng' = Consume(c) \/ eng' = Forward(s)
    BY <1>12 DEF PressOther, DeliverPress, g
  <2> HIDE DEF s
  <2>3. KeyText[k] \in STRING  BY TextTypes
  <2>4. c \in EngineState /\ Kept(s, c) /\ Screen(s, c)
    BY <2>1, <2>3, CommitTextType, CommitKeeps
  <2> HIDE DEF c
  <2>5. Follows(eng, s)  BY <1>4, <2>1, FollowsComposes
  <2>6. Follows(eng, c)  BY <2>4, <2>5, FollowsComposes
  <2> QED BY <1>5, <2>1, <2>2, <2>4, <2>5, <2>6
<1> QED BY <1>6, <1>7, <1>8, <1>9, <1>10, <1>11, <1>12 DEF Press

\* So does a release.
LEMMA ReleaseTidy ==
  ASSUME Safe, NEW kb, Keyboards = {kb}, NEW k \in Keys, Release(kb, k)
  PROVE  Follows(eng, eng')
<1>1. Config /\ eng \in EngineState /\ Owned(eng)
  BY SafeFacts DEF Safe, TypeOK, Config
<1> DEFINE f == Fresh(eng)
           a == [f EXCEPT !.consumedAltCode = NoKey]
           b == ClearCommitted(f)
           c == IF Cycling(f) THEN CommitCyclingValue(f) ELSE CommitPendingKey(f)
<1>2. eng' = HandleRelease(k)  BY DEF Release, DeliverRelease
<1>3. \/ eng' = Forward(f)
      \/ eng' = Consume(a)
      \/ eng' = Consume(b)
      \/ eng' = Consume(c) /\ GestureActive(eng)
  BY <1>2 DEF HandleRelease, ReleaseGesture
<1>4. /\ f \in EngineState /\ Owned(f) /\ Follows(eng, f)
      /\ GestureActive(f) <=> GestureActive(eng)
  BY <1>1, FreshType, SettersFrame, SameOwners, SettersKeep, FollowsComposes
<1> HIDE DEF f
<1>5. ASSUME NEW s \in EngineState, Follows(eng, s)
      PROVE  Follows(eng, Forward(s)) /\ Follows(eng, Consume(s))
  BY <1>5, SettersKeep, FollowsComposes
<1>6. a \in EngineState /\ Follows(eng, a)
  <2>1. a \in EngineState  BY <1>4 DEF EngineState, NoKey
  <2>2. Kept(f, a) /\ Screen(f, a)  BY <1>4, SettersKeep
  <2> HIDE DEF a
  <2> QED BY <1>4, <2>1, <2>2, FollowsComposes
<1>7. b \in EngineState /\ Follows(eng, b)
  <2>1. b \in EngineState  BY <1>4, SettersType
  <2>2. Kept(f, b) /\ Screen(f, b)  BY <1>4, SettersKeep DEF ClearCommitted
  <2> HIDE DEF b
  <2> QED BY <1>4, <2>1, <2>2, FollowsComposes
<1>8. ASSUME GestureActive(eng) PROVE c \in EngineState /\ Follows(eng, c)
  <2>1. c \in EngineState  BY <1>1, <1>4, CommitCyclingValueType, CommitPendingKeyType
  <2>2. c = CommitGesture(f)
    <3>1. CASE Cycling(f)
      <4>1. CommitPendingKey(f) = f
        BY <1>4, <3>1, CommitPendingKeyTidy DEF Owned
      <4> QED BY <3>1, <4>1 DEF CommitGesture
    <3>2. CASE ~Cycling(f)
      <4>1. Waiting(f)  BY <1>4, <1>8, <3>2 DEF GestureActive
      <4>2. ~Cycling(CommitPendingKey(f))
        BY <1>4, <3>2, <4>1, CommitPendingKeyEnds DEF Cycling
      <4>3. CommitPendingKey(f) \in EngineState  BY <1>4, CommitPendingKeyType
      <4> QED BY <1>1, <3>2, <4>2, <4>3, CommitCyclingValueEnds DEF CommitGesture
    <3> QED BY <3>1, <3>2
  <2>3. ~GestureActive(CommitGesture(f))  BY <1>1, <1>4, CommitGestureEnds, EndedOwners
  <2>4. Follows(f, CommitGesture(f))
    BY <1>1, <1>4, <2>3, CommitGestureTidy, EndedTidy DEF Follows
  <2> HIDE DEF c
  <2> QED BY <1>4, <2>1, <2>2, <2>4, FollowsComposes
<1> HIDE DEF a, b, c
<1> QED BY <1>3, <1>4, <1>5, <1>6, <1>7, <1>8

\* And a repeat: a committed key that starts over meets no gesture.
LEMMA RepeatTidy ==
  ASSUME Safe, NEW kb, Keyboards = {kb}, Repeat(kb)
  PROVE  Follows(eng, eng')
<1> DEFINE k == rep[kb]
           f == Fresh(eng)
           b == ClearCommitted(f)
<1>1. /\ Config /\ eng \in EngineState /\ Owned(eng) /\ k \in Keys
      /\ GestureActive(eng) => k # eng.committedCode
  BY SafeFacts DEF Safe, TypeOK, Config, Repeat
<1>2. \/ eng' = Forward(f)
      \/ eng' = Consume(f)
      \/ eng' = HandleLeader(f, k)
      \/ eng' = Forward(b)
      \/ /\ eng' = StartGesture(b, k, umlautMap[KeyText[k]])
         /\ KeyText[k] \in DOMAIN umlautMap /\ k = eng.committedCode
  BY DEF Repeat, RepeatOwnKey, RepeatLeader, RepeatCommitted, RepeatOther
<1> HIDE DEF k
<1>3. /\ f \in EngineState /\ Owned(f) /\ Follows(eng, f)
      /\ GestureActive(f) <=> GestureActive(eng)
  BY <1>1, FreshType, SettersFrame, SameOwners, SettersKeep, FollowsComposes
<1> HIDE DEF f
<1>4. ASSUME NEW s \in EngineState, Follows(eng, s)
      PROVE  Follows(eng, Forward(s)) /\ Follows(eng, Consume(s))
  BY <1>4, SettersKeep, FollowsComposes
<1>5. b \in EngineState /\ Kept(f, b) /\ Screen(f, b)
  <2>1. b \in EngineState  BY <1>3, SettersType
  <2>2. Kept(f, b) /\ Screen(f, b)  BY <1>3, SettersKeep DEF ClearCommitted
  <2> QED BY <2>1, <2>2
<1> HIDE DEF b
<1>6. Follows(eng, b) /\ (GestureActive(b) <=> GestureActive(eng))
  BY <1>3, <1>5, KeptPredicates, FollowsComposes
<1>7. Follows(f, HandleLeader(f, k))  BY <1>1, <1>3, HandleLeaderTidy
<1>8. ASSUME KeyText[k] \in DOMAIN umlautMap, k = eng.committedCode
      PROVE  Follows(b, StartGesture(b, k, umlautMap[KeyText[k]]))
  <2> DEFINE v == umlautMap[KeyText[k]]
  <2>1. KeyText[k] \in Inputs /\ v \in Seq(Variants)
    BY <1>1, <1>8 DEF Config, IsUmlautMap
  <2>2. Previewed => (Enabled => Preview) /\ v # <<>>
    BY <1>8 DEF Previewed
  <2>3. ~GestureActive(b)  BY <1>1, <1>6, <1>8
  <2> HIDE DEF v
  <2>4. Follows(b, StartGesture(b, k, v))
    BY <1>1, <1>5, <2>1, <2>2, <2>3, StartGestureTidy DEF Follows
  <2> QED BY <2>4 DEF v
<1> QED BY <1>2, <1>3, <1>4, <1>5, <1>6, <1>7, <1>8, FollowsComposes

\* And a timer: none that fires belongs to a gesture that is over.
LEMMA TimerTidy ==
  ASSUME Safe, NEW kb, Keyboards = {kb}, Timers
  PROVE  Follows(eng, eng')
<1> DEFINE f == Fresh(eng)
<1>1. Config /\ eng \in EngineState /\ Owned(eng)
  BY SafeFacts DEF Safe, TypeOK, Config
<1>2. /\ f \in EngineState /\ Owned(f) /\ Follows(eng, f) /\ Kept(eng, f) /\ Screen(eng, f)
      /\ Waiting(f) <=> Waiting(eng)
      /\ Cycling(f) <=> Cycling(eng)
      /\ GestureActive(f) <=> GestureActive(eng)
  BY <1>1, FreshType, SettersFrame, SameOwners, SettersKeep, FollowsComposes
<1> HIDE DEF f
<1>3. ASSUME NEW s, Follows(f, s), eng' = s PROVE Follows(eng, eng')
  BY <1>2, <1>3, FollowsComposes
<1>4. CASE WindowTimeout
  <2> DEFINE s == [f EXCEPT !.windowTimer = NoTimer]
  <2>1. /\ s \in EngineState /\ Screen(f, s) /\ Same(f, s)
        /\ s.cyclingIndex = f.cyclingIndex
        /\ s.windowTimer = NoTimer /\ s.autoSelectTimer = f.autoSelectTimer
    <3>1. NoTimer \in Nat  BY DEF NoTimer
    <3>2. s \in EngineState  BY ZenonT(60), <1>2, <3>1 DEF EngineState
    <3> QED BY <1>2, <3>2 DEF EngineState, Screen, Same
  <2>2. eng' = IF Waiting(s) THEN CommitExpired(s) ELSE s  BY <1>4 DEF WindowTimeout, f
  <2> HIDE DEF s
  <2>3. Owned(s)  BY <1>2, <2>1, SameOwners
  <2>4. Follows(f, s)
    BY <2>1 DEF Follows, Timed, Closable, Mirrors, Drawn, Dark, Screen, Same, GestureActive,
                Waiting, Cycling
  <2>5. Waiting(s) => Follows(s, CommitExpired(s))
    BY <1>1, <2>1, <2>3, CommitExpiredTidy DEF Follows
  <2> QED BY <1>3, <2>2, <2>4, <2>5, FollowsComposes
<1>5. CASE AutoSelect
  <2> DEFINE s == [f EXCEPT !.autoSelectTimer = NoTimer]
             u == [s EXCEPT !.windowTimer = NoTimer]
             t == EnterCycling(u, s.waitingKey, 0)
  <2>1. /\ s \in EngineState /\ Screen(f, s) /\ Same(f, s)
        /\ s.cyclingIndex = f.cyclingIndex
        /\ s.windowTimer = f.windowTimer /\ s.autoSelectTimer = NoTimer
    <3>1. NoTimer \in Nat  BY DEF NoTimer
    <3>2. s \in EngineState  BY ZenonT(60), <1>2, <3>1 DEF EngineState
    <3> QED BY <1>2, <3>2 DEF EngineState, Screen, Same
  <2>2. eng' = IF Waiting(s) /\ ~Cycling(s) /\ s.inputKeyPressed THEN t ELSE s
    BY <1>5 DEF AutoSelect, f
  <2> HIDE DEF s
  <2>3. /\ u \in EngineState /\ Screen(s, u) /\ Same(s, u)
        /\ u.cyclingIndex = s.cyclingIndex
        /\ u.windowTimer = NoTimer /\ u.autoSelectTimer = s.autoSelectTimer
    <3>4. NoTimer \in Nat  BY DEF NoTimer
    <3>1. u \in EngineState  BY ZenonT(60), <2>1, <3>4 DEF EngineState
    <3>2. /\ Screen(s, u) /\ u.cyclingIndex = s.cyclingIndex
          /\ u.windowTimer = NoTimer /\ u.autoSelectTimer = s.autoSelectTimer
      BY SMTT(30), <2>1 DEF EngineState, Screen
    <3>3. Same(s, u)  BY SMTT(30), <2>1 DEF EngineState, Same
    <3> QED BY <3>1, <3>2, <3>3
  <2> HIDE DEF u
  <2>4. Owned(u) /\ (Waiting(u) <=> Waiting(s)) /\ u.waitingKey = s.waitingKey
    BY <1>2, <2>1, <2>3, SameOwners DEF Same
  <2>5. Follows(f, s)
    BY <2>1 DEF Follows, Timed, Closable, Mirrors, Drawn, Dark, Screen, Same, GestureActive,
                Waiting, Cycling
  <2>6. Follows(s, u)
    BY <2>3 DEF Follows, Timed, Closable, Mirrors, Drawn, Dark, Screen, Same, GestureActive,
                Waiting, Cycling
  <2>7. Waiting(s) => Follows(u, t)
    <3>1. 0 \in Nat  OBVIOUS
    <3> QED BY <2>1, <2>3, <2>4, <3>1, EnterCyclingTidy DEF Follows
  <2> HIDE DEF t
  <2> QED BY <1>3, <2>2, <2>5, <2>6, <2>7, FollowsComposes
<1>6. CASE OverlayShow
  <2> DEFINE s     == [f EXCEPT !.overlayShowTimer = NoShow]
             input == eng.overlayShowTimer.input
             shown == eng.overlayShowTimer.variants
             t     == OverlayShowVariants(s, shown, -1)
  <2>1. /\ s \in EngineState /\ Kept(f, s) /\ s.overlayHideTimer = f.overlayHideTimer
        /\ Drawn(f) => Drawn(s)
        /\ Closable(f) => Closable(s)
        /\ Mirrors(f) => Mirrors(s)
    BY <1>2, DropPreview
  <2>2. Follows(f, s)  BY <2>1, KeptPredicates DEF Follows
  <2>3. eng' = IF s.waitingKey = input /\ ~Cycling(s) THEN t ELSE s
    BY <1>6 DEF OverlayShow, f
  <2>4. eng.overlayShowTimer # NoShow  BY <1>6 DEF OverlayShow
  <2> HIDE DEF s
  <2>5. /\ Kept(s, t) /\ t.overlayHideTimer = s.overlayHideTimer
        /\ Drawn(s) => Drawn(t)
    BY <2>1, OverlayShowVariantsDrawn
  <2> HIDE DEF t
  <2>6. ASSUME s.waitingKey = input, ~Cycling(s), Closable(f) PROVE Closable(t)
    <3>1. Enabled /\ Preview /\ input # NoText
      BY <1>2, <2>4, <2>6 DEF Closable, Drawn, Screen
    <3>2. Waiting(s)  BY <2>6, <3>1 DEF Waiting
    <3>3. Waiting(t) /\ Drawn(t)
      BY <2>1, <2>5, <2>6, <3>2, KeptPredicates DEF Closable
    <3> QED BY <3>1, <3>3 DEF Closable, GestureActive
  <2>7. ~Cycling(s) /\ Mirrors(s) => Mirrors(t)
    BY <2>5, KeptPredicates DEF Mirrors
  <2>8. Timed(s) => Timed(t)  BY <2>5, KeptPredicates
  <2>9. s.waitingKey = input /\ ~Cycling(s) => Follows(f, t)
    BY <2>2, <2>6, <2>7, <2>8, <2>1 DEF Follows
  <2> QED BY <1>3, <2>2, <2>3, <2>9
<1>7. CASE OverlayHide
  <2> DEFINE s == [f EXCEPT !.overlayHideTimer = FALSE]
             t == OverlayHideAll(s)
  <2>1. /\ s \in EngineState /\ Kept(f, s)
        /\ s.panel = f.panel /\ s.overlayVisible = f.overlayVisible
        /\ s.overlayShowTimer = f.overlayShowTimer /\ s.profileFlashTimer = f.profileFlashTimer
    BY ZenonT(60), <1>2 DEF EngineState, Kept
  <2>2. eng' = t  BY <1>7 DEF OverlayHide, f
  <2>3. f.overlayHideTimer  BY <1>2, <1>7 DEF OverlayHide, Screen
  <2> HIDE DEF s
  <2>4. Kept(s, t) /\ (Drawn(s) => Drawn(t) /\ Dark(t))  BY <2>1, OverlayHideAllDark
  <2> HIDE DEF t
  <2>5. Kept(f, t)  BY <2>1, <2>4, KeptTransitive
  <2>6. Drawn(f) => Drawn(s)  BY <2>1 DEF Drawn
  <2>7. Closable(f) => Closable(t)  BY <2>4, <2>6 DEF Closable
  <2>8. Mirrors(f) => Mirrors(t)  BY <2>3, <2>5, KeptPredicates DEF Mirrors
  <2> QED BY <1>3, <2>2, <2>5, <2>7, <2>8, KeptPredicates DEF Follows
<1>8. CASE ProfileFlash
  <2> DEFINE t == [f EXCEPT !.profileFlashTimer = FALSE, !.panel = Hidden,
                            !.overlayVisible = FALSE]
  <2>1. /\ Kept(f, t) /\ t.panel = Hidden
        /\ t.overlayShowTimer = f.overlayShowTimer /\ t.overlayHideTimer = f.overlayHideTimer
    BY <1>2 DEF EngineState, Kept
  <2>2. eng' = t  BY <1>8 DEF ProfileFlash, f
  <2>3. f.profileFlashTimer  BY <1>2, <1>8 DEF ProfileFlash, Screen
  <2> HIDE DEF t
  <2>4. Closable(f) => Closable(t)  BY <2>1 DEF Closable, Drawn, Dark
  <2>5. Mirrors(f) => Mirrors(t)  BY <2>1, <2>3, KeptPredicates DEF Mirrors
  <2> QED BY <1>3, <2>1, <2>2, <2>4, <2>5, KeptPredicates DEF Follows
<1>9. CASE UsageFlush
  <2> DEFINE s == [f EXCEPT !.usageDirty = FALSE]
             a == [s EXCEPT !.usageTimer = 2]
             b == [s EXCEPT !.usageTimer = 0]
  <2>1. s \in EngineState /\ Kept(f, s) /\ Screen(f, s)
    BY ZenonT(60), <1>2 DEF EngineState, Kept, Screen
  <2>2. eng' = a \/ eng' = ApplyUsageTracking(b, config)  BY <1>9 DEF UsageFlush, f
  <2> HIDE DEF s
  <2>3. /\ Kept(s, a) /\ Screen(s, a)
        /\ b \in EngineState /\ Kept(s, b) /\ Screen(s, b)
    <3>1. 0 \in 0..2  OBVIOUS
    <3>2. b \in EngineState  BY ZenonT(60), <2>1, <3>1 DEF EngineState
    <3>3. Kept(s, a) /\ Screen(s, a)  BY <2>1 DEF EngineState, Kept, Screen
    <3>4. Kept(s, b) /\ Screen(s, b)  BY <2>1 DEF EngineState, Kept, Screen
    <3> QED BY <3>2, <3>3, <3>4
  <2> HIDE DEF a, b
  <2>4. Kept(b, ApplyUsageTracking(b, config)) /\ Screen(b, ApplyUsageTracking(b, config))
    BY <2>3 DEF ApplyUsageTracking, EngineState, Kept, Screen
  <2>5. Follows(f, a) /\ Follows(f, ApplyUsageTracking(b, config))
    BY <2>1, <2>3, <2>4, FollowsComposes
  <2> QED BY <1>3, <2>2, <2>5
<1> QED BY <1>4, <1>5, <1>6, <1>7, <1>8, <1>9 DEF Timers

\* Neither the clock nor a focus change leaves anything behind.
LEMMA FocusTidy ==
  ASSUME Safe, NEW kb, Keyboards = {kb}, Tick \/ FocusChanged
  PROVE  Follows(eng, eng')
<1> DEFINE f == Fresh(eng)
<1>1. Config /\ eng \in EngineState  BY DEF Safe, TypeOK, Config
<1>2. f \in EngineState /\ Follows(eng, f)
  BY <1>1, FreshType, SettersKeep, FollowsComposes
<1>3. CASE Tick
  <2> DEFINE s == [f EXCEPT !.elapsed = @ + 1]
  <2>1. eng' = s  BY <1>3 DEF Tick
  <2> HIDE DEF f
  <2>2. Kept(f, s) /\ Screen(f, s)  BY <1>2 DEF EngineState, Kept, Screen
  <2> HIDE DEF s
  <2> QED BY <1>2, <2>1, <2>2, FollowsComposes
<1>4. CASE FocusChanged
  <2> DEFINE r == CancelGestureTimers(f)
             w == ResetWaiting(r)
             a == ClearCommitted(ResetCycling(w))
             h == OverlayHideAll(a)
             s == [h EXCEPT !.consumedAltCode = NoKey, !.usageDirty = FALSE, !.decision = "Focus"]
  <2>1. eng' = s  BY <1>4 DEF FocusChanged
  <2> HIDE DEF f
  <2>2. r \in EngineState /\ w \in EngineState /\ a \in EngineState
    BY <1>2, SettersType
  <2>3. /\ r.windowTimer = NoTimer /\ r.autoSelectTimer = NoTimer
        /\ r.overlayShowTimer = NoShow
        /\ r.panel = f.panel /\ r.overlayVisible = f.overlayVisible
        /\ r.profileFlashTimer = f.profileFlashTimer
    BY <1>2 DEF CancelGestureTimers, EngineState
  <2> HIDE DEF r
  <2>4. /\ a.waitingKey = NoText /\ a.cyclingInput = NoText
        /\ a.windowTimer = r.windowTimer /\ a.autoSelectTimer = r.autoSelectTimer
        /\ Screen(r, a)
    BY <2>2 DEF EngineState, ResetWaiting, ResetCycling, ClearCommitted, ArmCommitted, Screen
  <2> HIDE DEF a
  <2>5. h \in EngineState /\ Kept(a, h) /\ (Drawn(a) => Drawn(h) /\ Dark(h))
    BY <2>2, OverlayHideAllType, OverlayHideAllDark
  <2> HIDE DEF h
  <2>6. Kept(h, s) /\ Screen(h, s)  BY <2>5 DEF EngineState, Kept, Screen
  <2> HIDE DEF s
  <2>7. /\ ~GestureActive(s) /\ s.windowTimer = NoTimer /\ s.autoSelectTimer = NoTimer
    BY <2>3, <2>4, <2>5, <2>6 DEF Kept, GestureActive, Waiting, Cycling
  <2>8. Drawn(f) => Drawn(a)  BY <2>3, <2>4 DEF Drawn, Screen
  <2>9. Drawn(f) => Drawn(s) /\ Dark(s)  BY <2>5, <2>6, <2>8 DEF Screen, Drawn, Dark
  <2>10. Follows(f, s)  BY <2>7, <2>9, EndedTidy DEF Follows, Closable
  <2> QED BY <1>2, <2>1, <2>10, FollowsComposes
<1> QED BY <1>3, <1>4

\* A reload leaves the gesture and its clocks as they are, and the screen too
\* unless it switches the overlay off.
LEMMA ReloadTidy ==
  ASSUME Safe, Reload
  PROVE  /\ Kept(eng, eng')
         /\ config'.overlayEnabled = config.overlayEnabled => Screen(eng, eng')
<1>1. PICK r \in Reloads :
        /\ config' = r.config
        /\ eng' = IF config.overlayEnabled /\ ~r.config.overlayEnabled
                  THEN [ApplyUsageTracking(Fresh(eng), r.config) EXCEPT !.panel = Hidden]
                  ELSE ApplyUsageTracking(Fresh(eng), r.config)
  BY DEF Reload
<1> DEFINE f == Fresh(eng)
           s == ApplyUsageTracking(f, r.config)
           t == [s EXCEPT !.panel = Hidden]
<1>2. f \in EngineState /\ Kept(eng, f) /\ Screen(eng, f)
  BY FreshType, SettersKeep DEF Safe, TypeOK
<1>3. s \in EngineState /\ Kept(f, s) /\ Screen(f, s)
  <2> HIDE DEF f
  <2>1. s \in EngineState  BY <1>2, ApplyUsageTrackingType
  <2>2. Kept(f, s) /\ Screen(f, s)
    BY <1>2 DEF ApplyUsageTracking, EngineState, Kept, Screen
  <2> QED BY <2>1, <2>2
<1>4. Kept(s, t)
  <2> HIDE DEF s
  <2> QED BY <1>3 DEF EngineState, Kept
<1>5. /\ eng' = t \/ eng' = s
      /\ config'.overlayEnabled = config.overlayEnabled => eng' = s
  BY <1>1
<1> HIDE DEF f, s, t
<1> QED BY <1>2, <1>3, <1>4, <1>5, KeptTransitive

-----------------------------------------------------------------------------
(* The settings of the overlay and the mappings *)

GivenSettings == Configs \cup {r.config : r \in Reloads}
GivenMappings == {ProfileMap[p] : p \in ProfileNames} \cup {r.map : r \in Reloads}

\* The overlay settings are those the engine started with.
OverlayKept ==
  \A c, d \in GivenSettings :
    /\ c.overlayEnabled = d.overlayEnabled
    /\ c.showOnTrigger \/ c.progressBar <=> d.showOnTrigger \/ d.progressBar

\* With the overlay on, the variants are shown before the cycle opens.
OverlayPreviews ==
  \A c \in GivenSettings : c.overlayEnabled => c.showOnTrigger \/ c.progressBar

\* An input without outputs is not loaded and not composed
\* (mappings_loader.cpp:58, profile_compose.h:148).
NonEmpty(m) == \A i \in DOMAIN m : m[i] # <<>>
OutputsExist == \A m \in GivenMappings : NonEmpty(m)

\* A reload leaves the variants an open cycle selects from as they are: the daemon
\* takes over new mappings in the middle of a cycle (engine.cpp:53-55), and the
\* panel keeps the texts it was given, whereas a release commits a text of the new
\* list.
Undisturbed ==
  Reload /\ Cycling(eng) => VariantsFor(eng.cyclingInput)' = VariantsFor(eng.cyclingInput)
CyclesUndisturbed == [][Undisturbed]_vars

\* The settings are always among those given.
LEMMA SettingsGiven == Spec => [](config \in GivenSettings)
<1>1. Init => config \in GivenSettings  BY DEF Init, GivenSettings
<1>2. ASSUME config \in GivenSettings, [Next]_vars PROVE (config \in GivenSettings)'
  <2>1. CASE Reload  BY <2>1 DEF Reload, GivenSettings
  <2>2. CASE ~Reload
    <3>1. UNCHANGED config
      BY <1>2, <2>2 DEF Next, Press, Release, Repeat, Unplug, SynDropped, Tick, Timers,
                        WindowTimeout, AutoSelect, OverlayShow, OverlayHide, ProfileFlash,
                        UsageFlush, FocusChanged, vars
    <3> QED BY <1>2, <3>1 DEF GivenSettings
  <2> QED BY <2>1, <2>2
<1> QED BY <1>1, <1>2, PTL DEF Spec

\* The mapping of a step: as it was, re-sorted, or built from a given one.
LEMMA MapSteps ==
  ASSUME TypeOK, [Next]_vars
  PROVE  \/ UNCHANGED umlautMap
         \/ \E s : Resort(s)
         \/ \E m \in GivenMappings : IsUmlautMap(m) /\ \E c : umlautMap' \in BuildRuntimeMaps(m, c)
<1>1. ASSUME NEW name, IsSwitch(name), umlautMap' \in BuildRuntimeMaps(ProfileMap[name], config)
      PROVE  \E m \in GivenMappings : IsUmlautMap(m) /\ \E c : umlautMap' \in BuildRuntimeMaps(m, c)
  BY <1>1, EngineAssumption DEF IsSwitch, EngineAssumption, GivenMappings
<1>2. CASE \E kb \in Keyboards, k \in Keys : Press(kb, k)
  BY <1>1, <1>2 DEF Press, PressFiltered, PressProfileShortcut, PressModifier, PressShortcut,
                    PressLeader, PressMapped, PressOther
<1>3. CASE \E kb \in Keyboards, k \in Keys : Release(kb, k)  BY <1>3 DEF Release
<1>4. CASE \E kb \in Keyboards : Repeat(kb)
  BY <1>4 DEF Repeat, RepeatOwnKey, RepeatLeader, RepeatCommitted, RepeatOther
<1>5. CASE Reload  BY <1>5, EngineAssumption DEF Reload, EngineAssumption, GivenMappings
<1>6. CASE \/ \E kb \in Unreliable : Unplug(kb) \/ SynDropped(kb)
           \/ Tick \/ Timers \/ FocusChanged \/ UNCHANGED vars
  BY <1>6 DEF Unplug, SynDropped, Tick, Timers, WindowTimeout, AutoSelect, OverlayShow,
              OverlayHide, ProfileFlash, UsageFlush, FocusChanged, vars
<1> QED BY <1>2, <1>3, <1>4, <1>5, <1>6 DEF Next

\* A runtime map has a variant for whatever is mapped.
LEMMA RuntimeMapNonEmpty ==
  ASSUME NEW m, IsUmlautMap(m), NonEmpty(m), NEW c, NEW n \in BuildRuntimeMaps(m, c)
  PROVE  NonEmpty(n)
<1>1. DOMAIN n = DOMAIN m  BY DEF BuildRuntimeMaps
<1>2. ASSUME NEW i \in DOMAIN n PROVE n[i] # <<>>
  <2>1. m[i] \in Seq(Variants) /\ m[i] # <<>>  BY <1>1 DEF IsUmlautMap, NonEmpty
  <2>2. n[i] \in Reorderings(m[i]) \/ n[i] = m[i]  BY <1>1 DEF BuildRuntimeMaps
  <2> QED BY <2>1, <2>2, ReorderingNonEmpty
<1> QED BY <1>2 DEF NonEmpty

\* Whatever is mapped has a variant, through reloads, switches and re-sorting.
LEMMA MappedHasVariant ==
  ASSUME OutputsExist PROVE Spec => []NonEmpty(umlautMap)
<1>1. ASSUME Init, TypeOK PROVE NonEmpty(umlautMap)
  <2>1. active \in ProfileNames  BY <1>1 DEF TypeOK
  <2>2. IsUmlautMap(ProfileMap[active]) /\ NonEmpty(ProfileMap[active])
    BY <2>1, EngineAssumption DEF EngineAssumption, OutputsExist, GivenMappings
  <2> QED BY <1>1, <2>2, RuntimeMapNonEmpty DEF Init
<1>2. ASSUME TypeOK, NonEmpty(umlautMap), [Next]_vars PROVE NonEmpty(umlautMap')
  <2>1. CASE UNCHANGED umlautMap  BY <1>2, <2>1
  <2>2. ASSUME NEW s, Resort(s) PROVE NonEmpty(umlautMap')
    <3>1. DOMAIN umlautMap' = DOMAIN umlautMap  BY <2>2 DEF Resort, Resorted
    <3> QED BY <1>2, <2>2, <3>1, ResortNonEmpty DEF TypeOK, NonEmpty
  <2>3. ASSUME NEW m \in GivenMappings, IsUmlautMap(m), NEW c, umlautMap' \in BuildRuntimeMaps(m, c)
        PROVE  NonEmpty(umlautMap')
    BY <2>3, RuntimeMapNonEmpty DEF OutputsExist
  <2> QED BY <1>2, <2>1, <2>2, <2>3, MapSteps
<1>3. TypeOK /\ NonEmpty(umlautMap) /\ [Next]_vars => NonEmpty(umlautMap)'
  BY <1>2 DEF NonEmpty
<1> QED BY <1>1, <1>3, TypeCorrect, PTL DEF Spec

-----------------------------------------------------------------------------
(* The theorems *)

\* The release of the gesture's key belongs to the gesture: it is neither the Alt
\* used as a leader nor a key committed before.
LEMMA OwnReleaseSettles ==
  ASSUME Safe, NEW kb, Keyboards = {kb}, NEW k \in Keys, Release(kb, k),
         GestureActive(eng), k = eng.waitingKeyCode
  PROVE  ~GestureActive(eng')
<1> DEFINE f == Fresh(eng)
           c == IF Cycling(f) THEN CommitCyclingValue(f) ELSE CommitPendingKey(f)
<1>1. Config /\ eng \in EngineState /\ Owned(eng) /\ ~Filtered
  BY SafeFacts DEF Safe, TypeOK, Config, Filtered, SteadySettings
<1>2. /\ f \in EngineState /\ Same(eng, f) /\ Owned(f)
      /\ GestureActive(f)
  BY <1>1, FreshType, SettersFrame, SameOwners
<1>3. k # NoKey /\ ~IsModifierSym(k)
  BY <1>1 DEF Owned, OwnerShape
<1>4. ~ReleaseAlt(k)  BY <1>1, <1>3 DEF ReleaseAlt, Owned, OwnerShape
<1>5. ~ReleaseCommitted(k)  BY <1>1 DEF ReleaseCommitted, Owned, OwnerShape
<1>6. ReleaseGesture(k)  BY <1>1, <1>4, <1>5 DEF ReleaseGesture, Owned, OwnerShape
<1>7. eng' = Consume(c)
  BY <1>1, <1>4, <1>5, <1>6 DEF Release, DeliverRelease, HandleRelease
<1> HIDE DEF f
<1>8. c \in EngineState  BY <1>1, <1>2, CommitCyclingValueType, CommitPendingKeyType
<1>9. ~GestureActive(c)
  <2>1. CASE Cycling(f)
    <3>1. ~Waiting(f)  BY <1>2, <2>1 DEF Owned
    <3>2. Ended(f, CommitCyclingValue(f))  BY <1>1, <1>2, <2>1, CommitCyclingValueEnds
    <3> QED BY <1>2, <2>1, <3>2, EndedOwners
  <2>2. CASE ~Cycling(f)
    <3>1. Waiting(f)  BY <1>2, <2>2 DEF GestureActive
    <3> QED BY <1>2, <2>2, <3>1, CommitPendingKeyEnds DEF GestureActive, Waiting, Cycling
  <2> QED BY <2>1, <2>2
<1> HIDE DEF c
<1>10. Same(c, Consume(c))  BY <1>8, SettersFrame
<1> QED BY <1>7, <1>9, <1>10, SameOwners

\* Every step but a reload keeps everything in order.
LEMMA StepTidy ==
  ASSUME OneSteadyKeyboard, Safe, [Next]_vars
  PROVE  Reload \/ (Follows(eng, eng') /\ UNCHANGED config)
<1>1. PICK kb : Keyboards = {kb}  BY DEF OneSteadyKeyboard
<1>2. CASE \E k \in Keys : Press(kb, k)  BY <1>1, <1>2, PressTidy DEF Press
<1>3. CASE \E k \in Keys : Release(kb, k)  BY <1>1, <1>3, ReleaseTidy DEF Release
<1>4. CASE Repeat(kb)  BY <1>1, <1>4, RepeatTidy DEF Repeat
<1>5. CASE Timers
  <2>1. UNCHANGED config
    BY <1>5 DEF Timers, WindowTimeout, AutoSelect, OverlayShow, OverlayHide, ProfileFlash,
                UsageFlush
  <2> QED BY <1>1, <1>5, <2>1, TimerTidy
<1>6. CASE Tick \/ FocusChanged  BY <1>1, <1>6, FocusTidy DEF Tick, FocusChanged
<1>7. CASE UNCHANGED vars  BY <1>7, FollowsComposes DEF vars
<1>8. Unreliable = {}  BY DEF OneSteadyKeyboard
<1> QED BY <1>1, <1>2, <1>3, <1>4, <1>5, <1>6, <1>7, <1>8 DEF Next

\* At first there is no gesture, and nothing is shown.
LEMMA IdleTidy ==
  ASSUME Init PROVE Timed(eng) /\ Closable(eng) /\ Mirrors(eng)
<1>1. /\ eng.waitingKey = NoText /\ eng.cyclingInput = NoText
      /\ eng.windowTimer = NoTimer /\ eng.autoSelectTimer = NoTimer
      /\ eng.overlayShowTimer = NoShow /\ eng.panel = Hidden
  BY DEF Init, ApplyUsageTracking, IdleState
<1> QED BY <1>1 DEF Timed, Closable, Drawn, Dark, Mirrors, GestureActive, Waiting, Cycling

\* The clocks of a gesture never outlive it, with any settings and reloads.
LEMMA TimedInvariant ==
  ASSUME OneSteadyKeyboard PROVE Spec => []Timed(eng)
<1>1. Init => Timed(eng)  BY IdleTidy
<1>2. ASSUME Safe, Timed(eng), [Next]_vars PROVE Timed(eng')
  <2>1. CASE Reload  BY <1>2, <2>1, ReloadTidy, KeptPredicates
  <2>2. CASE ~Reload  BY <1>2, <2>2, StepTidy DEF Follows
  <2> QED BY <2>1, <2>2
<1>3. Safe /\ Timed(eng) /\ [Next]_vars => Timed(eng)'  BY <1>2 DEF Timed, Waiting
<1> QED BY <1>1, <1>3, SafeInvariant, PTL DEF Spec

\* With the same overlay settings the same is in order.
LEMMA SameSettings ==
  ASSUME config'.overlayEnabled = config.overlayEnabled,
         config'.showOnTrigger \/ config'.progressBar <=> config.showOnTrigger \/ config.progressBar
  PROVE  /\ Closable(eng') <=> Closable(eng)'
         /\ (Cycling(eng') => VariantsFor(eng'.cyclingInput) = VariantsFor(eng.cyclingInput)')
              => (Mirrors(eng') <=> Mirrors(eng)')
<1>1. (Enabled' <=> Enabled) /\ (Preview' <=> Preview)  BY DEF Enabled, Preview
<1>2. /\ Drawn(eng') <=> Drawn(eng)'
      /\ Dark(eng') <=> Dark(eng)'
      /\ Waiting(eng') <=> Waiting(eng)'
      /\ Cycling(eng') <=> Cycling(eng)'
      /\ GestureActive(eng') <=> GestureActive(eng)'
  BY <1>1 DEF Drawn, Dark, Waiting, Cycling, GestureActive
<1>3. Closable(eng') <=> Closable(eng)'  BY <1>1, <1>2 DEF Closable
<1>4. ASSUME Cycling(eng') => VariantsFor(eng'.cyclingInput) = VariantsFor(eng.cyclingInput)'
      PROVE  Mirrors(eng') <=> Mirrors(eng)'
  BY <1>1, <1>2, <1>4 DEF Mirrors
<1> QED BY <1>3, <1>4

\* A gesture can always close its panel, if the overlay's settings stay.
LEMMA ClosableInvariant ==
  ASSUME OneSteadyKeyboard, OverlayKept PROVE Spec => []Closable(eng)
<1>1. Init => Closable(eng)  BY IdleTidy
<1>2. ASSUME Safe, Closable(eng), config \in GivenSettings, (config \in GivenSettings)', [Next]_vars
      PROVE  Closable(eng)'
  <2>1. /\ config'.overlayEnabled = config.overlayEnabled
        /\ config'.showOnTrigger \/ config'.progressBar
             <=> config.showOnTrigger \/ config.progressBar
    BY <1>2 DEF OverlayKept, GivenSettings
  <2>2. CASE Reload  BY <1>2, <2>1, <2>2, ReloadTidy, KeptPredicates, SameSettings
  <2>3. CASE ~Reload  BY <1>2, <2>1, <2>3, StepTidy, SameSettings DEF Follows
  <2> QED BY <2>2, <2>3
<1> QED BY <1>1, <1>2, SafeInvariant, SettingsGiven, PTL DEF Spec

\* No step but a reload changes the mappings and leaves a cycle open.
LEMMA CyclesKeepMappings ==
  ASSUME OneSteadyKeyboard, Safe, [Next]_vars, ~Reload, Cycling(eng')
  PROVE  UNCHANGED umlautMap
<1>1. PICK kb : Keyboards = {kb}  BY DEF OneSteadyKeyboard
<1>2. Config /\ eng \in EngineState /\ Owned(eng)
  BY <1>1, SafeFacts DEF Safe, TypeOK, Config
<1> DEFINE f == Fresh(eng)
<1>3. f \in EngineState /\ Owned(f) /\ f.used = NoText /\ Kept(eng, f)
  <2>1. f \in EngineState /\ Owned(f) /\ Kept(eng, f)
    BY <1>2, FreshType, SettersFrame, SettersKeep, SameOwners
  <2> QED BY <1>2, <2>1 DEF Fresh, EngineState
<1> HIDE DEF f
<1>4. ASSUME NEW s, s.used = NoText, Resort(s) PROVE UNCHANGED umlautMap
  <2>1. NoText \notin DOMAIN umlautMap
    BY <1>2, EngineAssumption DEF Config, IsUmlautMap, EngineAssumption
  <2> QED BY <1>4, <2>1 DEF Resort, Resorted
<1>5. ASSUME NEW s \in EngineState, ~GestureActive(s)
      PROVE  eng' # Forward(s) /\ eng' # Consume(s)
  BY <1>5, SettersKeep, KeptPredicates DEF GestureActive
<1>6. CASE \E k \in Keys : Press(kb, k)
  <2>1. PICK k \in Keys : Press(kb, k)  BY <1>6
  <2>2. Settled \in EngineState /\ Owned(Settled) /\ Settled.used = NoText
    <3>1. Settled \in EngineState /\ Owned(Settled)  BY <1>2, SettledOwners
    <3>2. CommitExpired(f).used = NoText
      BY <1>3, PendingUncounted
    <3> QED BY <1>3, <3>1, <3>2 DEF Settled, f
  <2> DEFINE g == CommitGesture(Settled)
  <2>3. g \in EngineState /\ ~GestureActive(g)
    BY <1>2, <2>2, CommitGestureType, CommitGestureEnds, EndedOwners
  <2> HIDE DEF g
  <2>4. CASE PressFiltered(kb, k) \/ PressModifier(kb, k)
    BY <2>4 DEF PressFiltered, PressModifier
  <2>5. CASE PressProfileShortcut(kb, k)
    <3>1. PICK name : /\ eng' = Consume(SwitchToProfile(f, name))
                      /\ ~IsSwitch(name) => UNCHANGED umlautMap
      BY <2>5 DEF PressProfileShortcut, DeliverPress, f
    <3>2. SwitchToProfile(f, name) \in EngineState  BY <1>2, <1>3, SwitchToProfileType
    <3>3. IsSwitch(name) => ~GestureActive(SwitchToProfile(f, name))
      BY <1>2, <1>3, SwitchToProfileOwners DEF GestureActive
    <3> QED BY <1>5, <3>1, <3>2, <3>3
  <2>6. CASE PressShortcut(kb, k)
    <3> DEFINE s == [g EXCEPT !.inputKeyPressed = FALSE]
    <3>1. s \in EngineState /\ Kept(g, s)
      BY ZenonT(60), <2>3 DEF EngineState, Kept
    <3>2. eng' = Forward(s)  BY <2>6 DEF PressShortcut, DeliverPress, g
    <3> HIDE DEF s
    <3> QED BY <1>5, <2>3, <3>1, <3>2, KeptPredicates
  <2>7. CASE PressLeader(kb, k)
    <3>1. eng' = HandleLeader(Settled, k) /\ Resort(HandleLeader(Settled, k))
      BY <2>7 DEF PressLeader, DeliverPress
    <3>2. HandleLeader(Settled, k).used = NoText
      BY <1>2, <2>2, <3>1, HandleLeaderUncounted
    <3> QED BY <1>4, <3>1, <3>2
  <2>8. CASE PressMapped(kb, k)
    <3> DEFINE v == umlautMap'[KeyText[k]]
    <3>1. /\ eng' = StartGesture(g, k, v)
          /\ KeyText[k] \in DOMAIN umlautMap /\ Resort(g)
      BY <2>8 DEF PressMapped, DeliverPress, g
    <3>2. KeyText[k] \in Inputs /\ v \in Seq(Variants)
      BY <1>2, <3>1, ResortMapped DEF Config, IsUmlautMap
    <3> HIDE DEF v
    <3> QED BY <1>2, <2>3, <3>1, <3>2, StartGestureTidy DEF Cycling
  <2>9. CASE PressOther(kb, k)
    <3> DEFINE s == [g EXCEPT !.consumedAltCode = NoKey]
               c == CommitText(s, k, KeyText[k])
    <3>1. s \in EngineState /\ Kept(g, s)
      <4>1. s \in EngineState  BY <2>3 DEF EngineState, NoKey
      <4> QED BY <2>3, <4>1, SettersKeep
    <3>2. eng' = Consume(c) \/ eng' = Forward(s)
      BY <2>9 DEF PressOther, DeliverPress, g
    <3> HIDE DEF s
    <3>3. c \in EngineState /\ Kept(s, c)
      BY <3>1, TextTypes, CommitTextType, CommitKeeps
    <3> HIDE DEF c
    <3> QED BY <1>5, <2>3, <3>1, <3>2, <3>3, KeptPredicates
  <2> QED BY <2>1, <2>4, <2>5, <2>6, <2>7, <2>8, <2>9 DEF Press
<1>7. CASE \E k \in Keys : Release(kb, k)
  <2>1. PICK k \in Keys : Release(kb, k)  BY <1>7
  <2>2. eng' = HandleRelease(k) /\ Resort(HandleRelease(k))
    BY <2>1 DEF Release, DeliverRelease
  <2>3. \/ HandleRelease(k) \in
              {Forward(f), Consume([f EXCEPT !.consumedAltCode = NoKey]),
               Consume(ClearCommitted(f))}
        \/ ReleaseGesture(k) /\ k = eng.waitingKeyCode
    BY DEF HandleRelease, ReleaseGesture, f
  <2>4. CASE ReleaseGesture(k)
    BY <1>1, <2>1, <2>4, OwnReleaseSettles DEF ReleaseGesture, GestureActive
  <2>5. ASSUME HandleRelease(k) \in
                 {Forward(f), Consume([f EXCEPT !.consumedAltCode = NoKey]),
                  Consume(ClearCommitted(f))}
        PROVE  HandleRelease(k).used = NoText
    BY <1>3, <2>5 DEF EngineState, Forward, Consume, ClearCommitted, ArmCommitted
  <2> QED BY <1>4, <2>2, <2>3, <2>4, <2>5
<1>8. CASE Repeat(kb)
  <2>1. UNCHANGED umlautMap
        \/ \E k \in Keys : eng' = HandleLeader(f, k) /\ Resort(HandleLeader(f, k))
    <3>1. rep[kb] \in Keys  BY <1>1, <1>8 DEF Repeat, Safe, TypeOK
    <3> QED BY <1>8, <3>1 DEF Repeat, RepeatOwnKey, RepeatLeader, RepeatCommitted, RepeatOther, f
  <2>2. ASSUME NEW k \in Keys, eng' = HandleLeader(f, k) PROVE HandleLeader(f, k).used = NoText
    BY <1>2, <1>3, <2>2, HandleLeaderUncounted
  <2> QED BY <1>4, <2>1, <2>2
<1>9. CASE Tick \/ Timers \/ FocusChanged \/ UNCHANGED vars
  BY <1>9 DEF Tick, Timers, WindowTimeout, AutoSelect, OverlayShow, OverlayHide, ProfileFlash,
              UsageFlush, FocusChanged, vars
<1>10. Unreliable = {}  BY DEF OneSteadyKeyboard
<1> QED BY <1>1, <1>6, <1>7, <1>8, <1>9, <1>10 DEF Next

\* And the panel follows the selection.
LEMMA MirrorsInvariant ==
  ASSUME OneSteadyKeyboard, OverlayKept, OverlayPreviews, OutputsExist
  PROVE  Spec /\ CyclesUndisturbed => []Mirrors(eng)
<1>1. Init => Mirrors(eng)  BY IdleTidy
<1>2. ASSUME Safe, Mirrors(eng), config \in GivenSettings, (config \in GivenSettings)',
             NonEmpty(umlautMap), [Next]_vars, [Undisturbed]_vars
      PROVE  Mirrors(eng)'
  <2>1. /\ config'.overlayEnabled = config.overlayEnabled
        /\ config'.showOnTrigger \/ config'.progressBar
             <=> config.showOnTrigger \/ config.progressBar
    BY <1>2 DEF OverlayKept, GivenSettings
  <2>2. Previewed
    BY <1>2 DEF Previewed, Enabled, Preview, OverlayPreviews, NonEmpty
  <2>3. CASE Reload
    <3>1. Kept(eng, eng') /\ Mirrors(eng')  BY <1>2, <2>1, <2>3, ReloadTidy, KeptPredicates
    <3>2. Cycling(eng') => VariantsFor(eng'.cyclingInput) = VariantsFor(eng.cyclingInput)'
      <4>1. CASE UNCHANGED vars  BY <4>1 DEF vars, VariantsFor
      <4>2. CASE Undisturbed
        BY <2>3, <3>1, <4>2 DEF Undisturbed, Kept, Cycling
      <4> QED BY <1>2, <4>1, <4>2
    <3> QED BY <2>1, <3>1, <3>2, SameSettings
  <2>4. CASE ~Reload
    <3>1. Mirrors(eng')  BY <1>2, <2>2, <2>4, StepTidy DEF Follows
    <3>2. Cycling(eng') => VariantsFor(eng'.cyclingInput) = VariantsFor(eng.cyclingInput)'
      BY <1>2, <2>4, CyclesKeepMappings DEF VariantsFor
    <3> QED BY <2>1, <3>1, <3>2, SameSettings
  <2> QED BY <2>3, <2>4
<1> QED BY <1>1, <1>2, SafeInvariant, SettingsGiven, MappedHasVariant, PTL
        DEF Spec, CyclesUndisturbed

\* The window and auto-select timers belong to the waiting key, whatever ends it.
THEOREM TimersFollowWaitingHolds ==
  ASSUME OneSteadyKeyboard PROVE Spec => []TimersFollowWaiting
<1>1. Timed(eng) => TimersFollowWaiting  BY DEF Timed, TimersFollowWaiting
<1> QED BY <1>1, TimedInvariant, PTL

\* The overlay never stays open after the gesture, whatever its settings, as long
\* as no reload changes them.
THEOREM PanelCloses ==
  ASSUME OneSteadyKeyboard, OverlayKept PROVE Spec => []PanelClosesWithGesture
<1>1. Closable(eng) => PanelClosesWithGesture  BY DEF Closable, Dark, PanelClosesWithGesture
<1> QED BY <1>1, ClosableInvariant, PTL

\* With a preview, the texts on the overlay while cycling are the variants letting
\* go chooses from, and the one highlighted is what it would commit, as long as no
\* reload changes the variants of the open cycle.
THEOREM OverlayMirrors ==
  ASSUME OneSteadyKeyboard, OverlayKept, OverlayPreviews, OutputsExist
  PROVE  Spec /\ CyclesUndisturbed => []OverlayMirrorsSelection
<1>1. Mirrors(eng) => OverlayMirrorsSelection
  BY DEF Mirrors, OverlayMirrorsSelection, Enabled, GestureActive
<1> QED BY <1>1, MirrorsInvariant, PTL

\* Letting go of the withheld key settles its gesture at once, whatever is armed.
THEOREM ReleaseSettlesHolds ==
  ASSUME OneSteadyKeyboard PROVE Spec => ReleaseSettles
<1>1. PICK one : Keyboards = {one}  BY DEF OneSteadyKeyboard
<1> DEFINE Step == \A kb \in Keyboards, k \in Keys :
                     /\ k \in down[kb] \ down'[kb]
                     /\ GestureActive(eng) /\ k = eng.waitingKeyCode
                     => ~GestureActive(eng)'
<1>2. Safe /\ [Next]_vars => [Step]_vars
  <2>1. SUFFICES ASSUME Safe, [Next]_vars, NEW kb \in Keyboards, NEW k \in Keys,
                        k \in down[kb] \ down'[kb],
                        GestureActive(eng), k = eng.waitingKeyCode
                 PROVE  ~GestureActive(eng')
    BY DEF GestureActive, Waiting, Cycling
  <2>2. Keyboards = {kb} /\ down \in [Keyboards -> SUBSET Keys]  BY <1>1, <2>1 DEF Safe, TypeOK
  <2>3. CASE \E c \in Keys : Press(kb, c)
    BY <2>1, <2>2, <2>3 DEF Press, PhysicalPress
  <2>4. CASE \E c \in Keys : Release(kb, c)
    <3>1. PICK c \in Keys : Release(kb, c)  BY <2>4
    <3>2. c = k  BY <2>1, <2>2, <3>1 DEF Release, PhysicalRelease
    <3> QED BY <2>1, <2>2, <3>1, <3>2, OwnReleaseSettles
  <2>5. UNCHANGED down
        \/ (\E c \in Keys : Press(kb, c)) \/ (\E c \in Keys : Release(kb, c))
    BY <2>1, <2>2 DEF Next, OneSteadyKeyboard, Repeat, Tick, Timers, WindowTimeout, AutoSelect,
                      OverlayShow, OverlayHide, ProfileFlash, UsageFlush, FocusChanged, Reload,
                      vars
  <2> QED BY <2>1, <2>3, <2>4, <2>5
<1> QED BY <1>2, SafeInvariant, PTL DEF Spec, ReleaseSettles
=============================================================================
