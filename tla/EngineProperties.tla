-------------------------- MODULE EngineProperties --------------------------
(***************************************************************************)
(* What the gesture engine is meant to guarantee (module Engine).          *)
(***************************************************************************)
EXTENDS Engine

Commits == [code: Keys \cup {NoKey}, text: STRING]

EngineState ==
  [waitingKey: Inputs \cup {NoText}, waitingKeyCode: Keys \cup {NoKey},
   inputKeyPressed: BOOLEAN, elapsed: Nat,
   cyclingInput: Inputs \cup {NoText}, cyclingIndex: Nat,
   committedCode: Keys \cup {NoKey}, committedSuppressRepeats: BOOLEAN,
   consumedAltCode: Keys \cup {NoKey}, windowTimer: Nat, autoSelectTimer: Nat,
   overlayShowTimer: [due: Nat, input: Inputs \cup {NoText}, variants: Seq(Variants)],
   overlayHideTimer: BOOLEAN, profileFlashTimer: BOOLEAN, overlayVisible: BOOLEAN,
   panel: [kind: {"hidden", "profile", "variants"}, variants: Seq(Variants),
           index: Int],
   usageDirty: BOOLEAN, usageTimer: 0..2,
   out: Seq(Commits),
   decision: {"None", "Consume", "Forward", "Focus"}, used: Inputs \cup {NoText}]

\* Every member of the engine and of its surroundings has its type.
TypeOK ==
  /\ eng \in EngineState
  /\ config \in EngineConfig
  /\ IsUmlautMap(umlautMap)
  /\ active \in ProfileNames
  /\ down \in [Keyboards -> SUBSET Keys]
  /\ rep \in [Keyboards -> Keys \cup {NoKey}]
  /\ app \in [Keyboards -> SUBSET Keys]
  /\ lost \subseteq Keys

\* A gesture waits or cycles, never both (engine.cpp:238-239, "cycling and
\* waiting are mutually exclusive"): were both set, a commit would answer one
\* and lose the other.
OneGesture == ~(Waiting(eng) /\ Cycling(eng))

\* Whatever the engine will swallow the release of is a key that is physically
\* down and whose press the application never saw: the open gesture's key, the
\* committed key, the Alt used as leader.  A stale one would swallow the release
\* of a later, forwarded press.
Swallowed == {eng.committedCode, eng.consumedAltCode,
              IF GestureActive(eng) THEN eng.waitingKeyCode ELSE NoKey} \ {NoKey}
SwallowedAreHeld ==
  \A k \in Swallowed : \E kb \in Keyboards : k \in down[kb] \ app[kb]

\* No key stays pressed in the applications after it was let go: every release
\* of a forwarded press is forwarded too.
NoStuckKeys == \A kb \in Keyboards : app[kb] \subseteq down[kb]

\* Who owns a release: what OneGesture, SwallowedAreHeld and NoStuckKeys need to
\* be inductive.  A gesture has its key and that key is pressed; a committed key
\* is another one and was not pressed last; only Alt leaders are modifiers.
OwnerShape(s) ==
  /\ GestureActive(s) <=> s.waitingKeyCode # NoKey
  /\ GestureActive(s) <=> s.inputKeyPressed
  /\ \A k \in {s.waitingKeyCode, s.committedCode} \ {NoKey} : ~IsModifierSym(k)
  /\ s.consumedAltCode # NoKey => IsModifierSym(s.consumedAltCode)
  /\ GestureActive(s) => s.committedCode # s.waitingKeyCode
LastPressed(kb) ==
  rep[kb] # NoKey =>
    /\ rep[kb] \in down[kb]
    /\ GestureActive(eng) => rep[kb] # eng.committedCode
OneOwner == OwnerShape(eng) /\ \A kb \in Keyboards : LastPressed(kb)

\* The window and auto-select timers never outlive the waiting key, whatever ends
\* it, so neither can fire into a later gesture.
TimersFollowWaiting ==
  eng.windowTimer # NoTimer \/ eng.autoSelectTimer # NoTimer => Waiting(eng)

\* While cycling the texts on the panel are the variants a release chooses from,
\* with the one it would commit highlighted (HOW-IT-WORKS.md:66-67, "the optional
\* overlay mirrors the current selection on screen").
OverlayMirrorsSelection ==
  config.overlayEnabled /\ Cycling(eng)
    => eng.panel = Panel(VariantsFor(eng.cyclingInput), eng.cyclingIndex)

\* The overlay never stays open: with no gesture open it is hidden or one of
\* the two flash timers is still to hide it.
PanelClosesWithGesture ==
  eng.panel # Hidden
    => GestureActive(eng) \/ eng.overlayHideTimer \/ eng.profileFlashTimer

\* Rollover: when a key that is no modifier reaches the application, no earlier
\* key is still withheld, so text never overtakes text (engine.cpp:584-585).
RolloverCommitsFirst ==
  [][\A kb \in Keyboards, k \in Keys :
       k \in app'[kb] \ app[kb] /\ ~IsModifierSym(k) => ~GestureActive(eng)']_vars

\* What is committed at the end of a cycle is the text the overlay highlighted
\* when the key that ended it arrived.
CommitsHighlighted ==
  [][config.overlayEnabled /\ Cycling(eng) /\ eng'.out # <<>>
       => eng'.out[1].text = eng.panel.variants[eng.panel.index + 1]]_vars

\* Letting go of the withheld key settles its gesture at once
\* (HOW-IT-WORKS.md:53, "Same key released | the plain character").
ReleaseSettles ==
  [][\A kb \in Keyboards, k \in Keys :
       /\ k \in down[kb] \ down'[kb]
       /\ GestureActive(eng) /\ k = eng.waitingKeyCode
       => ~GestureActive(eng)']_vars

\* Every withheld press is answered by exactly one text, before anything typed
\* after it, and a press that was answered is never answered again (module
\* WithheldPress).
AnswersOf ==
  [k \in Keys |->
     {KeyText[k]} \cup
     UNION {{m[KeyText[k]][i] : i \in DOMAIN m[KeyText[k]]} :
              m \in {n \in {ProfileMap[p] : p \in ProfileNames} : KeyText[k] \in DOMAIN n}}]

Withheld ==
  INSTANCE WithheldPress
    WITH Answers <- AnswersOf,
         pending <- IF GestureActive(eng) THEN eng.waitingKeyCode ELSE NoKey,
         out     <- eng.out,
         focus   <- eng.decision = "Focus"

AnswersEveryPress == Withheld!Spec

\* What module Daemon knows of the engine: the releases it will consume, its
\* window timer, and whether the last step committed a text (which would find the
\* compositor gone, were it gone).
Gone == TRUE
Loop == INSTANCE KeyAnswers
          WITH Letters <- {k \in Keys : IsModifierSym(k) => IsAltLeaderSym(k)}
WindowSeen(s) == CASE s.windowTimer = NoTimer -> "off"
                   [] s.windowTimer # NoTimer /\ s.elapsed < s.windowTimer -> "armed"
                   [] OTHER -> "due"
Seen(s) ==
  [owned    |-> {s.committedCode, s.consumedAltCode,
                 IF GestureActive(s) THEN s.waitingKeyCode ELSE NoKey} \ {NoKey},
   window   |-> WindowSeen(s),
   sinkDead |-> s.out # <<>>]
Before == Seen(Fresh(eng))
Reacts(k, value) ==
  [d |-> Seen(eng'), consumed |-> eng'.decision = "Consume"]
    \in Loop!EngineKey(Before, [key |-> k, value |-> value], Gone)

\* The engine gives the daemon's loop no answer that module KeyAnswers does not
\* allow: a press takes over no release but its own, a release is consumed exactly
\* if it was taken over (engine.cpp:478-597, 704-771), and what happens beside the
\* keys takes over none.
LoopSeesAll ==
  [][/\ \A kb \in Keyboards, k \in Keys :
          /\ Press(kb, k) => Reacts(k, "press")
          /\ Release(kb, k) => Reacts(k, "release")
          /\ rep[kb] = k /\ Repeat(kb) => Reacts(k, "repeat")
     /\ WindowTimeout
          => Seen(eng') \in Loop!EngineTimeout([Before EXCEPT !.window = "off"], Gone)
     /\ FocusChanged => Seen(eng') = [Before EXCEPT !.owned = {}, !.window = "off"]
     /\ Tick \/ AutoSelect \/ OverlayShow \/ OverlayHide \/ ProfileFlash
          \/ UsageFlush \/ Reload
          => Seen(eng').owned = Before.owned /\ eng'.out = <<>>]_vars

\* A withheld key whose window runs does not wait for ever, even if it is held and
\* no other key comes, its release never arrives or the settings are reloaded: it
\* is answered or the gesture is no longer waiting.  The exception is a reload
\* that removes its mapping (engine.cpp:336: automatic selection then cancels the
\* window timer and selects nothing).
WaitingEnds ==
  eng.windowTimer # NoTimer
    ~> \/ eng.out # <<>> \/ ~Waiting(eng)
       \/ VariantsFor(eng.waitingKey) = <<>>

\* The profile name shown after a switch goes away again.
ProfileFlashEnds == eng.panel = Profile ~> eng.panel # Profile

\* Counted commits reach the disk.
UsageIsFlushed == eng.usageDirty ~> ~eng.usageDirty
=============================================================================
