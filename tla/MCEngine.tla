------------------------------ MODULE MCEngine ------------------------------
(***************************************************************************)
(* Finite instances of the gesture engine.  Keys are real evdev codes:     *)
(* A 30 (several variants), S 31 (one variant), X 45 (not mapped), Space   *)
(* 57, left Ctrl 29, left Alt 56, right Alt 100.                           *)
(***************************************************************************)
EXTENDS EngineProperties, TLC

MCModOf == [k \in Keys |-> CASE k = 29 -> "Ctrl" [] k = 56 -> "Alt"
                             [] k = 100 -> "AltGr" [] OTHER -> ""]
MCKeyText == [k \in Keys |-> CASE k = 30 -> "a" [] k = 31 -> "s" [] k = 45 -> "x"
                               [] k = 57 -> " " [] OTHER -> ""]
MCLeftHand == Keys \cap {29, 30, 31, 45, 56}
MCVariants == {"ae", "aacute", "sz"}
NoKeys == [k \in Keys |-> ""]

\* Two variants for a, one for s; the second profile has only a, with one.
Umlauts == "a" :> <<"ae", "aacute">> @@ "s" :> <<"sz">>
MCProfileMap == "umlauts" :> Umlauts @@ "other" :> ("a" :> <<"aacute">>)
MCProfileList == <<[name |-> "umlauts", favorite |-> FALSE],
                   [name |-> "other", favorite |-> FALSE]>>
CtrlX == [k \in Keys |-> IF k = 45 THEN "next" ELSE ""]
CtrlSpace == [k \in Keys |-> IF k = 57 THEN "next" ELSE ""]

\* Window from 1 to 2 ticks, for s up to 1, Space the leader, everything optional off.
Base ==
  [delay |-> [lowercase |-> 2, uppercase |-> 1, lowercaseMin |-> 1,
              uppercaseMin |-> 0, unlimited |-> FALSE],
   leader |-> [alt |-> FALSE, altGr |-> FALSE, builtIn |-> {57} \cap Keys,
               custom1 |-> NoKey, custom2 |-> NoKey, reverse |-> {}],
   whitelist |-> FALSE, overlayEnabled |-> FALSE, showOnTrigger |-> FALSE,
   progressBar |-> FALSE, sortByFrequency |-> FALSE, autoSelect |-> FALSE,
   autoSelectMs |-> 2, leaderAutoRepeat |-> FALSE]

BaseOnly == {Base}

\* Alt and AltGr as leaders, Alt stepping backwards, also by its repeats.
Alts == [Base EXCEPT !.leader.alt = TRUE, !.leader.altGr = TRUE,
                     !.leader.reverse = {56}, !.delay.lowercaseMin = 0,
                     !.leaderAutoRepeat = TRUE]

\* Every kind of leader: Space, also stepping backwards, also by its repeats;
\* Alt and AltGr; custom leaders that split the keyboard in halves (A left,
\* Space right).  Three have the overlay preview: as a timing bar, as a trigger
\* overlay after the minimum hold, and as one that shows at once (a minimum as
\* long as the window counts as none).
Trigger == [Base EXCEPT !.overlayEnabled = TRUE, !.showOnTrigger = TRUE]
TypingConfigs ==
  {Base,
   [Trigger EXCEPT !.progressBar = TRUE, !.delay.unlimited = TRUE, !.autoSelect = TRUE],
   [Trigger EXCEPT !.autoSelect = TRUE, !.autoSelectMs = 1, !.leaderAutoRepeat = TRUE,
                   !.leader.reverse = {57}],
   [Trigger EXCEPT !.delay.lowercaseMin = 2],
   Alts,
   [Base EXCEPT !.leader.custom1 = 30, !.leader.custom2 = 57, !.leader.builtIn = {},
                !.autoSelect = TRUE, !.leaderAutoRepeat = TRUE]}

\* Frequency sorting with a short window; reloads that switch it off and the app
\* filter to a whitelist, and back with the other profile, and one that selects
\* automatically and no longer maps a.
Sorting == [Base EXCEPT !.sortByFrequency = TRUE, !.delay.lowercase = 1,
                        !.delay.lowercaseMin = 0]
SortingConfigs == {Sorting}
MidGestureReloads ==
  {[config |-> [Base EXCEPT !.autoSelect = TRUE, !.autoSelectMs = 1], active |-> "umlauts",
    map |-> "s" :> <<"sz">>],
   [config |-> [Base EXCEPT !.whitelist = TRUE], active |-> "umlauts", map |-> Umlauts],
   [config |-> Sorting, active |-> "other", map |-> MCProfileMap["other"]]}
=============================================================================
