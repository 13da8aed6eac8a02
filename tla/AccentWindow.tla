---------------------------- MODULE AccentWindow ----------------------------
(***************************************************************************)
(* The accent window of one held key (src/src/engine/accent_window.h).     *)
(* A delay record has the fields of DelayConfig: lowercase, uppercase (the *)
(* upper bounds), lowercaseMin, uppercaseMin (the minimum holds) and       *)
(* unlimited.  Times are in ticks of one unit; the code compares whole     *)
(* milliseconds, so a tick is any number of them.                          *)
(***************************************************************************)
EXTENDS Naturals

\* The texts xkbcommon (or ASCII) classifies as one uppercase character.
CONSTANT UppercaseInputs

IsUppercaseInput(input) == input \in UppercaseInputs

\* The window that applies to an input.  A minimum at or above the maximum is
\* ignored, but only while there is a maximum to collide with.
EffectiveWindow(delay, input) ==
  LET up      == IsUppercaseInput(input)
      max     == IF up THEN delay.uppercase ELSE delay.lowercase
      minHold == IF up THEN delay.uppercaseMin ELSE delay.lowercaseMin
  IN  [max       |-> max,
       min       |-> IF ~delay.unlimited /\ minHold >= max THEN 0 ELSE minHold,
       unlimited |-> delay.unlimited]

\* A leader this early is plain typing.
IsBeforeMinHold(w, elapsed) == w.min > 0 /\ elapsed < w.min

\* A leader this late no longer triggers.  At elapsed = max the window timer is
\* already due while the window is not yet expired.
IsWindowExpired(w, elapsed) == ~w.unlimited /\ elapsed > w.max
=============================================================================
