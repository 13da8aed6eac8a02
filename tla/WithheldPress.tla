---------------------------- MODULE WithheldPress ----------------------------
(***************************************************************************)
(* What the gesture engine promises the person typing, with no clock, no   *)
(* leader and no overlay: at most one key press is withheld at a time, and *)
(* every withheld press is answered by exactly one text, either its plain  *)
(* character or one of its variants, before anything typed after it.  A    *)
(* text needs a press of its own: the only one that may be answered again  *)
(* is a key that is still held, withheld anew by its auto-repeat.  Only a  *)
(* focus change may discard a press.                                       *)
(***************************************************************************)
EXTENDS Sequences

CONSTANTS
  Keys, NoKey,
  Keyboards,
  Answers       \* the texts each key's press may be answered with

VARIABLES
  down,         \* the keys physically down, per keyboard
  rep,          \* the key that auto-repeats, per keyboard
  pending,      \* the withheld key, NoKey for none
  out,          \* the texts the last step committed, in order
  focus         \* whether the last step was a focus change

vars == <<down, rep, pending, out, focus>>

Init ==
  /\ down = [kb \in Keyboards |-> {}]
  /\ rep = [kb \in Keyboards |-> NoKey]
  /\ pending = NoKey
  /\ out = <<>>
  /\ focus = FALSE

\* This step presses k, or may be the auto-repeat of k.
Pressed(k) == \E kb \in Keyboards : k \in down'[kb] \ down[kb]
Repeated(k) == down' = down /\ \E kb \in Keyboards : rep[kb] = k

\* What may settle the pending press: one text if there is one, else nothing.
Settlements ==
  IF pending = NoKey THEN {<<>>}
  ELSE {<<[code |-> pending, text |-> t]>> : t \in Answers[pending]}

\* A key's press is withheld, after the one before it was answered.
Withhold(k) ==
  /\ Pressed(k) /\ k # pending
  /\ out' \in Settlements
  /\ pending' = k
  /\ focus' = FALSE

\* A key whose press was answered repeats and is withheld once more.
WithholdAgain(k) ==
  /\ Repeated(k) /\ pending = NoKey
  /\ out' = <<>>
  /\ pending' = k
  /\ focus' = FALSE

\* The withheld press is answered and nothing else is withheld.
Answer ==
  /\ pending # NoKey
  /\ out' \in Settlements
  /\ pending' = NoKey
  /\ focus' = FALSE

\* The text of a press past the gesture comes after the answer it waited for.
Direct(k) ==
  /\ Pressed(k) /\ k # pending
  /\ \E settled \in Settlements, t \in Answers[k] :
        out' = Append(settled, [code |-> k, text |-> t])
  /\ pending' = NoKey
  /\ focus' = FALSE

\* Nothing is committed and what is pending stays so.
Quiet ==
  /\ out' = <<>>
  /\ focus' = FALSE
  /\ UNCHANGED pending

FocusChange ==
  /\ pending' = NoKey
  /\ out' = <<>>
  /\ focus' = TRUE

Next ==
  /\ down' \in [Keyboards -> SUBSET Keys]
  /\ rep' \in [Keyboards -> Keys \cup {NoKey}]
  /\ \/ \E k \in Keys : Withhold(k) \/ WithholdAgain(k) \/ Direct(k)
     \/ Answer
     \/ Quiet
     \/ FocusChange

Spec == Init /\ [][Next]_vars
=============================================================================
