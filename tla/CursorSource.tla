----------------------------- MODULE CursorSource -----------------------------
(***************************************************************************)
(* What every cursor source promises the overlay renderer                  *)
(* (src/src/overlay/CursorSource.h): each query is answered exactly once,  *)
(* with the pointer or with nothing.  A new query may give up the one      *)
(* before.                                                                 *)
(***************************************************************************)
EXTENDS Naturals, Sequences

VARIABLE answers    \* per query in order: "waiting", "pointer", "nothing" or "dropped"

Init == answers = <<>>

\* No answer is ever taken back or given twice.
Kept(before, after) ==
  \A i \in DOMAIN before : before[i] \in {"waiting", after[i]}

GetCursor ==
  /\ Len(answers') = Len(answers) + 1
  /\ Kept(answers, answers')

Answer ==
  /\ Len(answers') = Len(answers)
  /\ Kept(answers, answers')

Next == GetCursor \/ Answer

\* Nobody waits for ever.
Answered == \A i \in DOMAIN answers : answers[i] # "waiting"

Spec == Init /\ [][Next]_answers /\ []<>Answered
=============================================================================
