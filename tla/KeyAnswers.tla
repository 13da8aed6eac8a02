----------------------------- MODULE KeyAnswers -----------------------------
(***************************************************************************)
(* The gesture engine as the daemon's loop sees it: the answers it may give *)
(* to a key event, and what becomes of the three things of the daemon's    *)
(* record d that depend on it: owned, the keys whose release it will       *)
(* consume; window, its window timer; sinkDead, that a commit found the    *)
(* compositor gone.                                                        *)
(*                                                                         *)
(* Module Daemon runs it in the place of the engine; module EngineAnswers  *)
(* proves that module Engine gives no other answer, as long as there is    *)
(* one keyboard that loses no event and no app filter.                     *)
(***************************************************************************)
CONSTANT
  Letters        \* keys whose press the engine may consume

\* A commit notices that the display server is gone.
Commit(d, gone) == [d EXCEPT !.sinkDead = @ \/ gone]

\* The engine's answers to an event: the record afterwards, and whether it
\* consumed the event.
Answers(ds, consumed) == {[d |-> x, consumed |-> consumed] : x \in ds}

\* Releases handed back to the application.
Owning(d, o) == [d EXCEPT !.owned = o]

\* With a release to consume there may be a gesture to commit, and whatever comes
\* next may hand releases back (a rollover that of the old key).
Ends(d, gone) ==
  LET off == [d EXCEPT !.window = "off"]
  IN  {d} \cup (IF d.owned = {} THEN {} ELSE {off, Commit(off, gone)})
MaySettle(d, gone) == {Owning(x, o) : x \in Ends(d, gone), o \in SUBSET d.owned}

\* Withholding a key, or stepping with a leader, starts, keeps or ends the window;
\* so does letting go, for a release may be that of another gesture's key.
Windows(d) == {[d EXCEPT !.window = w] : w \in {d.window, "armed", "off"}}
Withhold(d, k) == Windows([d EXCEPT !.owned = @ \cup {k}])
LetGo(d, k) == Windows([d EXCEPT !.owned = @ \ {k}])

\* A consumed press need not be withheld: the next profile, a leader.
EngineKey(d, e, gone) ==
  LET settled  == MaySettle(d, gone)
      stepped  == UNION {Windows(x) : x \in settled}
      withheld == UNION {Withhold(x, e.key) : x \in settled}
  IN  CASE e.value = "press" ->
             Answers(settled, FALSE)
             \cup Answers(IF e.key \in Letters THEN stepped \cup withheld ELSE {}, TRUE)
        [] e.value = "repeat" -> Answers(settled, FALSE) \cup Answers(stepped, TRUE)
        [] e.value = "release" ->
             IF e.key \notin d.owned THEN Answers({d}, FALSE)
             ELSE Answers(UNION {LetGo(x, e.key) : x \in {d, Commit(d, gone)}}, TRUE)

\* The window timer commits what waits; the key that was committed before may be
\* forgotten.
EngineTimeout(d, gone) ==
  {Owning(x, o) : x \in {d, Commit(d, gone)}, o \in SUBSET d.owned}
=============================================================================
