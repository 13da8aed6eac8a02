------------------------------ MODULE MCDaemon ------------------------------
(***************************************************************************)
(* Finite instances of the daemon.                                         *)
(***************************************************************************)
EXTENDS DaemonProperties, TLC

\* The first keyboard from the start, and nothing happens.
CONSTANT FirstPath
Quiet == [plugged |-> {FirstPath}, fate |-> [p \in Paths |-> "free"],
          keys |-> 0, drops |-> 0, plugs |-> 0, unplugs |-> 0, edits |-> 0,
          calls |-> 0, signals |-> 0, crashes |-> 0]

\* Typing, with a pause, an edit or the end of the compositor in between (no lost
\* events: then a release that never came stays owned).
KeyScenes ==
  {[Quiet EXCEPT !.keys = 3, !.crashes = 1],
   [Quiet EXCEPT !.keys = 3, !.calls = 1],
   [Quiet EXCEPT !.keys = 2, !.edits = 1]}

\* Keyboards that are there, or come and go; some cannot be grabbed.
Hotplug(there, f) ==
  [Quiet EXCEPT !.plugged = there, !.fate = f, !.plugs = 1, !.unplugs = 1]

\* Reloads, lost events, and ways to end.
LoopScenes ==
  {Hotplug(there, f) : there \in SUBSET Paths,
                       f \in [Paths -> {"free", "rival", "clone"}]}
  \cup {[Quiet EXCEPT !.edits = 2, !.calls = 1],
        [Quiet EXCEPT !.keys = 2, !.calls = 1],
        [Quiet EXCEPT !.signals = 1],
        [Quiet EXCEPT !.keys = 1, !.drops = 1],
        [Quiet EXCEPT !.keys = 1, !.calls = 1, !.crashes = 1]}

\* Single faults.
ReloadScenes == {[Quiet EXCEPT !.edits = 1, !.calls = 1]}
TypingScenes == {[Quiet EXCEPT !.keys = 1]}
=============================================================================
