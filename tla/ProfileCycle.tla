---------------------------- MODULE ProfileCycle ----------------------------
(***************************************************************************)
(* The profile cycle shortcut (src/src/core/profile_cycle.h).              *)
(* A profile entry has the fields name and favorite.                       *)
(***************************************************************************)
EXTENDS Integers, Sequences

\* The entries the shortcut steps through: the favorites if there is one,
\* otherwise all of them, in list order.
CycleEntries(entries) ==
  LET IsFavorite(e) == e.favorite
      favorites     == SelectSeq(entries, IsFavorite)
  IN  IF favorites = <<>> THEN entries ELSE favorites

\* First position of a name in a list, 0 when it is absent.
FirstIndex(list, name) ==
  LET at == {i \in DOMAIN list : list[i].name = name}
  IN  IF at = {} THEN 0 ELSE CHOOSE i \in at : \A j \in at : i <= j

\* One step from the active profile, wrapping around; from outside the list it
\* enters at the first (next) or last (previous) entry.  "" for an empty list.
CycleTarget(list, active, delta) ==
  LET n   == Len(list)
      idx == FirstIndex(list, active)
  IN  IF n = 0 THEN ""
      ELSE IF idx = 0 THEN list[IF delta > 0 THEN 1 ELSE n].name
      ELSE list[((idx - 1 + delta) % n) + 1].name
=============================================================================
