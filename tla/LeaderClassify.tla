--------------------------- MODULE LeaderClassify ---------------------------
(***************************************************************************)
(* Which key is a leader, which way it steps, and whether a custom leader  *)
(* may act on a key (src/src/engine/leader_classify.h and keysyms.h).      *)
(*                                                                         *)
(* A key is an evdev code.  Its keysym is abstracted to the two facts the  *)
(* classification reads: the modifier it is (ModOf, "" for none) and, for  *)
(* Space and the arrows, membership in the enabled set leader.builtIn.     *)
(* A leader record has the fields alt, altGr (BOOLEAN), builtIn (a set of  *)
(* keys), custom1, custom2 (a key or NoKey) and reverse (the keys whose    *)
(* leader steps backwards).                                                *)
(***************************************************************************)
EXTENDS Integers

CONSTANTS
  Keys,      \* evdev key codes
  ModOf,     \* the modifier each key is: "Shift", "Ctrl", "Alt", "AltGr", "Super" or ""
  LeftHand   \* the keys on the left half of the keyboard

\* kNoKeyCode: evdev code 0 is no key.
NoKey == 0

ASSUME KeysAssumption ==
  /\ Keys \subseteq Nat \ {NoKey}
  /\ ModOf \in [Keys -> {"", "Shift", "Ctrl", "Alt", "AltGr", "Super"}]
  /\ LeftHand \subseteq Keys

IsModifierSym(k)  == ModOf[k] # ""
IsAltSym(k)       == ModOf[k] = "Alt"
IsAltGrSym(k)     == ModOf[k] = "AltGr"
IsAltLeaderSym(k) == IsAltSym(k) \/ IsAltGrSym(k)

LeaderTypes == {"None", "BuiltIn", "Custom1", "Custom2"}

\* classifyLeader: Alt and AltGr win over the custom codes, those over Space
\* and the arrows.
ClassifyLeader(leader, k) ==
  IF (leader.alt /\ IsAltSym(k)) \/ (leader.altGr /\ IsAltGrSym(k)) THEN "BuiltIn"
  ELSE IF leader.custom1 = k THEN "Custom1"
  ELSE IF leader.custom2 = k THEN "Custom2"
  ELSE IF k \in leader.builtIn THEN "BuiltIn" ELSE "None"

LeaderStep(leader, k) == IF k \in leader.reverse THEN -1 ELSE 1

\* Two custom leaders on opposite halves split the keyboard: each acts only on
\* inputs of the other half.
IsDualCustomAllowed(leader, type, inputKey) ==
  LET split == /\ leader.custom1 # NoKey
               /\ leader.custom2 # NoKey
               /\ (leader.custom1 \in LeftHand) # (leader.custom2 \in LeftHand)
      own   == IF type = "Custom1" THEN leader.custom1 ELSE leader.custom2
  IN  \/ type \in {"None", "BuiltIn"}
      \/ ~split
      \/ inputKey = NoKey
      \/ (own \in LeftHand) # (inputKey \in LeftHand)
=============================================================================
