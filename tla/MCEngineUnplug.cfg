\* A keyboard that disappears while a committed key is held.
SPECIFICATION Spec
CONSTANTS
  Keyboards = {kb1}
  Keys = {29, 30, 57}
  ModOf <- MCModOf
  LeftHand <- MCLeftHand
  UppercaseInputs = {"s"}
  KeyText <- MCKeyText
  Inputs = {"a", "s"}
  Variants <- MCVariants
  ProfileList <- MCProfileList
  ProfileMap <- MCProfileMap
  Shortcuts <- NoKeys
  Configs <- BaseOnly
  Reloads = {}
  Unreliable = {kb1}
  MaxDown = 3
  MaxElapsed = 4
INVARIANTS
  NoStuckKeys
