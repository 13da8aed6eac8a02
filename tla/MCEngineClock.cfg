\* The clock under faults: withheld keys, profile flash and usage counts, with keyboards
\* that disappear or drop events and reloads in the middle of a gesture.
SPECIFICATION FairSpec
CONSTANTS
  Keyboards = {kb1}
  Keys = {29, 30, 57}
  ModOf <- MCModOf
  LeftHand <- MCLeftHand
  UppercaseInputs = {"s"}
  KeyText <- MCKeyText
  Inputs = {"a", "s"}
  Variants <- MCVariants
  ProfileList <- MCProfileList
  ProfileMap <- MCProfileMap
  Shortcuts <- CtrlSpace
  Configs <- SortingConfigs
  Reloads <- MidGestureReloads
  Unreliable = {kb1}
  MaxDown = 2
  MaxElapsed = 1
PROPERTIES
  WaitingEnds
  ProfileFlashEnds
  UsageIsFlushed
