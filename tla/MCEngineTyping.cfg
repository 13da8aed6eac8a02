\* One keyboard, typing: two mapped keys, a plain key, Space, Ctrl and both Alts,
\* with and without the overlay.
SPECIFICATION Spec
CONSTANTS
  Keyboards = {kb1}
  Keys = {29, 30, 31, 45, 56, 57, 100}
  ModOf <- MCModOf
  LeftHand <- MCLeftHand
  UppercaseInputs = {"s"}
  KeyText <- MCKeyText
  Inputs = {"a", "s"}
  Variants <- MCVariants
  ProfileList <- MCProfileList
  ProfileMap <- MCProfileMap
  Shortcuts <- CtrlX
  Configs <- TypingConfigs
  Reloads = {}
  Unreliable = {}
  MaxDown = 3
  MaxElapsed = 3
INVARIANTS
  TypeOK
  OneGesture
  SwallowedAreHeld
  NoStuckKeys
  TimersFollowWaiting
  OverlayMirrorsSelection
  PanelClosesWithGesture
PROPERTIES
  RolloverCommitsFirst
  AnswersEveryPress
  LoopSeesAll
  CommitsHighlighted
