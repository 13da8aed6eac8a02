\* The life of the daemon: startup, hotplug, reloads, exits.
SPECIFICATION FairSpec
CONSTANTS
  Paths = {event3, event4}
  FirstPath = event3
  LeftShift = LeftShift
  RightShift = RightShift
  PauseKey = PauseKey
  Letters = {a}
  Settings = {0, 1}
  Scenes <- LoopScenes
  MaxBuffer = 2
  Races = {}
INVARIANTS
  StartupVerdict
PROPERTIES
  KeyboardsGetGrabbed
  DeadSinkRestarts
  ReloadConverges
CHECK_DEADLOCK FALSE
