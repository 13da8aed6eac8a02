\* One keyboard and what the handler does with its keys.
SPECIFICATION Spec
CONSTANTS
  Paths = {event3}
  FirstPath = event3
  LeftShift = LeftShift
  RightShift = RightShift
  PauseKey = PauseKey
  Letters = {a}
  Settings = {0}
  Scenes <- KeyScenes
  MaxBuffer = 3
  Races = {"keys", "edit"}
INVARIANTS
  DaemonTypeOK
  NoKeyLeftBehind
  PausedIsQuiet
CHECK_DEADLOCK FALSE
