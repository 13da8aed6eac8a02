\* A pause from the tray and a reload.
SPECIFICATION Spec
CONSTANTS
  Paths = {event3}
  FirstPath = event3
  LeftShift = LeftShift
  RightShift = RightShift
  PauseKey = PauseKey
  Letters = {}
  Settings = {0, 1}
  Scenes <- ReloadScenes
  MaxBuffer = 1
  Races = {}
PROPERTIES
  ReloadKeepsPause
CHECK_DEADLOCK FALSE
