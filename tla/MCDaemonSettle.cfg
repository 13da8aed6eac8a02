\* A key typed while the clone settles.
SPECIFICATION Spec
CONSTANTS
  Paths = {event3}
  FirstPath = event3
  LeftShift = LeftShift
  RightShift = RightShift
  PauseKey = PauseKey
  Letters = {a}
  Settings = {0}
  Scenes <- TypingScenes
  MaxBuffer = 1
  Races = {}
PROPERTIES
  HandledOnce
CHECK_DEADLOCK FALSE
