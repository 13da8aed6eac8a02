\* The focus moves from a text to a widget without one, no call fails.
SPECIFICATION FocusSpec
CONSTANTS
  Apps = {"A", "B"}
  TextApps = {"A"}
  FocusFaults = {}
  MaxMoves = 1
  MaxEvents = 1
  MaxFocus = 4
INVARIANTS
  NoCaretWithoutText
CHECK_DEADLOCK FALSE
