\* The engine's profile switch against the editor's change of the list.
SPECIFICATION EditorSpec
CONSTANTS
  Parts = {"profiles"}
  Names = {"Standard", "Work", "Work!", "Greek"}
  Slugs = {"std", "work"}
  SlugOf <- MCSlugOf
  Combos = {"k1"}
  Presets <- MCPresets
  MaxEdits = 2
  MaxSwitches = 1
  MaxOpens = 2
  MaxProfiles = 3
  MaxSuffix = 3
  Inputs = {"a", "b"}
  Values = {"x", "y"}
  ProfileFiles = {"profiles/p"}
  Defaults <- MCDefaults
  Contents <- MCContents
  MappingFaults = {"write"}
  MaxListEdits = 2
  MaxOuts = 2
  BuiltIn = {"space"}
  Codes = {9}
  Layouts = {"de"}
  SettingsFaults = {"write"}
  MaxPageEdits = 2
  MaxLives = 1
  MaxPauses = 1
  Chars <- MCChars
  MaxText = 3
PROPERTIES
  OnlyEditorEditsTheList
CHECK_DEADLOCK FALSE
