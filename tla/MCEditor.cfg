\* The editor's models and the engine's side of their files, each on its own.
SPECIFICATION EditorSpec
CONSTANTS
  Parts = {"profiles", "mappings", "settings", "codec"}
  Names = {"Standard", "Work", "Work!", "Greek"}
  Slugs = {"std", "work"}
  SlugOf <- MCSlugOf
  Combos = {"k1"}
  Presets <- MCPresets
  MaxEdits = 2
  MaxSwitches = 1
  MaxOpens = 2
  MaxProfiles = 3
  MaxSuffix = 3
  Inputs = {"a", "b"}
  Values = {"x", "y"}
  ProfileFiles = {"profiles/p"}
  Defaults <- MCDefaults
  Contents <- MCContents
  MappingFaults = {"write"}
  MaxListEdits = 2
  MaxOuts = 2
  BuiltIn = {"space"}
  Codes = {9}
  Layouts = {"de"}
  SettingsFaults = {"write"}
  MaxPageEdits = 2
  MaxLives = 1
  MaxPauses = 1
  Chars <- MCChars
  MaxText = 3
INVARIANTS
  EditorTypeOK
  ListsAreSound
  QuietSidesAgree
  PageIsTrue
  LeaderRemains
  PauseShown
  TextSurvives
PROPERTIES
  DragsKeepVariants
CHECK_DEADLOCK FALSE
