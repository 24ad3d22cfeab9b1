SPECIFICATION Spec
CONSTANTS
  ONE = ONE
  TWO = TWO
  Names = {ONE}
  NULL = NULL
  MAX_LOCATION_T = MAX_LOCATION_T
  Locations <- TwoLines
  MaxUses = 2
  Forms = {"exact"}
  Copies = {0, 1}
  Shapes = {"plain"}
  Readings <- TrueReadings
  Hooks <- DefineTaken
  Langs = {"C"}
  Quirks = {}
INVARIANT RecordingOn
