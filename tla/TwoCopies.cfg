SPECIFICATION Spec
CONSTANTS
  ONE = ONE
  TWO = TWO
  Names = {ONE}
  NULL = NULL
  MAX_LOCATION_T = MAX_LOCATION_T
  Locations <- TwoLines
  MaxUses = 2
  Forms = {"exact"}
  Copies = {2}
  Shapes = {"plain"}
  Readings <- TrueReadings
  Hooks <- FreeHooks
  Langs = {"C"}
  Quirks = {}
INVARIANT Sound
