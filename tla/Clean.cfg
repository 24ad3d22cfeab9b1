SPECIFICATION FairSpec
CONSTANTS
  ONE = ONE
  TWO = TWO
  Names = {ONE, TWO}
  NULL = NULL
  MAX_LOCATION_T = MAX_LOCATION_T
  Locations <- SmallLocations
  MaxUses = 2
  Forms = {"exact", "unrelated"}
  Copies = {0, 1}
  Shapes = {"plain", "unfolded"}
  Readings <- TrueReadings
  Hooks <- FreeHooks
  Langs = {"C"}
  Quirks = {}
INVARIANTS RecordingOn Sound
PROPERTY Settles
