SPECIFICATION Spec
CONSTANTS
  ONE = ONE
  TWO = TWO
  Names = {ONE, TWO}
  NULL = NULL
  MAX_LOCATION_T = MAX_LOCATION_T
  Locations <- SmallLocations
  MaxUses = 2
  Forms = {"exact"}
  Copies = {0, 2}
  Shapes = {"plain", "negated"}
  Readings <- AllReadings
  Hooks <- AnyHooks
  Langs = {"C", "ASM"}
  Quirks = {"block_static", "static_again", "columns_lost"}
INVARIANTS TypeOK Accounting CountersAgree FilterComplete HooksRestored
PROPERTY ImplementsLedger
