SPECIFICATION Spec
CONSTANTS
  NULL = NULL
  MAX_LOCATION_T = MAX_LOCATION_T
  ONE = ONE
  TWO = TWO
  Names = {ONE, TWO}
  MaxParts = 1
  Bodies <- StaticFunctions
INVARIANT Loud
