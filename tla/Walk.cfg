SPECIFICATION Spec
CONSTANTS
  NULL = NULL
  MAX_LOCATION_T = MAX_LOCATION_T
  ONE = ONE
  TWO = TWO
  Names = {ONE, TWO}
  MaxParts = 3
  Bodies <- AnyFunctions
INVARIANTS TypeOK AllFound NoCrash PrevIsDecl Loud
PROPERTY RetryOrder
