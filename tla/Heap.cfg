SPECIFICATION Spec
CONSTANTS
  NULL = NULL
  MAX_LOCATION_T = MAX_LOCATION_T
  ONE = ONE
  Addresses = {a, b, c}
  Records <- SomeRecords
  Starts <- SomeStarts
INVARIANTS TypeOK NoFault NoLeak
PROPERTIES LoopsEnd ImplementsList
