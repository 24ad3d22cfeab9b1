SPECIFICATION Spec
CONSTANTS
  MAX_LOCATION_T = MAX_LOCATION_T
  MaxElts = 3
  Modulus <- Scaled
  Macros <- ErrnoEtc
  Searches <- AllSearches
INVARIANTS TypeOK Exhausted OwnRecord Recognised
PROPERTY ImplementsFirstMatch
