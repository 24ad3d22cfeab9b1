SPECIFICATION Spec
CONSTANTS
  MAX_LOCATION_T = MAX_LOCATION_T
  MaxElts = 2
  Modulus <- Scaled
  Macros <- WithBaud
  Searches <- DesignatedSearch
INVARIANT OwnRecord
