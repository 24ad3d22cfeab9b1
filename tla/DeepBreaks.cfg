SPECIFICATION Spec
CONSTANTS
  MaxLen = 4
  NULL = NULL
  Bodies <- DeepBodies
  Values = {0, 1, 2, 3}
  Meaning <- SomeMeaning
INVARIANT BreaksReachEnd
