SPECIFICATION FairSpec
CONSTANTS
  MaxLen = 4
  NULL = NULL
  Bodies <- ShallowBodies
  Values = {0, 1, 2, 3}
  Meaning <- SomeMeaning
INVARIANT TypeOK
PROPERTY ImplementsSwitch
