SPECIFICATION Spec
CONSTANTS
  NULL = NULL
  MAGIC = MAGIC
  ONE = ONE
  TWO = TWO
  GLOBAL = GLOBAL
  EARLY = EARLY
  LATE = LATE
  Main = MAIN
  Globals = {GLOBAL}
  Length = 2
  Ctors = {EARLY, LATE}
  Priority <- SomePriority
  Threads = {MAIN}
  Jumps = {TRUE, FALSE}
  Values = {ONE, TWO}
  Real <- SomeReal
INVARIANTS TypeOK RunsOnce SetBeforeUse
PROPERTY ImplementsStatic
