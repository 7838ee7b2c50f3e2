CONSTANTS
  Thread = {h1}
  Stamp = {s1}
  Decision = Decision
  NoThread = NoThread
  LossyWrites = FALSE
  CrashAnywhere = TRUE
  MaxEntries = 4
  MaxStops = 3

SPECIFICATION Spec
INVARIANT ChainSurvivesRestart
CHECK_DEADLOCK FALSE
