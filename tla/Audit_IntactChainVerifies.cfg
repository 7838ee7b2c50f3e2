CONSTANTS
  Thread = {h1, h2}
  Stamp = {s1}
  Decision = Decision
  NoThread = NoThread
  LossyWrites = FALSE
  CrashAnywhere = FALSE
  MaxEntries = 3
  MaxStops = 0

SPECIFICATION Spec
INVARIANT IntactChainVerifies
CHECK_DEADLOCK FALSE
