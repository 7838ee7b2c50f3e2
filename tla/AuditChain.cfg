CONSTANTS
  Thread = {h1, h2, h3}
  Stamp = {s1}
  Decision = Decision
  NoThread = NoThread
  LossyWrites = TRUE
  CrashAnywhere = TRUE
  MaxEntries = 4
  MaxStops = 2

SPECIFICATION Spec
SYMMETRY ThreadSymmetry
INVARIANTS NoFork NothingLost RevocationIsAudited FileIsLog
CHECK_DEADLOCK FALSE
