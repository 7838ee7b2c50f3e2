CONSTANTS
  TaskId = {t1}
  DanglingId = {}
  Actor = {a1}
  Reason = {r1}
  Nobody = Nobody
  NoReason = NoReason
  Absent = Absent
  MaxHistory = 2
  Conn = {p, q}
  NoTx = NoTx
  NoCall = NoCall
  FaultyWrites = TRUE
  BusyCommits = TRUE

SPECIFICATION StoreSpec
PROPERTY OkMeansRecorded
CHECK_DEADLOCK FALSE
