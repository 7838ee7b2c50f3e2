CONSTANTS
  TaskId = {t1, t2}
  DanglingId = {}
  Actor = {a1}
  Reason = {r1}
  Nobody = Nobody
  NoReason = NoReason
  Absent = Absent
  MaxHistory = 3
  Conn = {p, q}
  NoTx = NoTx
  NoCall = NoCall
  FaultyWrites = TRUE
  BusyCommits = TRUE

SPECIFICATION StoreSpec
PROPERTIES StoreImplementsBoard ErrMeansUnchanged
CHECK_DEADLOCK FALSE
