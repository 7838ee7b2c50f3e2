CONSTANTS
  TaskId = {t1}
  DanglingId = {}
  Actor = {alice}
  Reason = {r1}
  Nobody = Nobody
  NoReason = NoReason
  Absent = Absent
  MaxHistory = 5
  Caller = {c1}
  NoToken = NoToken
  Gate <- FirstGates
  MaxIssued = 1
  MaxRequests = 2
  StageName = {""}
  Blank = ""
  Profiles = {}
  Topic = {}
  NotANumber = NotANumber
  Scores = {}
  Offers = {}
  NoDigest = NoDigest

SPECIFICATION WorkflowSpec
INVARIANT StaleTokensMoveNothing
CHECK_DEADLOCK FALSE
