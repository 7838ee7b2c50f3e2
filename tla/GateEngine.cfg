CONSTANTS
  TaskId = {t1}
  DanglingId = {}
  Actor = {alice, bob}
  Reason = {r1}
  Nobody = Nobody
  NoReason = NoReason
  Absent = Absent
  MaxHistory = 4
  Caller = {c1, c2}
  NoToken = NoToken
  Gate <- FirstGates
  MaxIssued = 1
  MaxRequests = 2
  StageName = {"a", "b", "", "undeclared"}
  Blank = ""
  Profiles <- ProfilesOf3
  Topic = {"c1", "c2"}
  NotANumber = NotANumber
  Scores <- SomeScores
  Offers <- OfferLists
  NoDigest = NoDigest

SPECIFICATION WorkflowSpec
SYMMETRY Symmetry
INVARIANTS WorkflowTypeOK EveryDecisionIsLogged LeavesTokenStage GatesOpen DigestFades
CHECK_DEADLOCK FALSE
