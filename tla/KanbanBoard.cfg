CONSTANTS
  TaskId = {t1, t2, t3}
  DanglingId = {ghost}
  Actor = {alice, bob}
  Reason = {r1}
  Nobody = Nobody
  NoReason = NoReason
  Absent = Absent
  MaxHistory = 5

SYMMETRY ActorSymmetry
SPECIFICATION Spec
INVARIANTS TypeOK DependencyGate HistoryIsTrail
PROPERTIES ClaimHeldUntilMove StrandedStaysStranded ImplementsLifecycle
CHECK_DEADLOCK FALSE
