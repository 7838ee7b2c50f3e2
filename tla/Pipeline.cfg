CONSTANTS
  TaskId = {t1, t2}
  DanglingId = {}
  Actor = {agent, operator}
  Reason = {escalated}
  Nobody = Nobody
  NoReason = NoReason
  Absent = Absent
  MaxHistory = 8
  Run = {r1, r2}
  Agent = agent
  Escalated = escalated
  NoTask = NoTask
  Reply <- MCReply
  NoReply = NoReply
  Typed <- MCTyped
  MaxRoughRuns = 1
  MaxRunMoves = 4
  Topic = {boot, metrics}
  BootTopic = boot
  Subscriber = {s1, s2}
  Capacity = 2
  MaxEvents = 5
  Policy <- MCPolicy
  Core <- MCCore
  Dotted <- MCDotted
  Cwd <- MCCwd
  Manifest <- MCManifest
  Shipped <- MCShipped
  MaxPlugins = 2

SPECIFICATION WyrtloomSpec
INVARIANTS WyrtloomTypeOK OutcomeMatchesBoard DoneIsEarned ModelNeedsRunning VerifiedBeforeUse BusDelivers
PROPERTY RunsReturn
CHECK_DEADLOCK FALSE
