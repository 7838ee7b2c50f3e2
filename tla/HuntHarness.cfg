CONSTANTS
  Execution = {h1, h2}
  Module <- SomeModules
  NoModule = NoModule
  Ticks = 2
  MaxLadderDepth = 1
  Concept = {"c1", "c2"}
  ById <- ConceptsById
  Critical = {"c2"}
  Person = {p1}
  Ref = {ref}
  Linker = {w1}
  NoLink = NoLink
  Documents <- SomeDocuments
  NoPolicy = NoPolicy
  HybridSample = 1
  Calibrations = {84, 85}
  NoSelection = NoSelection
  MaxGraded = 1
  MaxPrepared = 2

SPECIFICATION FairPracticeSpec
INVARIANTS PracticeTypeOK VerdictIsUnhurried SelectionHolds StaircaseFollows
PROPERTIES ExecutionsReturn
