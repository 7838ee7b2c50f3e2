CONSTANTS
  Person = {p1, p2}
  Concept = {c1}
  NoView = NoView
  MaxEvents = 5
  Task = {t1, t2}
  Policies <- TeamPolicies
  MaxHops = 4
  NormalHops = 2
  Word = 12
  MaxMessages = 6
  NoOffer = NoOffer
  Scope = {"s1", "s2"}
  Offered <- ExpansionPolicies
  MaxIndex = 4
  MaxDate = 30
  SeedLists <- Seeds
  MaxCount = 3
  MaxFlown = 2

SPECIFICATION Spec
SYMMETRY TeamSymmetry
INVARIANTS TypeOK ViewIsOfItsTime RotationIsFair OpenDelegationIsSeen SessionsExpand
PROPERTIES AnswersMoveMastery
