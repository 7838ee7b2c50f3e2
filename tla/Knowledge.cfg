CONSTANTS
  Concept = {c1}
  Person = {p1, p2}
  Ref = {ref}
  Linker = {w1, w2}
  NoLink = NoLink
  Artifact = {i1, i2, i3}
  Worker = {w1, w2}
  Missing = Missing
  Living = Living
  NoWork = NoWork
  Rationale = {q1, q2, q3}
  Subject = {s1, s2}
  Author = {w1, w2}
  NoRationale = NoRationale
  NoRecord = NoRecord
  NoDraft = NoDraft

SPECIFICATION KnowledgeSpec
SYMMETRY KnowledgeSymmetry
INVARIANTS KnowledgeTypeOK SuccessorIsStored OkMeansSuperseded CurrentViewIsSound
PROPERTY DarknessTells
