---------------------------- MODULE MCKnowledge ----------------------------
(***************************************************************************)
(* Small instances of Knowledge for TLC.                                   *)
(***************************************************************************)
EXTENDS Knowledge, TLC

\* Uuids are random and callers run the same code.
KnowledgeSymmetry ==
  Permutations(Artifact) \cup Permutations(Worker) \cup Permutations(Rationale)
    \cup Permutations(Subject) \cup Permutations(Person)
=============================================================================
