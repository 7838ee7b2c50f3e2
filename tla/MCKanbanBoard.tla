--------------------------- MODULE MCKanbanBoard ---------------------------
(***************************************************************************)
(* Small instances of KanbanBoard for TLC.                                 *)
(***************************************************************************)
EXTENDS KanbanBoard, TLC

\* Workers are interchangeable: no operation or property names one of them.
ActorSymmetry == Permutations(Actor)
=============================================================================
