--------------------------- MODULE MCKanbanStore ---------------------------
(***************************************************************************)
(* Small instances of KanbanStore for TLC.                                 *)
(***************************************************************************)
EXTENDS KanbanStore, TLC

\* Processes run the same code on the same file.
ConnSymmetry == Permutations(Conn)
=============================================================================
