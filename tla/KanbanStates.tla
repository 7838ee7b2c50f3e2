--------------------------- MODULE KanbanStates ---------------------------
(***************************************************************************)
(* The part of the Kanban contract that lives in the core crate: the task  *)
(* states and the table of legal moves (crates/core/src/kanban.rs).        *)
(* Everything that moves a task, and everything that promises to move one  *)
(* (the gate engine, the workflow profile), refers to this table.          *)
(***************************************************************************)

\* enum TaskState
TaskState == {"Backlog", "Todo", "Ready", "Running", "Blocked", "Done", "Archived"}

\* The arms of the matches! in is_legal_transition, as <<from, to>> pairs.
LegalMoves ==
  { <<"Backlog", "Todo">>,
    <<"Todo", "Ready">>,      <<"Todo", "Backlog">>,
    <<"Ready", "Running">>,   <<"Ready", "Backlog">>,
    <<"Running", "Done">>,    <<"Running", "Blocked">>, <<"Running", "Todo">>,
    <<"Blocked", "Running">>, <<"Blocked", "Todo">>,    <<"Blocked", "Done">>,
    <<"Done", "Archived">> }

\* Mutant: finished work may be reopened.
IsLegalTransition_Reopen(from, to) == <<from, to>> \in LegalMoves \cup {<<"Done", "Todo">>}

IsLegalTransition(from, to) == <<from, to>> \in LegalMoves
=============================================================================
