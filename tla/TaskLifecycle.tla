--------------------------- MODULE TaskLifecycle ---------------------------
(***************************************************************************)
(* What a Kanban board promises to whoever only looks at its columns:      *)
(* tasks appear in the Backlog, move along the legal table one step at a   *)
(* time, and enter Ready only while everything they depend on is Done.     *)
(* Claims, block reasons, histories, refusals and the way a board stores   *)
(* its rows are not visible at this level.  KanbanBoard implements it.     *)
(***************************************************************************)
EXTENDS KanbanStates

CONSTANTS
  TaskId,     \* task identifiers
  DanglingId, \* identifiers that never name a task
  Absent      \* the stage of an identifier that names no task yet

VARIABLES
  stage,      \* the column each task is in
  needs       \* the identifiers each task depends on

vars == <<stage, needs>>

Existing == {t \in TaskId : stage[t] # Absent}

Init ==
  /\ stage = [t \in TaskId |-> Absent]
  /\ needs = [t \in TaskId |-> {}]

\* A new task can only depend on what existed before it (or on nothing real).
Appear(t, deps) ==
  /\ stage[t] = Absent
  /\ deps \subseteq Existing \cup DanglingId
  /\ stage' = [stage EXCEPT ![t] = "Backlog"]
  /\ needs' = [needs EXCEPT ![t] = deps]

Satisfied(t) == \A d \in needs[t] : d \in TaskId /\ stage[d] = "Done"

Move(t, to) ==
  /\ IsLegalTransition(stage[t], to)
  /\ to = "Ready" => Satisfied(t)
  /\ stage' = [stage EXCEPT ![t] = to]
  /\ UNCHANGED needs

Next ==
  \E t \in TaskId :
    \/ \E deps \in SUBSET (TaskId \cup DanglingId) : Appear(t, deps)
    \/ \E to \in TaskState : Move(t, to)

Spec == Init /\ [][Next]_vars
=============================================================================
