---------------------------- MODULE KanbanBoard ----------------------------
(***************************************************************************)
(* The Kanban board as its callers see it: every KanbanBoard method of     *)
(* SqliteKanbanBoard is one atomic step (the connection mutex and the      *)
(* BEGIN IMMEDIATE transaction make it so).  A refused call rolls back and *)
(* leaves the board as it was; the *Errors operators say which calls are   *)
(* refused and with what, for the components that call the board.          *)
(*                                                                         *)
(* Titles, timestamps and the free-text reason and actor of a history row  *)
(* are left out: no property tells them apart.                             *)
(***************************************************************************)
EXTENDS KanbanStates, Naturals, Sequences

CONSTANTS
  TaskId,     \* the uuids that create() can hand out
  DanglingId, \* uuids that never name a row, but may appear in depends_on
  Actor,      \* workers and humans that call the board
  Reason,     \* block reasons
  Nobody,     \* SQL NULL in the actor column
  NoReason,   \* SQL NULL in the block_reason column
  Absent,     \* the state of a uuid that has no row
  MaxHistory  \* bound: moves per task

ASSUME BoardAssumption ==
  /\ Absent \notin TaskState
  /\ TaskId \cap DanglingId = {}
  /\ Nobody \notin Actor
  /\ NoReason \notin Reason
  /\ MaxHistory \in Nat

VARIABLES
  state,       \* tasks.state, or Absent
  assignee,    \* tasks.actor
  dependsOn,   \* tasks.depends_on (order and repetition never matter)
  blockReason, \* tasks.block_reason
  history      \* the history rows of each task, oldest first

boardVars == <<state, assignee, dependsOn, blockReason, history>>

Existing == {t \in TaskId : state[t] # Absent}

StateChange == [from : TaskState, to : TaskState]

Init ==
  /\ state = [t \in TaskId |-> Absent]
  /\ assignee = [t \in TaskId |-> Nobody]
  /\ dependsOn = [t \in TaskId |-> {}]
  /\ blockReason = [t \in TaskId |-> NoReason]
  /\ history = [t \in TaskId |-> <<>>]

-----------------------------------------------------------------------------
(* Refusals: the set of errors a call may come back with; {} means it succeeds. *)

\* Mutant: the gate takes any finished dependency, archived ones included.
DependencyErrors_AnyFinished(t) ==
  {IF d \in Existing THEN "DependenciesNotDone" ELSE "NotFound" :
     d \in {d \in dependsOn[t] : d \notin Existing \/ state[d] \notin {"Done", "Archived"}}}

\* The dependency loop stops at the first dependency that is not Done; which
\* one that is depends on an order the model does not keep.
DependencyErrors(t) ==
  {IF d \in Existing THEN "DependenciesNotDone" ELSE "NotFound" :
     d \in {d \in dependsOn[t] : d \notin Existing \/ state[d] # "Done"}}

\* Mutant: the dependencies are asked for one move too late.
TransitionErrors_GateAtRunning(t, to) ==
  IF t \notin Existing THEN {"NotFound"}
  ELSE IF ~IsLegalTransition(state[t], to) THEN {"IllegalTransition"}
  ELSE IF to = "Running" THEN DependencyErrors(t)
  ELSE {}

TransitionErrors(t, to) ==
  IF t \notin Existing THEN {"NotFound"}
  ELSE IF ~IsLegalTransition(state[t], to) THEN {"IllegalTransition"}
  ELSE IF to = "Ready" THEN DependencyErrors(t)
  ELSE {}

BlockErrors(t) ==
  IF t \notin Existing THEN {"NotFound"}
  ELSE IF ~IsLegalTransition(state[t], "Blocked") THEN {"IllegalTransition"}
  ELSE {}

\* Mutant: the UPDATE lost its "AND actor IS NULL".
ClaimErrors_Steal(t) ==
  IF t \in Existing /\ state[t] = "Ready" THEN {} ELSE {"AlreadyClaimed"}

\* A missing or not-Ready task is reported as claimed, too: the UPDATE matched no row.
ClaimErrors(t) ==
  IF t \in Existing /\ assignee[t] = Nobody /\ state[t] = "Ready"
  THEN {} ELSE {"AlreadyClaimed"}

-----------------------------------------------------------------------------
(* The operations, when they succeed. *)

\* The history row both transition_inner and block_inner insert.
Record(t, to) ==
  /\ Len(history[t]) < MaxHistory
  /\ history' = [history EXCEPT ![t] = Append(@, [from |-> state[t], to |-> to])]

\* create: a fresh random uuid, so depends_on can name older tasks or no task.
Create(t, creator, deps) ==
  /\ state[t] = Absent
  /\ deps \subseteq Existing \cup DanglingId
  /\ state' = [state EXCEPT ![t] = "Backlog"]
  /\ assignee' = [assignee EXCEPT ![t] = creator]
  /\ dependsOn' = [dependsOn EXCEPT ![t] = deps]
  /\ UNCHANGED <<blockReason, history>>

\* transition: every move clears the actor column, a block reason stays.
Transition(t, to) ==
  /\ TransitionErrors(t, to) = {}
  /\ state' = [state EXCEPT ![t] = to]
  /\ assignee' = [assignee EXCEPT ![t] = Nobody]
  /\ Record(t, to)
  /\ UNCHANGED <<dependsOn, blockReason>>

Claim(t, worker) ==
  /\ ClaimErrors(t) = {}
  /\ assignee' = [assignee EXCEPT ![t] = worker]
  /\ UNCHANGED <<state, dependsOn, blockReason, history>>

\* Mutant: the reason is bound to the column of the actor.
Block_SwappedColumns(t, reason) ==
  /\ BlockErrors(t) = {}
  /\ state' = [state EXCEPT ![t] = "Blocked"]
  /\ assignee' = [assignee EXCEPT ![t] = reason]
  /\ Record(t, "Blocked")
  /\ UNCHANGED <<blockReason, dependsOn>>

\* Mutant: blocking writes the row and forgets the history.
Block_NoHistory(t, reason) ==
  /\ BlockErrors(t) = {}
  /\ state' = [state EXCEPT ![t] = "Blocked"]
  /\ blockReason' = [blockReason EXCEPT ![t] = reason]
  /\ UNCHANGED <<assignee, dependsOn, history>>

Block(t, reason) ==
  /\ BlockErrors(t) = {}
  /\ state' = [state EXCEPT ![t] = "Blocked"]
  /\ blockReason' = [blockReason EXCEPT ![t] = reason]
  /\ Record(t, "Blocked")
  /\ UNCHANGED <<assignee, dependsOn>>

\* A call by anyone who shares the board; get and list only read.
BoardStep ==
  \E t \in TaskId :
    \/ \E a \in Actor, deps \in SUBSET (TaskId \cup DanglingId) : Create(t, a, deps)
    \/ \E to \in TaskState : Transition(t, to)
    \/ \E a \in Actor : Claim(t, a)
    \/ \E r \in Reason : Block(t, r)

Spec == Init /\ [][BoardStep]_boardVars
-----------------------------------------------------------------------------
(* Properties. *)

TypeOK ==
  /\ state \in [TaskId -> TaskState \cup {Absent}]
  /\ assignee \in [TaskId -> Actor \cup {Nobody}]
  /\ dependsOn \in [TaskId -> SUBSET (TaskId \cup DanglingId)]
  /\ blockReason \in [TaskId -> Reason \cup {NoReason}]
  /\ history \in [TaskId -> Seq(StateChange)]

Started == {"Ready", "Running", "Blocked", "Done", "Archived"}
Finished == {"Done", "Archived"}

\* Work never starts ahead of its dependencies: whatever route a task took into
\* Ready or beyond (rework through Todo included), all it depends on is finished
\* and stays so.  The code checks this only at the moment of Todo -> Ready.
DependencyGate ==
  \A t \in TaskId :
    state[t] \in Started =>
      \A d \in dependsOn[t] : d \in TaskId /\ state[d] \in Finished

\* The history of a task is a legal path from Backlog to the state its row
\* shows, without gaps: no operation changes one table and not the other.
HistoryIsTrail ==
  \A t \in TaskId :
    LET h == history[t] IN
      /\ \A i \in 1..Len(h) : <<h[i].from, h[i].to>> \in LegalMoves
      /\ \A i \in 1..Len(h) : h[i].from = IF i = 1 THEN "Backlog" ELSE h[i-1].to
      /\ h = <<>> => state[t] \in {Absent, "Backlog"}
      /\ h # <<>> => state[t] = h[Len(h)].to

\* A claim is exclusive: a task's holder is replaced by no one, and is let go
\* only when the task moves to another state.
ClaimHeldUntilMove ==
  [][\A t \in TaskId :
       assignee[t] # Nobody =>
         \/ assignee'[t] = assignee[t]
         \/ assignee'[t] = Nobody /\ state'[t] # state[t]]_boardVars

\* The gate wants dependencies Done, not merely finished: once a dependency of a
\* task that is not past the gate is Archived (or never existed), the task can
\* never pass it, not even if it had been Running before and was sent back.
StrandedStaysStranded ==
  [][\A t \in TaskId :
       /\ state[t] \in {"Backlog", "Todo"}
       /\ \E d \in dependsOn[t] : d \in DanglingId \/ state[d] = "Archived"
       => state'[t] \in {"Backlog", "Todo"}]_boardVars

\* Seen column by column, the board is the abstract task lifecycle.
Lifecycle == INSTANCE TaskLifecycle WITH stage <- state, needs <- dependsOn
ImplementsLifecycle == Lifecycle!Spec
=============================================================================
