------------------------------ MODULE Pipeline ------------------------------
(***************************************************************************)
(* Pipeline::run (src/pipeline.rs): one thread per run drives a task of    *)
(* its own over the board, calls the model, records the call, reads the    *)
(* answer, and asks a human when the answer is not a plain "done".  Every  *)
(* call the run makes is one step, so that other callers of the same board *)
(* (another process on the same database, an operator) act in between.     *)
(*                                                                         *)
(* Prompts, results and reasons are left out; the server and the human are *)
(* free to answer anything.  In a calm world the board and the logger work *)
(* and nobody else calls the board; in any other they may come back with a *)
(* storage error, having done nothing, and tasks move under the run: there *)
(* Others can do to a run all that further runs could do to it.            *)
(***************************************************************************)
EXTENDS KanbanBoard, Provider, Terminal, CallLog, FiniteSets

CONSTANTS
  Run,          \* calls of Pipeline::run
  Agent,        \* Pipeline.agent_id
  Escalated,    \* the BlockReason of a run: blocked by the human at the terminal
  NoTask,       \* a run that has created no task (uuid nil in its outcome)
  Reply,        \* what the model's server may do when it is called
  NoReply,      \* a run that has not called the model
  Typed,        \* what a human may type at the terminal
  MaxRoughRuns, \* bound: runs in a world that is not calm
  MaxRunMoves   \* bound: moves that others leave to the runs

ASSUME PipelineAssumption ==
  /\ Agent \in Actor
  /\ Escalated \in Reason
  /\ NoTask \notin TaskId
  /\ Reply \subseteq ReplyType /\ NoReply \notin Reply
  /\ Typed \subseteq Seq(Line)
  /\ MaxRunMoves \in Nat /\ MaxRoughRuns \in Nat

VARIABLES
  calm,        \* the world this behaviour takes place in
  interactive, \* WYRTLOOM_INTERACTIVE: a human is asked, not the script
  pc,          \* where each run stands
  task,        \* its task_id
  reply,       \* what the model's server did when it was called
  typed,       \* what the human typed, <<>> if nothing or not asked
  outcome      \* the PipelineOutcome it returned

runVars == <<calm, interactive, pc, task, reply, typed, outcome, callLog>>
vars == <<boardVars, runVars>>

\* A run that is never started counts as returned.
PipelineInit ==
  /\ Init
  /\ calm \in BOOLEAN /\ interactive \in BOOLEAN
  /\ pc \in [Run -> {"create", "returned"}]
  /\ calm \/ Cardinality({r \in Run : pc[r] = "create"}) <= MaxRoughRuns
  /\ task = [r \in Run |-> NoTask]
  /\ reply = [r \in Run |-> NoReply]
  /\ typed = [r \in Run |-> <<>>]
  /\ outcome = [r \in Run |-> "none"]
  /\ callLog = <<>>

-----------------------------------------------------------------------------
Goto(r, place) == pc' = [pc EXCEPT ![r] = place]

Return(r, result) ==
  /\ Goto(r, "returned")
  /\ outcome' = [outcome EXCEPT ![r] = result]

\* A call of the board that came back with an error.
Refused(errors) ==
  /\ errors # {} \/ ~calm
  /\ UNCHANGED boardVars

\* parse: create the task; without one the run is over.
CreateTask(r) ==
  /\ pc[r] = "create"
  /\ \/ \E t \in TaskId :
          /\ Create(t, Agent, {})
          /\ task' = [task EXCEPT ![r] = t]
          /\ Goto(r, "todo")
          /\ UNCHANGED outcome
     \/ /\ Refused({})
        /\ Return(r, "Blocked")
        /\ UNCHANGED task
  /\ UNCHANGED <<calm, interactive, reply, typed, callLog>>

\* Mutant: a refused move is reported and the run carries on.
MoveTo_CarryOn(r, here, to, next) ==
  /\ pc[r] = here
  /\ Transition(task[r], to) \/ Refused(TransitionErrors(task[r], to))
  /\ Goto(r, next)
  /\ UNCHANGED <<calm, interactive, task, reply, typed, outcome, callLog>>

\* One of the moves towards Running.  A refusal ends the run: record_blocked.
MoveTo(r, here, to, next) ==
  /\ pc[r] = here
  /\ \/ Transition(task[r], to) /\ Goto(r, next)
     \/ Refused(TransitionErrors(task[r], to)) /\ Goto(r, "record blocked")
  /\ UNCHANGED <<calm, interactive, task, reply, typed, outcome, callLog>>

ClaimTask(r) ==
  /\ pc[r] = "claim"
  /\ \/ Claim(task[r], Agent) /\ Goto(r, "running")
     \/ Refused(ClaimErrors(task[r])) /\ Goto(r, "record blocked")
  /\ UNCHANGED <<calm, interactive, task, reply, typed, outcome, callLog>>

\* execute: the model is called and answers, or the call fails.
Generate(r) ==
  /\ pc[r] = "execute"
  /\ \E answer \in Reply : reply' = [reply EXCEPT ![r] = answer]
  /\ Goto(r, "log")
  /\ UNCHANGED <<boardVars, calm, interactive, task, typed, outcome, callLog>>

CallOutcome(answer) ==
  IF Verdict(answer) = "failed" THEN Failed(GenerateError(answer)) ELSE Completed

\* record(..).ok(), then verify: only a well-formed "done" is taken for success.
LogCall(r) ==
  /\ pc[r] = "log"
  /\ \/ RecordCall(task[r], CallOutcome(reply[r]))
     \/ ~calm /\ UNCHANGED callLog
  /\ Goto(r, IF Verdict(reply[r]) = "done" THEN "finish" ELSE "escalate")
  /\ UNCHANGED <<boardVars, calm, interactive, task, reply, typed, outcome>>

\* The last move of a run.  Whether it succeeds is printed or dropped (.ok());
\* the outcome is the same either way.
FinalMove(r, here, to, result) ==
  /\ pc[r] = here
  /\ \/ Transition(task[r], to)
     \/ Refused(TransitionErrors(task[r], to))
  /\ Return(r, result)
  /\ UNCHANGED <<calm, interactive, task, reply, typed, callLog>>

FinalBlock(r, here, result) ==
  /\ pc[r] = here
  /\ \/ Block(task[r], Escalated)
     \/ Refused(BlockErrors(task[r]))
  /\ Return(r, result)
  /\ UNCHANGED <<calm, interactive, task, reply, typed, callLog>>

Finish(r) == FinalMove(r, "finish", "Done", "Done")

\* handle_blocked, once there is an answer: only Stop and "skip" are acted upon.
HandleBlocked(r, response) ==
  /\ pc[r] = "escalate"
  /\ Goto(r, CASE response = "Stop" -> "stop"
               [] response = "skip" -> "skip"
               [] OTHER -> "record blocked")
  /\ UNCHANGED <<boardVars, calm, interactive, task, reply, outcome, callLog>>

AskHuman(r) ==
  /\ interactive
  /\ \E lines \in Typed :
       /\ typed' = [typed EXCEPT ![r] = lines]
       /\ HandleBlocked(r, Answered(lines))

AskScript(r) == ~interactive /\ HandleBlocked(r, Scripted) /\ UNCHANGED typed

StopTask(r) == FinalBlock(r, "stop", "Stopped")
SkipTask(r) == FinalMove(r, "skip", "Done", "Done")

\* Mutant: the run reports its failure and leaves the task where it was.
RecordBlocked_NoBlock(r) ==
  /\ pc[r] = "record blocked"
  /\ Return(r, "Blocked")
  /\ UNCHANGED <<boardVars, calm, interactive, task, reply, typed, callLog>>

\* Mutant: the run insists on blocking its task.
RecordBlocked_Insist(r) ==
  /\ pc[r] = "record blocked"
  /\ \/ Block(task[r], Escalated) /\ Return(r, "Blocked")
     \/ Refused(BlockErrors(task[r])) /\ UNCHANGED <<pc, outcome>>
  /\ UNCHANGED <<calm, interactive, task, reply, typed, callLog>>

RecordBlocked(r) == FinalBlock(r, "record blocked", "Blocked")

\* Everything a run does on its own; asking a human is not.
OwnStep(r) ==
  \/ CreateTask(r)
  \/ MoveTo(r, "todo", "Todo", "ready")
  \/ MoveTo(r, "ready", "Ready", "claim")
  \/ ClaimTask(r)
  \/ MoveTo(r, "running", "Running", "execute")
  \/ Generate(r)
  \/ LogCall(r)
  \/ AskScript(r)
  \/ Finish(r)
  \/ StopTask(r)
  \/ SkipTask(r)
  \/ RecordBlocked(r)

\* Other callers of the board.  They may leave no task too full of history for
\* the runs to move it; tasks they create cannot matter to a run.
Others ==
  /\ ~calm
  /\ \E t \in TaskId :
       /\ Len(history[t]) + MaxRunMoves < MaxHistory
       /\ \/ \E to \in TaskState : Transition(t, to)
          \/ \E a \in Actor : Claim(t, a)
          \/ \E x \in Reason : Block(t, x)
  /\ UNCHANGED runVars

PipelineNext ==
  \/ \E r \in Run : OwnStep(r) \/ AskHuman(r)
  \/ Others

PipelineSpec == PipelineInit /\ [][PipelineNext]_vars
-----------------------------------------------------------------------------
(* Properties. *)

PipelineTypeOK ==
  /\ TypeOK
  /\ calm \in BOOLEAN /\ interactive \in BOOLEAN
  /\ pc \in [Run -> {"create", "todo", "ready", "claim", "running", "execute", "log",
                     "finish", "escalate", "stop", "skip", "record blocked", "returned"}]
  /\ task \in [Run -> TaskId \cup {NoTask}]
  /\ reply \in [Run -> Reply \cup {NoReply}]
  /\ typed \in [Run -> Typed \cup {<<>>}]
  /\ outcome \in [Run -> {"none", "Done", "Stopped", "Blocked"}]
  /\ callLog \in Seq([task : TaskId, outcome : {"Completed", "Failed", "Partial"},
                      detail : {"none", "Transport", "Unauthorized", "RateLimited", "Provider"}])

\* Success is never made up (hardening 008): whatever the server, the board, the
\* logger and other callers do, a run reports Done only if its call was answered
\* without an error status and the last thing the model said is a "done" object,
\* or if a human chose the second option, skip.
DoneIsEarned ==
  \A r \in Run : outcome[r] = "Done" =>
    \/ /\ reply[r].fate = "answered" /\ reply[r].status < 400
       /\ reply[r].body # <<>> /\ reply[r].body[Len(reply[r].body)] = "done"
    \/ interactive /\ typed[r] # <<>> /\ typed[r][1] = "2"

WentToRunning(t) ==
  \E i \in DOMAIN history[t] : history[t][i] = [from |-> "Ready", to |-> "Running"]

\* The model is called for a task only after this task was moved from Ready to
\* Running: a run whose claim or move is refused, for whatever reason, stops.
ModelNeedsRunning ==
  \A r \in Run :
    pc[r] \in {"execute", "log", "finish", "escalate"} => WentToRunning(task[r])

\* In a calm world, with several runs side by side, what a run reports is what the
\* board shows for good, and the call log, read back, tells of its one call of the
\* model and why that failed if it did.
Reported(r) ==
  /\ outcome[r] = "Done" => state[task[r]] = "Done"
  /\ outcome[r] \in {"Stopped", "Blocked"} =>
       state[task[r]] = "Blocked" /\ blockReason[task[r]] # NoReason
  /\ outcome[r] # "none" =>
       \E i \in DOMAIN AllLogs :
         /\ AllLogs[i] = [task |-> task[r], outcome |-> CallOutcome(reply[r])]
         /\ \A j \in DOMAIN AllLogs : AllLogs[j].task = task[r] => j = i
OutcomeMatchesBoard == calm => \A r \in Run : Reported(r)

\* No run gets lost: each comes back with an outcome, unless it waits for a human.
RunsReturn ==
  \A r \in Run : <>[](pc[r] = "returned" \/ (interactive /\ pc[r] = "escalate"))
=============================================================================
