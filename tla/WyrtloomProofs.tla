-------------------------- MODULE WyrtloomProofs --------------------------
(***************************************************************************)
(* Proofs about the program: the runs of the pipeline, for any number of   *)
(* runs, tasks and moves, and for any model and human; the message bus,    *)
(* for any topics, subscribers and capacity; and the boot of the host, for *)
(* any plugins and any policy.                                             *)
(***************************************************************************)
EXTENDS Wyrtloom, KanbanBoardProofs, FiniteSetTheorems, WellFoundedInduction

\* The only answer of the model that counts as "done" is an answered call without
\* an error status whose text ends in a "done" object.
LEMMA VerdictDone ==
  ASSUME NEW answer \in ReplyType, Verdict(answer) = "done"
  PROVE  /\ answer.fate = "answered" /\ answer.status < 400
         /\ answer.body # <<>> /\ answer.body[Len(answer.body)] = "done"
<1>1. GenerateError(answer) = "none" /\ ParseOutput(answer.body) = "done"
  BY DEF Verdict
<1>2. answer.fate = "answered" /\ ~(answer.status >= 400)
  BY <1>1 DEF GenerateError
<1>3. answer.status \in 0..599
  BY DEF ReplyType
<1>4. answer.body # <<>> /\ answer.body[Len(answer.body)] = "done"
  BY <1>1 DEF ParseOutput
<1>5. answer.status < 400
  BY <1>2, <1>3
<1>6. QED
  BY <1>2, <1>4, <1>5

\* The only thing a human can type to skip a task is the number of that option.
LEMMA SkipIsSecond ==
  ASSUME NEW lines \in Seq(Line), Answered(lines) = "skip"
  PROVE  lines # <<>> /\ lines[1] = "2"
<1>1. ~Closed(lines, 1)
  BY DEF Answered, Closed
<1>2. /\ lines[1] \in DOMAIN NumberOf
      /\ NumberOf[lines[1]] \in 1..Len(Options)
      /\ Options[NumberOf[lines[1]]] = "skip"
  BY DEF Answered, Closed
<1>3. lines # <<>>
  BY <1>1 DEF Closed
<1>4. lines[1] \in {"0", "1", "2", "3"}
  BY <1>2 DEF NumberOf
<1>5. NumberOf[lines[1]] = 2
  BY <1>2 DEF Options
<1>6. lines[1] = "2"
  BY <1>4, <1>5 DEF NumberOf
<1>7. QED
  BY <1>3, <1>6

-----------------------------------------------------------------------------
\* Where a run may stand, and what it holds there.
Place == {"create", "todo", "ready", "claim", "running", "execute", "log",
          "finish", "escalate", "stop", "skip", "record blocked", "returned"}

RunTypeOK ==
  /\ pc \in [Run -> Place]
  /\ task \in [Run -> TaskId \cup {NoTask}]
  /\ reply \in [Run -> Reply \cup {NoReply}]
  /\ typed \in [Run -> Typed \cup {<<>>}]
  /\ outcome \in [Run -> {"none", "Done", "Stopped", "Blocked"}]

\* The model, or the human, lets run r report success.
Earned(r) ==
  \/ reply[r] \in Reply /\ Verdict(reply[r]) = "done"
  \/ interactive /\ typed[r] \in Typed /\ Answered(typed[r]) = "skip"

\* A run under way has a task and no outcome; one about to finish or to skip may.
RunIsSound(r) ==
  /\ pc[r] \notin {"create", "returned"} => task[r] \in TaskId
  /\ pc[r] # "returned" => outcome[r] = "none"
  /\ pc[r] \in {"log", "finish", "escalate"} => reply[r] \in Reply
  /\ pc[r] = "finish" => Verdict(reply[r]) = "done"
  /\ pc[r] = "skip" => Earned(r)
  /\ outcome[r] = "Done" => Earned(r)

RunsAreSound == \A r \in Run : RunIsSound(r)

\* Everything but the board that a step of one run leaves alone.
OthersUnmoved(r) ==
  /\ interactive' = interactive
  /\ \A q \in Run \ {r} :
       /\ pc'[q] = pc[q] /\ task'[q] = task[q] /\ reply'[q] = reply[q]
       /\ typed'[q] = typed[q] /\ outcome'[q] = outcome[q]

\* What one step of a run does, whatever step it is: to the board, what some call
\* of the board does; to the run, what keeps it sound; and it comes to the model
\* only from there or by a move to Running.
CalledModel == {"execute", "log", "finish", "escalate"}
StepIsSound(r) ==
  /\ [BoardStep]_boardVars
  /\ RunTypeOK' /\ OthersUnmoved(r) /\ RunIsSound(r)'
  /\ pc'[r] \in CalledModel =>
       /\ task'[r] = task[r]
       /\ pc[r] \in CalledModel \/ state'[task[r]] = "Running"

\* A transition, a claim or a block of a run's task is a call like any other.
LEMMA RunCallsBoard ==
  ASSUME NEW t \in TaskId, NEW to \in TaskState,
         \/ Transition(t, to)
         \/ Create(t, Agent, {})
         \/ Claim(t, Agent)
         \/ Block(t, Escalated)
  PROVE  BoardStep
BY PipelineAssumption DEF BoardStep

LEMMA MoveIsSound ==
  ASSUME NEW r \in Run, NEW here \in {"todo", "ready", "running"},
         NEW to \in {"Todo", "Ready", "Running"}, NEW next \in {"ready", "claim", "execute"},
         next = "execute" => to = "Running",
         TypeOK, RunTypeOK, RunsAreSound, MoveTo(r, here, to, next)
  PROVE  StepIsSound(r)
<1>1. /\ pc[r] = here /\ task[r] \in TaskId /\ outcome[r] = "none"
      /\ pc' \in [Run -> Place]
      /\ UNCHANGED <<interactive, task, reply, typed, outcome>>
  BY DEF MoveTo, Goto, RunTypeOK, Place, RunsAreSound, RunIsSound
<1>2. [BoardStep]_boardVars
  BY <1>1, RunCallsBoard DEF MoveTo, Refused, TaskState
<1>3. pc'[r] \in CalledModel => state'[task[r]] = "Running"
  BY <1>1 DEF MoveTo, Goto, RunTypeOK, CalledModel, Transition, TypeOK
<1>4. RunIsSound(r)' /\ OthersUnmoved(r)
  BY <1>1 DEF MoveTo, Goto, RunTypeOK, RunsAreSound, RunIsSound, OthersUnmoved, Earned
<1>5. QED
  BY <1>1, <1>2, <1>3, <1>4 DEF StepIsSound, RunTypeOK

\* The last call of a run, wherever it comes to it.
LEMMA EndIsSound ==
  ASSUME NEW r \in Run, NEW here \in {"finish", "stop", "skip", "record blocked"},
         NEW result \in {"Done", "Stopped", "Blocked"},
         result = "Done" => here \in {"finish", "skip"},
         TypeOK, RunTypeOK, RunsAreSound,
         FinalMove(r, here, "Done", result) \/ FinalBlock(r, here, result)
  PROVE  StepIsSound(r)
<1>1. /\ pc[r] = here /\ task[r] \in TaskId
      /\ pc' = [pc EXCEPT ![r] = "returned"]
      /\ outcome' = [outcome EXCEPT ![r] = result]
      /\ UNCHANGED <<interactive, task, reply, typed>>
  BY DEF FinalMove, FinalBlock, Return, Goto, RunTypeOK, RunsAreSound, RunIsSound
<1>2. [BoardStep]_boardVars
  BY <1>1, RunCallsBoard DEF FinalMove, FinalBlock, Refused, TaskState
<1>3. RunTypeOK'
  BY <1>1 DEF RunTypeOK, Place
<1>4. RunIsSound(r)' /\ OthersUnmoved(r)
  BY <1>1 DEF RunTypeOK, RunsAreSound, RunIsSound, OthersUnmoved, Earned
<1>5. pc'[r] \notin CalledModel
  BY <1>1 DEF RunTypeOK, CalledModel
<1>6. QED
  BY <1>2, <1>3, <1>4, <1>5 DEF StepIsSound

\* Each step of a run, one by one.
LEMMA RunStepIsSound ==
  ASSUME NEW r \in Run, TypeOK, RunTypeOK, RunsAreSound, OwnStep(r) \/ AskHuman(r)
  PROVE  StepIsSound(r)
<1>1. CASE CreateTask(r)
  <2>1. /\ pc[r] = "create" /\ outcome[r] = "none"
        /\ UNCHANGED <<interactive, reply, typed>>
    BY <1>1 DEF CreateTask, RunsAreSound, RunIsSound
  <2>2. CASE \E t \in TaskId : /\ Create(t, Agent, {})
                               /\ task' = [task EXCEPT ![r] = t]
                               /\ Goto(r, "todo")
                               /\ UNCHANGED outcome
    <3>1. [BoardStep]_boardVars
      BY <2>2, RunCallsBoard DEF TaskState
    <3>2. RunTypeOK' /\ pc'[r] = "todo"
      BY <2>1, <2>2 DEF Goto, RunTypeOK, Place
    <3>3. RunIsSound(r)' /\ OthersUnmoved(r)
      BY <2>1, <2>2, <3>2 DEF Goto, RunTypeOK, RunsAreSound, RunIsSound, OthersUnmoved, Earned
    <3>4. QED
      BY <3>1, <3>2, <3>3 DEF StepIsSound, CalledModel
  <2>3. CASE Refused({}) /\ Return(r, "Blocked") /\ UNCHANGED task
    <3>1. RunTypeOK' /\ pc'[r] = "returned" /\ outcome'[r] = "Blocked"
      BY <2>1, <2>3 DEF Return, Goto, RunTypeOK, Place
    <3>2. RunIsSound(r)' /\ OthersUnmoved(r)
      BY <2>1, <2>3, <3>1 DEF Return, Goto, RunTypeOK, RunsAreSound, RunIsSound, OthersUnmoved, Earned
    <3>3. QED
      BY <2>3, <3>1, <3>2 DEF StepIsSound, CalledModel, Refused
  <2>4. QED
    BY <1>1, <2>2, <2>3 DEF CreateTask
<1>2. CASE \/ MoveTo(r, "todo", "Todo", "ready")
           \/ MoveTo(r, "ready", "Ready", "claim")
           \/ MoveTo(r, "running", "Running", "execute")
  BY <1>2, MoveIsSound
<1>3. CASE ClaimTask(r)
  <2>1. /\ pc[r] = "claim" /\ task[r] \in TaskId /\ outcome[r] = "none"
        /\ UNCHANGED <<interactive, task, reply, typed, outcome>>
    BY <1>3 DEF ClaimTask, RunsAreSound, RunIsSound
  <2>2. [BoardStep]_boardVars
    BY <1>3, <2>1, RunCallsBoard DEF ClaimTask, Refused, TaskState
  <2>3. RunTypeOK' /\ pc'[r] \in {"running", "record blocked"}
    BY <1>3, <2>1 DEF ClaimTask, Goto, RunTypeOK, Place
  <2>4. RunIsSound(r)' /\ OthersUnmoved(r)
    BY <1>3, <2>1, <2>3 DEF ClaimTask, Goto, RunTypeOK, RunsAreSound, RunIsSound, OthersUnmoved
  <2>5. QED
    BY <2>2, <2>3, <2>4 DEF StepIsSound, CalledModel
<1>4. CASE Generate(r)
  <2>1. /\ pc[r] = "execute" /\ task[r] \in TaskId /\ outcome[r] = "none"
        /\ pc' = [pc EXCEPT ![r] = "log"]
        /\ UNCHANGED <<boardVars, interactive, task, typed, outcome>>
    BY <1>4 DEF Generate, Goto, RunsAreSound, RunIsSound
  <2>2. PICK answer \in Reply : reply' = [reply EXCEPT ![r] = answer]
    BY <1>4 DEF Generate
  <2>3. RunTypeOK' /\ RunIsSound(r)' /\ OthersUnmoved(r)
    BY <2>1, <2>2 DEF RunTypeOK, Place, RunIsSound, OthersUnmoved
  <2>4. QED
    BY <2>1, <2>3 DEF StepIsSound, CalledModel
<1>5. CASE LogCall(r)
  <2>1. /\ pc[r] = "log" /\ task[r] \in TaskId /\ outcome[r] = "none" /\ reply[r] \in Reply
        /\ pc' = [pc EXCEPT ![r] = IF Verdict(reply[r]) = "done" THEN "finish" ELSE "escalate"]
        /\ UNCHANGED <<boardVars, interactive, task, reply, typed, outcome>>
    BY <1>5 DEF LogCall, Goto, RunsAreSound, RunIsSound
  <2>2. RunTypeOK' /\ RunIsSound(r)' /\ OthersUnmoved(r)
    BY <2>1 DEF RunTypeOK, Place, RunIsSound, OthersUnmoved
  <2>3. QED
    BY <2>1, <2>2 DEF StepIsSound, CalledModel
<1>6. CASE AskScript(r) \/ AskHuman(r)
  <2>1. PICK response : /\ HandleBlocked(r, response)
                        /\ response = "skip" => /\ interactive /\ typed'[r] \in Typed
                                                /\ Answered(typed'[r]) = "skip"
                        /\ \/ UNCHANGED typed
                           \/ \E lines \in Typed : typed' = [typed EXCEPT ![r] = lines]
    <3>1. CASE AskScript(r)
      BY <3>1 DEF AskScript, Scripted
    <3>2. CASE AskHuman(r)
      <4>1. PICK lines \in Typed : /\ typed' = [typed EXCEPT ![r] = lines]
                                   /\ HandleBlocked(r, Answered(lines))
        BY <3>2 DEF AskHuman
      <4>2. interactive /\ typed'[r] = lines
        BY <3>2, <4>1 DEF AskHuman, RunTypeOK
      <4>3. QED
        BY <4>1, <4>2
    <3>3. QED
      BY <1>6, <3>1, <3>2
  <2>2. /\ pc[r] = "escalate" /\ task[r] \in TaskId /\ outcome[r] = "none"
        /\ UNCHANGED <<boardVars, interactive, task, reply, outcome>>
        /\ \/ pc' = [pc EXCEPT ![r] = "skip"] /\ response = "skip"
           \/ \E next \in {"stop", "record blocked"} : pc' = [pc EXCEPT ![r] = next]
    BY <2>1 DEF HandleBlocked, Goto, RunsAreSound, RunIsSound
  <2>3. RunTypeOK' /\ pc'[r] \notin CalledModel
    BY <2>1, <2>2 DEF RunTypeOK, Place, CalledModel
  <2>4. RunIsSound(r)' /\ OthersUnmoved(r)
    BY <2>1, <2>2 DEF RunTypeOK, RunIsSound, OthersUnmoved, Earned
  <2>5. QED
    BY <2>2, <2>3, <2>4 DEF StepIsSound
<1>7. CASE Finish(r) \/ StopTask(r) \/ SkipTask(r) \/ RecordBlocked(r)
  BY <1>7, EndIsSound DEF Finish, StopTask, SkipTask, RecordBlocked
<1>8. QED
  BY <1>1, <1>2, <1>3, <1>4, <1>5, <1>6, <1>7 DEF OwnStep

-----------------------------------------------------------------------------
\* Whoever moves: a step of the program is a call of the board or none, and leaves
\* every run sound.
LEMMA RunsKept ==
  ASSUME TypeOK, RunTypeOK, RunsAreSound, [PipelineNext]_vars
  PROVE  [BoardStep]_boardVars /\ RunTypeOK' /\ RunsAreSound'
<1>1. ASSUME NEW r \in Run, OwnStep(r) \/ AskHuman(r)
      PROVE  [BoardStep]_boardVars /\ RunTypeOK' /\ RunsAreSound'
  <2>1. StepIsSound(r)
    BY <1>1, RunStepIsSound
  <2>2. ASSUME NEW q \in Run, q # r
        PROVE  RunIsSound(q)'
    BY <2>1, <2>2 DEF StepIsSound, OthersUnmoved, RunsAreSound, RunIsSound, Earned
  <2>3. QED
    BY <2>1, <2>2 DEF StepIsSound, RunsAreSound
<1>2. CASE Others \/ UNCHANGED vars
  <2>1. [BoardStep]_boardVars
    BY <1>2 DEF Others, BoardStep, vars
  <2>2. UNCHANGED <<interactive, pc, task, reply, typed, outcome>>
    BY <1>2 DEF Others, vars, runVars
  <2>3. QED
    BY <2>1, <2>2 DEF RunTypeOK, RunsAreSound, RunIsSound, Earned
<1>3. QED
  BY <1>1, <1>2 DEF PipelineNext

\* What a step does to the row and the trail of one task: the trail stays and the
\* state does or the row is new; or a legal move is made and written down.
LEMMA RowAndTrail ==
  ASSUME TypeOK, [BoardStep]_boardVars, NEW t \in TaskId
  PROVE  \/ history'[t] = history[t] /\ state'[t] \in {state[t], "Backlog"}
         \/ /\ IsLegalTransition(state[t], state'[t])
            /\ history'[t] = Append(history[t], [from |-> state[t], to |-> state'[t]])
<1> USE DEF TypeOK
<1>1. ASSUME NEW u \in TaskId, NEW a \in Actor,
             NEW deps \in SUBSET (TaskId \cup DanglingId), Create(u, a, deps)
      PROVE  history'[t] = history[t] /\ state'[t] \in {state[t], "Backlog"}
  BY <1>1 DEF Create
<1>2. ASSUME NEW u \in TaskId, NEW to \in TaskState, u # t, Transition(u, to)
      PROVE  history'[t] = history[t] /\ state'[t] = state[t]
  BY <1>2 DEF Transition, Record
<1>3. ASSUME NEW to \in TaskState, Transition(t, to)
      PROVE  /\ IsLegalTransition(state[t], state'[t])
             /\ history'[t] = Append(history[t], [from |-> state[t], to |-> state'[t]])
  BY <1>3, MoveGuard DEF Transition, Record
<1>4. ASSUME NEW u \in TaskId, NEW a \in Actor, Claim(u, a)
      PROVE  history'[t] = history[t] /\ state'[t] = state[t]
  BY <1>4 DEF Claim
<1>5. ASSUME NEW u \in TaskId, NEW x \in Reason, u # t, Block(u, x)
      PROVE  history'[t] = history[t] /\ state'[t] = state[t]
  BY <1>5 DEF Block, Record
<1>6. ASSUME NEW x \in Reason, Block(t, x)
      PROVE  /\ IsLegalTransition(state[t], state'[t])
             /\ history'[t] = Append(history[t], [from |-> state[t], to |-> state'[t]])
  <2>1. state[t] = "Running" /\ state'[t] = "Blocked"
    BY <1>6, BlockGuard DEF Block
  <2>2. QED
    BY <1>6, <2>1 DEF Block, Record, IsLegalTransition, LegalMoves
<1>7. CASE UNCHANGED boardVars
  BY <1>7 DEF boardVars
<1>8. QED
  BY <1>1, <1>2, <1>3, <1>4, <1>5, <1>6, <1>7 DEF BoardStep

\* Trails only grow.
LEMMA WentToRunningLasts ==
  ASSUME TypeOK, [BoardStep]_boardVars, NEW t \in TaskId, WentToRunning(t)
  PROVE  WentToRunning(t)'
<1>1. PICK i \in DOMAIN history[t] : history[t][i] = [from |-> "Ready", to |-> "Running"]
  BY DEF WentToRunning
<1>2. history[t] \in Seq(StateChange) /\ history'[t] \in Seq(StateChange)
  BY TypeKept DEF TypeOK
<1>3. \/ history'[t] = history[t]
      \/ history'[t] = Append(history[t], [from |-> state[t], to |-> state'[t]])
  BY RowAndTrail
<1>4. i \in DOMAIN history'[t] /\ history'[t][i] = history[t][i]
  BY <1>1, <1>2, <1>3
<1>5. QED
  BY <1>1, <1>4 DEF WentToRunning

\* A task that is Running or Blocked was once moved from Ready to Running, however
\* often it was blocked and taken up again since.
WorkedOn == \A t \in TaskId : state[t] \in {"Running", "Blocked"} => WentToRunning(t)

LEMMA WorkedOnKept ==
  ASSUME TypeOK, WorkedOn, [BoardStep]_boardVars
  PROVE  WorkedOn'
<1>1. SUFFICES ASSUME NEW t \in TaskId, state'[t] \in {"Running", "Blocked"}
               PROVE  WentToRunning(t)'
  BY DEF WorkedOn
<1>2. CASE state[t] \in {"Running", "Blocked"}
  BY <1>2, WentToRunningLasts DEF WorkedOn
<1>3. CASE state[t] \notin {"Running", "Blocked"}
  <2>1. /\ state[t] = "Ready" /\ state'[t] = "Running"
        /\ history'[t] = Append(history[t], [from |-> "Ready", to |-> "Running"])
    BY <1>1, <1>3, RowAndTrail DEF IsLegalTransition, LegalMoves
  <2>2. history[t] \in Seq(StateChange) /\ [from |-> "Ready", to |-> "Running"] \in StateChange
    BY DEF TypeOK, StateChange, TaskState
  <2>3. /\ Len(history[t]) + 1 \in DOMAIN history'[t]
        /\ history'[t][Len(history[t]) + 1] = [from |-> "Ready", to |-> "Running"]
    BY <2>1, <2>2
  <2>4. QED
    BY <2>3 DEF WentToRunning
<1>4. QED
  BY <1>2, <1>3

\* A run that has come to the model keeps its task, and the task its trail.
LEMMA ModelKept ==
  ASSUME TypeOK, RunTypeOK, RunsAreSound, WorkedOn, ModelNeedsRunning, [PipelineNext]_vars
  PROVE  ModelNeedsRunning'
<1>1. SUFFICES ASSUME NEW q \in Run, pc'[q] \in CalledModel
               PROVE  \E i \in DOMAIN history'[task'[q]] :
                        history'[task'[q]][i] = [from |-> "Ready", to |-> "Running"]
  BY DEF ModelNeedsRunning, CalledModel, WentToRunning
<1>2. [BoardStep]_boardVars /\ WorkedOn' /\ RunsAreSound'
  BY RunsKept, WorkedOnKept
<1>3. /\ task'[q] = task[q]
      /\ pc[q] \in CalledModel \/ state'[task[q]] = "Running"
  <2>1. ASSUME NEW r \in Run, OwnStep(r) \/ AskHuman(r)
        PROVE  /\ task'[q] = task[q]
               /\ pc[q] \in CalledModel \/ state'[task[q]] = "Running"
    <3>1. StepIsSound(r)
      BY <2>1, RunStepIsSound
    <3>2. QED
      BY <1>1, <3>1 DEF StepIsSound, OthersUnmoved
  <2>2. CASE Others \/ UNCHANGED vars
    <3>1. UNCHANGED <<pc, task>>
      BY <2>2 DEF Others, vars, runVars
    <3>2. QED
      BY <1>1, <3>1
  <2>3. QED
    BY <2>1, <2>2 DEF PipelineNext
<1>4. task[q] \in TaskId
  BY <1>1, <1>2, <1>3 DEF RunsAreSound, RunIsSound, CalledModel
<1>5. PICK t \in TaskId : t = task[q]
  BY <1>4
<1>6. WentToRunning(t)'
  <2>1. CASE pc[q] \in CalledModel
    <3>1. WentToRunning(t)
      BY <1>5, <2>1 DEF ModelNeedsRunning, CalledModel
    <3>2. QED
      BY <1>2, <3>1, WentToRunningLasts
  <2>2. CASE state'[task[q]] = "Running"
    BY <1>2, <1>5, <2>2 DEF WorkedOn
  <2>3. QED
    BY <1>3, <2>1, <2>2
<1>7. QED
  BY <1>3, <1>5, <1>6 DEF WentToRunning

-----------------------------------------------------------------------------
\* What holds of the program at any time.
ProgramInv ==
  /\ TypeOK /\ RunTypeOK /\ RunsAreSound
  /\ WorkedOn /\ ModelNeedsRunning

LEMMA ProgramHolds == WyrtloomSpec => []ProgramInv
<1>1. WyrtloomInit => ProgramInv
  <2> SUFFICES ASSUME WyrtloomInit PROVE ProgramInv
    OBVIOUS
  <2>1. Init /\ PipelineInit
    BY DEF WyrtloomInit, PipelineInit
  <2>2. TypeOK
    BY <2>1 DEF Init, TypeOK
  <2>3. RunTypeOK /\ RunsAreSound
    BY <2>1 DEF PipelineInit, RunTypeOK, Place, RunsAreSound, RunIsSound
  <2>4. WorkedOn
    BY <2>1, BoardAssumption DEF Init, WorkedOn, TaskState
  <2>5. ModelNeedsRunning
    BY <2>1 DEF PipelineInit, ModelNeedsRunning
  <2>6. QED
    BY <2>2, <2>3, <2>4, <2>5 DEF ProgramInv
<1>2. ProgramInv /\ [WyrtloomNext]_programVars => ProgramInv'
  <2> SUFFICES ASSUME ProgramInv, [WyrtloomNext]_programVars PROVE ProgramInv'
    OBVIOUS
  <2>1. [PipelineNext]_vars
    BY DEF WyrtloomNext, RegisterPlugin, BootStep, RunStep, EventStep, programVars
  <2>2. [BoardStep]_boardVars /\ RunTypeOK' /\ RunsAreSound'
    BY <2>1, RunsKept DEF ProgramInv
  <2>3. TypeOK' /\ WorkedOn' /\ ModelNeedsRunning'
    BY <2>1, <2>2, TypeKept, WorkedOnKept, ModelKept DEF ProgramInv
  <2>4. QED
    BY <2>2, <2>3 DEF ProgramInv
<1>3. QED
  BY <1>1, <1>2, PTL DEF WyrtloomSpec

\* A run reports Done only if the model said so, or a human skipped the task.
THEOREM SuccessIsEarned == WyrtloomSpec => []DoneIsEarned
<1>1. ProgramInv => DoneIsEarned
  <2> SUFFICES ASSUME ProgramInv, NEW r \in Run, outcome[r] = "Done"
               PROVE  \/ /\ reply[r].fate = "answered" /\ reply[r].status < 400
                         /\ reply[r].body # <<>> /\ reply[r].body[Len(reply[r].body)] = "done"
                      \/ interactive /\ typed[r] # <<>> /\ typed[r][1] = "2"
    BY DEF DoneIsEarned
  <2>1. Earned(r)
    BY DEF ProgramInv, RunsAreSound, RunIsSound
  <2>2. CASE reply[r] \in Reply /\ Verdict(reply[r]) = "done"
    BY <2>2, VerdictDone, PipelineAssumption
  <2>3. CASE interactive /\ typed[r] \in Typed /\ Answered(typed[r]) = "skip"
    BY <2>3, SkipIsSecond, PipelineAssumption
  <2>4. QED
    BY <2>1, <2>2, <2>3 DEF Earned
<1>2. QED
  BY <1>1, ProgramHolds, PTL

\* The model is called for a task only after the task was moved to Running.
THEOREM ModelIsForRunning == WyrtloomSpec => []ModelNeedsRunning
<1>1. ProgramInv => ModelNeedsRunning
  BY DEF ProgramInv
<1>2. QED
  BY <1>1, ProgramHolds, PTL

-----------------------------------------------------------------------------
(* Numbers. *)

\* A nonempty set of natural numbers has a least element.
LEMMA LeastNatural ==
  ASSUME NEW T \in SUBSET Nat, T # {}
  PROVE  \E n \in T : \A m \in T : n <= m
<1>1. \A x, y \in Nat : x < y => <<x, y>> \in OpToRel(<, Nat)
  BY DEF OpToRel
<1>2. PICK n \in T : \A m \in T : <<m, n>> \notin OpToRel(<, Nat)
  <2>1. \E n \in T : \A m \in T : <<m, n>> \notin OpToRel(<, Nat)
    BY NatLessThanWellFounded, WFMin
  <2>2. QED
    BY <2>1
<1>3. ASSUME NEW m \in T
      PROVE  n <= m
  <2>1. n \in Nat /\ m \in Nat
    OBVIOUS
  <2>2. ~(m < n)
    BY <1>1, <1>2, <2>1
  <2>3. QED
    BY <2>1, <2>2
<1>4. QED
  BY <1>3

\* A nonempty set of numbers has a least element, and a greatest if it is bounded.
LEMMA MinIsLeast ==
  ASSUME NEW S \in SUBSET Nat, S # {}
  PROVE  Min(S) \in S /\ \A y \in S : Min(S) <= y
<1>1. \E x \in S : \A y \in S : x =< y
  BY LeastNatural
<1>2. QED
  BY <1>1 DEF Min

LEMMA MaxIsGreatest ==
  ASSUME NEW S \in SUBSET Nat, S # {}, NEW n \in Nat, \A y \in S : y <= n
  PROVE  Max(S) \in S /\ \A y \in S : y <= Max(S)
<1> DEFINE bounds == {b \in Nat : \A y \in S : y <= b}
<1>1. n \in bounds /\ bounds \in SUBSET Nat
  OBVIOUS
<1>2. PICK b \in bounds : \A m \in bounds : b <= m
  <2> HIDE DEF bounds
  <2>1. QED
    BY <1>1, LeastNatural
<1>3. b \in S
  <2> SUFFICES ASSUME b \notin S
               PROVE  FALSE
    OBVIOUS
  <2>1. PICK y \in S : TRUE
    OBVIOUS
  <2>2. b \in Nat /\ y \in Nat /\ y <= b /\ y # b
    BY <1>2
  <2>3. b - 1 \in Nat /\ ~(b <= b - 1)
    BY <2>2
  <2>4. \A z \in S : z <= b - 1
    <3>1. ASSUME NEW z \in S PROVE z <= b - 1
      <4>1. z \in Nat /\ z <= b /\ z # b
        BY <1>2
      <4>2. QED
        BY <2>2, <4>1
    <3>2. QED
      BY <3>1
  <2>5. b - 1 \in bounds
    BY <2>3, <2>4
  <2> HIDE DEF bounds
  <2>6. QED
    BY <1>2, <2>3, <2>5
<1>4. \A y \in S : b >= y
  BY <1>2, <1>3
<1>5. \E x \in S : \A y \in S : x >= y
  BY <1>3, <1>4
<1>6. Max(S) \in S /\ \A y \in S : Max(S) >= y
  BY <1>5 DEF Max
<1>7. QED
  BY <1>6

\* In a set of more than n numbers, one has n - 1 above it.
LEMMA TailExists ==
  ASSUME NEW N \in Nat, NEW S \in SUBSET (1..N), NEW n \in Nat \ {0}, Cardinality(S) > n
  PROVE  \E i \in S : Cardinality({j \in S : j >= i}) = n
<1> DEFINE From(i) == {j \in S : j >= i}
<1>1. \A j \in S : j \in Nat /\ 1 <= j /\ j <= N
  OBVIOUS
<1>2. IsFiniteSet(S)
  <2>1. IsFiniteSet(1..N) /\ S \subseteq 1..N
    BY FS_Interval
  <2>2. QED
    BY <2>1, FS_Subset
<1>3. \A i : From(i) \subseteq S /\ \A j : j \in From(i) <=> j \in S /\ j >= i
  OBVIOUS
<1>4. SUFFICES \E i \in S : Cardinality(From(i)) = n
  OBVIOUS
<1> HIDE DEF From
<1>5. \A i : IsFiniteSet(From(i)) /\ Cardinality(From(i)) \in Nat
  BY <1>2, <1>3, FS_Subset, FS_CardinalityType
<1> DEFINE T == {i \in 1..(N + 1) : Cardinality(From(i)) <= n}
<1>6. N + 1 \in T
  <2>1. \A j \in S : ~(j >= N + 1)
    BY <1>1
  <2>2. From(N + 1) = {}
    BY <1>3, <2>1
  <2>3. Cardinality(From(N + 1)) = 0 /\ N + 1 \in 1..(N + 1)
    BY <2>2, FS_EmptySet
  <2>4. QED
    BY <2>3
<1>7. PICK i \in T : \A j \in T : i <= j
  <2>1. T \in SUBSET Nat /\ T # {}
    BY <1>6
  <2> HIDE DEF T
  <2>2. QED
    BY <2>1, LeastNatural
<1>8. i # 1
  <2>1. From(1) = S
    BY <1>1, <1>3
  <2>2. Cardinality(S) \in Nat
    BY <1>2, FS_CardinalityType
  <2>3. QED
    BY <1>7, <2>1, <2>2
<1>9. i \in Nat /\ i - 1 \in Nat /\ i - 1 \in 1..(N + 1) /\ ~(i <= i - 1) /\ Cardinality(From(i)) <= n
  BY <1>7, <1>8
<1>10. ~(Cardinality(From(i - 1)) <= n)
  BY <1>7, <1>9
<1>11. Cardinality(From(i - 1)) <= Cardinality(From(i)) + 1
  <2>1. i - 1 \notin From(i)
    BY <1>3, <1>9
  <2>2. \A j \in S : j >= i - 1 => j >= i \/ j = i - 1
    BY <1>1, <1>9
  <2>3. From(i - 1) \subseteq From(i) \cup {i - 1}
    BY <1>3, <2>2
  <2>4. /\ IsFiniteSet(From(i) \cup {i - 1})
        /\ Cardinality(From(i) \cup {i - 1}) = Cardinality(From(i)) + 1
    BY <1>5, <2>1, FS_AddElement
  <2>5. QED
    BY <2>3, <2>4, FS_Subset
<1>12. Cardinality(From(i)) = n
  <2> DEFINE c == Cardinality(From(i))
             d == Cardinality(From(i - 1))
  <2>1. c \in Nat /\ d \in Nat /\ c <= n /\ ~(d <= n) /\ d <= c + 1
    BY <1>5, <1>9, <1>10, <1>11
  <2> HIDE DEF c, d
  <2>2. c = n
    BY <2>1
  <2>3. QED
    BY <2>2 DEF c
<1>13. From(i) # {}
  BY <1>12, FS_EmptySet
<1>14. PICK k \in From(i) : \A j \in From(i) : k <= j
  <2>1. From(i) \in SUBSET Nat
    BY <1>1, <1>3
  <2>2. QED
    BY <1>13, <2>1, LeastNatural
<1>15. k \in S /\ k \in Nat /\ i <= k
  BY <1>1, <1>3, <1>9, <1>14
<1>16. \A j \in S : j >= i <=> j >= k
  BY <1>1, <1>3, <1>9, <1>14, <1>15
<1>17. From(k) = From(i)
  BY <1>3, <1>16
<1>18. QED
  BY <1>12, <1>15, <1>17

-----------------------------------------------------------------------------
(* The bus. *)

Receiver == [channel : Nat, topic : Topic, since : Nat, next : Nat \ {0}, got : Seq(Nat)]
Event == [topic : Topic, channel : Nat]

\* A topic keeps the channel it was given; in a bus that knows topics, no two have the
\* same; and every event is on the channel of its topic.
ChannelsOK ==
  /\ busKind \in {"bootstrap", "tokio"}
  /\ channelOf \in [Topic -> Nat]
  /\ \E n \in Nat : \A t \in Topic : channelOf[t] <= n
  /\ busKind = "bootstrap" => \A t \in Topic : channelOf[t] = 1
  /\ busKind = "tokio" =>
       \A t, u \in Topic : channelOf[t] = channelOf[u] /\ channelOf[t] # 0 => t = u
  /\ sent \in Seq(Event)
  /\ \A i \in DOMAIN sent : sent[i].channel # 0 /\ sent[i].channel = channelOf[sent[i].topic]

\* What a subscriber has got was due to it and lies behind it; what was due to it, lies
\* behind it and is not got was dropped for Capacity events that came later.
SubscriberOK(s) ==
  LET me == receiver[s] IN
  /\ me.channel = channelOf[me.topic]
  /\ me.since < me.next /\ me.next <= Len(sent) + 1
  /\ \A k \in DOMAIN me.got : me.got[k] \in Due(s) /\ me.got[k] < me.next
  /\ \A i, j \in DOMAIN me.got : i < j => me.got[i] < me.got[j]
  /\ \A i \in Due(s) :
       \/ i >= me.next
       \/ i \in Range(me.got)
       \/ Cardinality({j \in Due(s) : j > i}) >= Capacity

BusInv ==
  /\ ChannelsOK
  /\ receiver \in [Subscriber -> Receiver]
  /\ \A s \in Subscriber : receiver[s].channel # 0 => SubscriberOK(s)

LEMMA DueIsFinite ==
  ASSUME BusInv, NEW s \in Subscriber
  PROVE  /\ Len(sent) \in Nat /\ Due(s) \subseteq 1..Len(sent)
         /\ IsFiniteSet(Due(s)) /\ \A i : IsFiniteSet({j \in Due(s) : j > i})
<1>1. Len(sent) \in Nat /\ receiver[s].since \in Nat
  BY DEF BusInv, ChannelsOK, Receiver
<1>2. Due(s) \subseteq 1..Len(sent)
  BY <1>1 DEF Due
<1> HIDE DEF Due
<1>3. IsFiniteSet(Due(s))
  <2>1. IsFiniteSet(1..Len(sent))
    BY <1>1, FS_Interval
  <2>2. QED
    BY <1>2, <2>1, FS_Subset
<1>4. \A i : {j \in Due(s) : j > i} \subseteq Due(s)
  OBVIOUS
<1>5. QED
  BY <1>1, <1>2, <1>3, <1>4, FS_Subset

\* A channel carries what is due to its receivers, and nothing else.
LEMMA AheadIsDue ==
  ASSUME BusInv, NEW s \in Subscriber, receiver[s].channel # 0
  PROVE  \A i : i \in Ahead(s) <=> i \in Due(s) /\ i >= receiver[s].next
<1> DEFINE me == receiver[s]
<1>1. /\ me.channel = channelOf[me.topic] /\ me.topic \in Topic
      /\ me.since \in Nat /\ me.next \in Nat /\ me.since < me.next /\ Len(sent) \in Nat
  BY DEF BusInv, SubscriberOK, ChannelsOK, Receiver
<1>2. ASSUME NEW i \in DOMAIN sent
      PROVE  sent[i].channel = me.channel <=> busKind = "bootstrap" \/ sent[i].topic = me.topic
  <2>1. /\ sent[i].channel # 0 /\ sent[i].channel = channelOf[sent[i].topic]
        /\ sent[i].topic \in Topic
    <3>1. sent \in Seq(Event)
      BY DEF BusInv, ChannelsOK
    <3>2. sent[i] \in Event
      BY <3>1
    <3>3. sent[i].topic \in Topic
      BY <3>2 DEF Event
    <3>4. QED
      BY <3>3 DEF BusInv, ChannelsOK
  <2>2. CASE busKind = "bootstrap"
    BY <1>1, <2>1, <2>2 DEF BusInv, ChannelsOK
  <2>3. CASE busKind = "tokio"
    BY <1>1, <2>1, <2>3 DEF BusInv, ChannelsOK
  <2>4. QED
    BY <2>2, <2>3 DEF BusInv, ChannelsOK
<1>3. DOMAIN sent = 1..Len(sent)
  BY DEF BusInv, ChannelsOK
<1>4. \A i : i \in Ahead(s) <=> i \in me.next..Len(sent) /\ sent[i].channel = me.channel
  BY DEF Ahead
<1>5. \A i : i \in Due(s) <=>
        /\ i \in (me.since + 1)..Len(sent)
        /\ busKind = "bootstrap" \/ sent[i].topic = me.topic
  BY DEF Due
<1> HIDE DEF me
<1>6. \A i : i \in me.next..Len(sent) <=> i \in (me.since + 1)..Len(sent) /\ i >= me.next
  BY <1>1
<1>7. \A i \in me.next..Len(sent) : i \in DOMAIN sent
  BY <1>1, <1>3
<1>8. QED
  BY <1>2, <1>4, <1>5, <1>6, <1>7 DEF me

\* What get_or_create_sender does to the channels: the one of the topic is its own, the
\* others stay.
LEMMA SenderIsSound ==
  ASSUME ChannelsOK, NEW t \in Topic, channelOf' = [channelOf EXCEPT ![t] = Sender(t)],
         busKind' = busKind
  PROVE  /\ Sender(t) \in Nat \ {0} /\ channelOf' \in [Topic -> Nat] /\ channelOf'[t] = Sender(t)
         /\ \A u \in Topic : channelOf[u] # 0 => channelOf'[u] = channelOf[u]
         /\ \E n \in Nat : \A u \in Topic : channelOf'[u] <= n
         /\ busKind = "bootstrap" => \A u \in Topic : channelOf'[u] = 1
         /\ busKind = "tokio" =>
              \A x, u \in Topic : channelOf'[x] = channelOf'[u] /\ channelOf'[x] # 0 => x = u
<1>1. /\ channelOf \in [Topic -> Nat] /\ busKind \in {"bootstrap", "tokio"}
      /\ busKind = "bootstrap" => channelOf[t] = 1
  BY DEF ChannelsOK
<1>2. PICK n \in Nat : \A u \in Topic : channelOf[u] <= n
  BY DEF ChannelsOK
<1>3. CASE channelOf[t] # 0
  <2>1. Sender(t) = channelOf[t] /\ channelOf' = channelOf
    BY <1>1, <1>3 DEF Sender
  <2>2. QED
    BY <1>1, <1>2, <1>3, <2>1 DEF ChannelsOK
<1>4. CASE channelOf[t] = 0
  <2> DEFINE S == {0} \cup Range(channelOf)
             m == Max(S)
  <2>1. S \in SUBSET Nat /\ S # {} /\ \A y \in S : y <= n
    BY <1>1, <1>2 DEF Range
  <2>2. \A u \in Topic : channelOf[u] \in S
    BY <1>1 DEF Range
  <2> HIDE DEF S
  <2>3. m \in Nat /\ \A u \in Topic : channelOf[u] <= m
    BY <2>1, <2>2, MaxIsGreatest
  <2>4. Sender(t) = 1 + m
    BY <1>4 DEF Sender, NewChannel, S
  <2> HIDE DEF m
  <2>5. Sender(t) \in Nat \ {0} /\ \A u \in Topic : channelOf[u] # Sender(t)
    BY <1>1, <2>3, <2>4
  <2>6. /\ channelOf' \in [Topic -> Nat] /\ channelOf'[t] = Sender(t)
        /\ \A u \in Topic \ {t} : channelOf'[u] = channelOf[u]
    BY <1>1, <2>5
  <2>7. \E k \in Nat : \A u \in Topic : channelOf'[u] <= k
    <3>1. 1 + m \in Nat /\ \A u \in Topic : channelOf'[u] <= 1 + m
      BY <1>1, <2>3, <2>4, <2>6
    <3>2. QED
      BY <3>1
  <2>8. busKind = "tokio"
    BY <1>1, <1>4
  <2>9. \A x, u \in Topic : channelOf'[x] = channelOf'[u] /\ channelOf'[x] # 0 => x = u
    BY <2>5, <2>6, <2>8 DEF ChannelsOK
  <2>10. QED
    BY <1>4, <2>5, <2>6, <2>7, <2>8, <2>9
<1>5. QED
  BY <1>3, <1>4

\* An event is published: it is due to the receivers of its channel, ahead of them all.
LEMMA PublishKept ==
  ASSUME BusInv, NEW t \in Topic, Publish(t)
  PROVE  BusInv'
<1> DEFINE n == Len(sent)
           e == [topic |-> t, channel |-> Sender(t)]
<1>1. /\ channelOf' = [channelOf EXCEPT ![t] = Sender(t)] /\ busKind' = busKind
      /\ sent' = Append(sent, e) /\ receiver' = receiver
      /\ sent \in Seq(Event) /\ n \in Nat /\ ChannelsOK
  BY DEF Publish, BusInv, ChannelsOK
<1>2. /\ Sender(t) \in Nat \ {0} /\ channelOf' \in [Topic -> Nat] /\ channelOf'[t] = Sender(t)
      /\ \A u \in Topic : channelOf[u] # 0 => channelOf'[u] = channelOf[u]
      /\ \E k \in Nat : \A u \in Topic : channelOf'[u] <= k
      /\ busKind = "bootstrap" => \A u \in Topic : channelOf'[u] = 1
      /\ busKind = "tokio" =>
           \A x, u \in Topic : channelOf'[x] = channelOf'[u] /\ channelOf'[x] # 0 => x = u
  BY <1>1, SenderIsSound
<1>3. e \in Event
  BY <1>2 DEF Event
<1>4. /\ sent' \in Seq(Event) /\ Len(sent') = n + 1 /\ sent'[n + 1] = e
      /\ \A i \in 1..n : sent'[i] = sent[i] /\ sent[i] \in Event
      /\ DOMAIN sent' = 1..(n + 1) /\ DOMAIN sent = 1..n
      /\ \A i \in 1..(n + 1) : i = n + 1 \/ i \in 1..n
  <2> HIDE DEF e
  <2>1. QED
    BY <1>1, <1>3
<1>5. \A i \in DOMAIN sent' : sent'[i].channel # 0 /\ sent'[i].channel = channelOf'[sent'[i].topic]
  <2>1. sent'[n + 1].topic = t /\ sent'[n + 1].channel = Sender(t)
    BY <1>4
  <2>2. ASSUME NEW i \in 1..n
        PROVE  sent'[i].channel # 0 /\ sent'[i].channel = channelOf'[sent'[i].topic]
    <3>1. sent[i].channel # 0 /\ sent[i].channel = channelOf[sent[i].topic]
      BY <1>1, <1>4 DEF ChannelsOK
    <3>2. sent[i].topic \in Topic
      BY <1>4 DEF Event
    <3>3. channelOf'[sent[i].topic] = channelOf[sent[i].topic]
      BY <1>2, <3>1, <3>2
    <3>4. QED
      BY <1>4, <3>1, <3>3
  <2> HIDE DEF n
  <2>3. QED
    BY <1>2, <1>4, <2>1, <2>2
<1>6. ChannelsOK'
  BY <1>1, <1>2, <1>4, <1>5 DEF ChannelsOK
<1>7. ASSUME NEW s \in Subscriber, receiver[s].channel # 0
      PROVE  SubscriberOK(s)'
  <2> DEFINE me == receiver[s]
  <2>1. me \in Receiver /\ me.topic \in Topic /\ me.since \in Nat /\ me.next \in Nat
    BY DEF BusInv, Receiver
  <2>2. SubscriberOK(s)
    BY <1>7 DEF BusInv
  <2>3. me.since < me.next /\ me.next <= n + 1
    BY <2>2 DEF SubscriberOK
  <2>4. Due(s) \subseteq Due(s)' /\ Due(s)' \subseteq Due(s) \cup {n + 1}
    <3>1. \A i : i \in Due(s) <=>
            /\ i \in (me.since + 1)..n
            /\ busKind = "bootstrap" \/ sent[i].topic = me.topic
      BY DEF Due
    <3>2. \A i : i \in Due(s)' <=>
            /\ i \in (me.since + 1)..(n + 1)
            /\ busKind = "bootstrap" \/ sent'[i].topic = me.topic
      BY <1>1, <1>4 DEF Due
    <3>3. \A i : i \in (me.since + 1)..n => i \in (me.since + 1)..(n + 1) /\ i \in 1..n
      BY <1>1, <2>1
    <3>4. \A i : i \in (me.since + 1)..(n + 1) => i = n + 1 \/ i \in (me.since + 1)..n
      BY <1>1, <2>1
    <3> HIDE DEF me, n
    <3>5. QED
      BY <1>4, <3>1, <3>2, <3>3, <3>4
  <2>5. me.channel = channelOf'[me.topic]
    <3>1. me.channel = channelOf[me.topic] /\ me.channel # 0
      BY <1>7, <2>2 DEF SubscriberOK
    <3>2. QED
      BY <1>2, <2>1, <3>1
  <2>6. me.next <= Len(sent') + 1
    BY <1>1, <1>4, <2>1, <2>3
  <2>7. \A k \in DOMAIN me.got : me.got[k] \in Due(s)' /\ me.got[k] < me.next
    BY <2>2, <2>4 DEF SubscriberOK
  <2>8. \A i, j \in DOMAIN me.got : i < j => me.got[i] < me.got[j]
    BY <2>2 DEF SubscriberOK
  <2>9. ASSUME NEW i \in Due(s)'
        PROVE  \/ i >= me.next \/ i \in Range(me.got)
               \/ Cardinality({j \in Due(s)' : j > i}) >= Capacity
    <3>1. CASE i = n + 1
      BY <1>1, <2>1, <2>3, <3>1
    <3>2. CASE i \in Due(s) /\ Cardinality({j \in Due(s) : j > i}) >= Capacity
      <4>1. IsFiniteSet(Due(s)) /\ IsFiniteSet({j \in Due(s) : j > i})
        BY DueIsFinite
      <4>2. IsFiniteSet(Due(s)')
        BY <2>4, <4>1, FS_AddElement, FS_Subset
      <4>3. {j \in Due(s) : j > i} \subseteq {j \in Due(s)' : j > i}
            /\ {j \in Due(s)' : j > i} \subseteq Due(s)'
        BY <2>4
      <4>4. IsFiniteSet({j \in Due(s)' : j > i})
        BY <4>2, <4>3, FS_Subset
      <4> DEFINE a == Cardinality({j \in Due(s) : j > i})
                 b == Cardinality({j \in Due(s)' : j > i})
      <4>5. a \in Nat /\ b \in Nat /\ a <= b
        BY <4>1, <4>3, <4>4, FS_Subset, FS_CardinalityType
      <4>6. a >= Capacity
        BY <3>2
      <4> HIDE DEF a, b
      <4>7. b >= Capacity
        BY <4>5, <4>6, BusAssumption
      <4>8. QED
        BY <4>7 DEF b
    <3>3. CASE i \in Due(s) /\ ~(Cardinality({j \in Due(s) : j > i}) >= Capacity)
      BY <2>2, <3>3 DEF SubscriberOK
    <3>4. QED
      BY <2>4, <3>1, <3>2, <3>3
  <2>10. receiver'[s] = me
    BY <1>1
  <2> HIDE DEF me
  <2>11. QED
    BY <2>3, <2>5, <2>6, <2>7, <2>8, <2>9, <2>10 DEF SubscriberOK
<1>8. QED
  BY <1>1, <1>6, <1>7 DEF BusInv

\* One subscriber's receiver changes, and no event is published: the others stay sound.
LEMMA OthersStaySound ==
  ASSUME BusInv, NEW s \in Subscriber, NEW me \in Receiver,
         receiver' = [receiver EXCEPT ![s] = me], sent' = sent, busKind' = busKind,
         ChannelsOK', \A u \in Topic : channelOf[u] # 0 => channelOf'[u] = channelOf[u],
         me.channel # 0 => SubscriberOK(s)'
  PROVE  BusInv'
<1>1. receiver \in [Subscriber -> Receiver]
  BY DEF BusInv
<1>2. receiver' \in [Subscriber -> Receiver] /\ receiver'[s] = me
  BY <1>1
<1>3. ASSUME NEW x \in Subscriber, x # s, receiver'[x].channel # 0
      PROVE  SubscriberOK(x)'
  <2>1. receiver'[x] = receiver[x] /\ receiver[x] \in Receiver
    BY <1>1, <1>3
  <2>2. SubscriberOK(x) /\ receiver[x].topic \in Topic
    BY <1>3, <2>1 DEF BusInv, Receiver
  <2>3. Due(x)' = Due(x)
    BY <2>1 DEF Due
  <2>4. receiver[x].channel = channelOf'[receiver[x].topic]
    BY <1>3, <2>1, <2>2 DEF SubscriberOK
  <2>5. QED
    BY <2>1, <2>2, <2>3, <2>4 DEF SubscriberOK
<1>4. QED
  BY <1>2, <1>3 DEF BusInv

\* Nothing is due to a new subscriber.
LEMMA SubscribeKept ==
  ASSUME BusInv, NEW s \in Subscriber, NEW t \in Topic, Subscribe(s, t)
  PROVE  BusInv'
<1> DEFINE n == Len(sent)
           me == [channel |-> Sender(t), topic |-> t, since |-> n, next |-> n + 1, got |-> <<>>]
<1>1. /\ channelOf' = [channelOf EXCEPT ![t] = Sender(t)] /\ busKind' = busKind /\ sent' = sent
      /\ receiver' = [receiver EXCEPT ![s] = me] /\ receiver \in [Subscriber -> Receiver]
      /\ sent \in Seq(Event) /\ n \in Nat /\ DOMAIN sent = 1..n /\ ChannelsOK
  BY DEF Subscribe, BusInv, ChannelsOK
<1>2. /\ Sender(t) \in Nat \ {0} /\ channelOf' \in [Topic -> Nat] /\ channelOf'[t] = Sender(t)
      /\ \A u \in Topic : channelOf[u] # 0 => channelOf'[u] = channelOf[u]
      /\ \E k \in Nat : \A u \in Topic : channelOf'[u] <= k
      /\ busKind = "bootstrap" => \A u \in Topic : channelOf'[u] = 1
      /\ busKind = "tokio" =>
           \A x, u \in Topic : channelOf'[x] = channelOf'[u] /\ channelOf'[x] # 0 => x = u
  BY <1>1, SenderIsSound
<1>3. \A i \in DOMAIN sent : sent[i].channel # 0 /\ sent[i].channel = channelOf'[sent[i].topic]
  <2>1. ASSUME NEW i \in DOMAIN sent
        PROVE  sent[i].channel # 0 /\ sent[i].channel = channelOf'[sent[i].topic]
    <3>1. sent[i].channel # 0 /\ sent[i].channel = channelOf[sent[i].topic] /\ sent[i] \in Event
      BY <1>1 DEF ChannelsOK
    <3>2. sent[i].topic \in Topic
      BY <3>1 DEF Event
    <3>3. QED
      BY <1>2, <3>1, <3>2
  <2>2. QED
    BY <2>1
<1>4. ChannelsOK'
  BY <1>1, <1>2, <1>3 DEF ChannelsOK
<1>5. me \in Receiver
  BY <1>1, <1>2 DEF Receiver
<1>6. SubscriberOK(s)'
  <2>1. receiver'[s] = me
    BY <1>1
  <2>2. Due(s)' = {}
    BY <1>1, <2>1 DEF Due
  <2>3. /\ me.channel = channelOf'[me.topic] /\ me.since < me.next /\ me.next <= n + 1
        /\ DOMAIN me.got = {}
    BY <1>1, <1>2
  <2> HIDE DEF me
  <2>4. QED
    BY <1>1, <2>1, <2>2, <2>3 DEF SubscriberOK
<1> HIDE DEF me
<1>7. QED
  BY <1>1, <1>2, <1>4, <1>5, <1>6, OthersStaySound

\* Nothing is ahead of who has not subscribed.
LEMMA AheadHasChannel ==
  ASSUME BusInv, NEW s \in Subscriber, Ahead(s) # {}
  PROVE  receiver[s].channel # 0
<1>1. PICK j \in Ahead(s) : TRUE
  OBVIOUS
<1>2. j \in receiver[s].next..Len(sent) /\ sent[j].channel = receiver[s].channel
  BY <1>1 DEF Ahead
<1>3. receiver[s].next \in Nat \ {0} /\ DOMAIN sent = 1..Len(sent) /\ Len(sent) \in Nat
  BY DEF BusInv, ChannelsOK, Receiver
<1>4. j \in DOMAIN sent
  BY <1>2, <1>3
<1>5. sent[j].channel # 0
  BY <1>4 DEF BusInv, ChannelsOK
<1>6. QED
  BY <1>2, <1>5

\* One number more at the end of a sequence of numbers.
LEMMA OneMore ==
  ASSUME NEW g \in Seq(Nat), NEW n \in Nat, n = Len(g), NEW x \in Nat
  PROVE  /\ Append(g, x) \in Seq(Nat) /\ DOMAIN Append(g, x) = 1..(n + 1) /\ DOMAIN g = 1..n
         /\ Append(g, x)[n + 1] = x
         /\ \A k \in 1..n : Append(g, x)[k] = g[k] /\ g[k] \in Nat
         /\ \A k \in 1..(n + 1) : k = n + 1 \/ k \in 1..n
<1>1. Append(g, x) \in Seq(Nat) /\ DOMAIN Append(g, x) = 1..(n + 1) /\ DOMAIN g = 1..n
  OBVIOUS
<1>2. Append(g, x)[n + 1] = x /\ \A k \in 1..n : Append(g, x)[k] = g[k] /\ g[k] \in Nat
  OBVIOUS
<1>3. \A k \in 1..(n + 1) : k = n + 1 \/ k \in 1..n
  OBVIOUS
<1>4. QED
  BY <1>1, <1>2, <1>3

\* A receiver gets the first of what is ahead of it.
LEMMA ReceiveKept ==
  ASSUME BusInv, NEW s \in Subscriber, Receive(s)
  PROVE  BusInv'
<1> DEFINE me == receiver[s]
           i == Min(Ahead(s))
           n == Len(me.got)
           got == Append(me.got, i)
           new == [me EXCEPT !.next = i + 1, !.got = Append(@, i)]
<1>1. receiver \in [Subscriber -> Receiver] /\ me \in Receiver /\ Len(sent) \in Nat
  BY DEF BusInv, ChannelsOK
<1>2. /\ me.channel \in Nat /\ me.topic \in Topic /\ me.since \in Nat /\ me.next \in Nat \ {0}
      /\ me.got \in Seq(Nat) /\ n \in Nat
      /\ me = [channel |-> me.channel, topic |-> me.topic, since |-> me.since,
               next |-> me.next, got |-> me.got]
  BY <1>1 DEF Receiver
<1>3. me.channel # 0
  BY AheadHasChannel DEF Receive
<1>4. /\ SubscriberOK(s) /\ \A j : j \in Ahead(s) <=> j \in Due(s) /\ j >= me.next
  BY <1>3, AheadIsDue DEF BusInv
<1>5. Due(s) \subseteq 1..Len(sent)
  BY DueIsFinite
<1>6. i \in Due(s) /\ i >= me.next /\ \A j \in Due(s) : j >= me.next => i <= j
  <2>1. Ahead(s) \in SUBSET Nat /\ Ahead(s) # {}
    BY <1>1, <1>4, <1>5 DEF Receive
  <2> HIDE DEF i
  <2>2. i \in Ahead(s) /\ \A j \in Ahead(s) : i <= j
    BY <2>1, MinIsLeast DEF i
  <2>3. QED
    BY <1>4, <2>2
<1>7. /\ receiver' = [receiver EXCEPT ![s] = new]
      /\ channelOf' = channelOf /\ sent' = sent /\ busKind' = busKind
  BY DEF Receive
<1> HIDE DEF i
<1>8. i \in Nat \ {0} /\ i \in 1..Len(sent)
  BY <1>1, <1>5, <1>6
<1>9. /\ got \in Seq(Nat) /\ DOMAIN got = 1..(n + 1) /\ DOMAIN me.got = 1..n /\ got[n + 1] = i
      /\ \A k \in 1..n : got[k] = me.got[k] /\ me.got[k] \in Nat
      /\ \A k \in 1..(n + 1) : k = n + 1 \/ k \in 1..n
  BY <1>2, <1>8, OneMore
<1>10. new = [channel |-> me.channel, topic |-> me.topic, since |-> me.since,
              next |-> i + 1, got |-> got]
  <2>1. new = [me EXCEPT !.next = i + 1, !.got = got]
    OBVIOUS
  <2> HIDE DEF me, got, new
  <2>2. QED
    BY <1>2, <2>1
<1>11. new \in Receiver
  <2> HIDE DEF me, got, new
  <2>1. QED
    BY <1>2, <1>8, <1>9, <1>10 DEF Receiver
<1>12. ChannelsOK'
  BY <1>7 DEF BusInv, ChannelsOK
<1> HIDE DEF new
<1>13. receiver'[s] = new
  BY <1>1, <1>7
<1>14. Due(s)' = Due(s)
  BY <1>7, <1>10, <1>13 DEF Due
<1>15. /\ me.channel = channelOf[me.topic] /\ me.since < me.next
       /\ \A k \in 1..n : me.got[k] \in Due(s) /\ me.got[k] < me.next
       /\ \A k, l \in 1..n : k < l => me.got[k] < me.got[l]
       /\ \A j \in Due(s) :
            \/ j >= me.next \/ j \in Range(me.got)
            \/ Cardinality({k \in Due(s) : k > j}) >= Capacity
  BY <1>4, <1>9 DEF SubscriberOK
<1> HIDE DEF me, n, got
<1>16. me.since < i + 1 /\ i + 1 <= Len(sent) + 1
  BY <1>1, <1>2, <1>6, <1>8, <1>15
<1>17. \A k \in 1..(n + 1) : got[k] \in Due(s) /\ got[k] < i + 1
  <2>1. ASSUME NEW k \in 1..n
        PROVE  got[k] \in Due(s) /\ got[k] < i + 1
    <3>1. me.got[k] \in Nat /\ me.got[k] < me.next /\ me.got[k] \in Due(s) /\ got[k] = me.got[k]
      BY <1>9, <1>15
    <3>2. QED
      BY <1>2, <1>6, <1>8, <3>1
  <2>2. i < i + 1
    BY <1>8
  <2>3. QED
    BY <1>6, <1>9, <2>1, <2>2
<1>18. \A k, l \in 1..(n + 1) : k < l => got[k] < got[l]
  <2>1. ASSUME NEW k \in 1..n
        PROVE  got[k] < i
    <3>1. me.got[k] \in Nat /\ me.got[k] < me.next /\ got[k] = me.got[k]
      BY <1>9, <1>15
    <3>2. QED
      BY <1>2, <1>6, <1>8, <3>1
  <2>2. \A k \in 1..(n + 1) : k < n + 1 => k \in 1..n
    BY <1>2
  <2>3. \A k \in 1..(n + 1), l \in 1..n : k < l => k \in 1..n
    BY <1>2
  <2>4. QED
    BY <1>9, <1>15, <2>1, <2>2, <2>3
<1>19. ASSUME NEW j \in Due(s)
       PROVE  \/ j >= i + 1 \/ j \in Range(got)
              \/ Cardinality({k \in Due(s) : k > j}) >= Capacity
  <2>1. j \in Nat
    BY <1>1, <1>5
  <2>2. j >= i + 1 \/ j = i \/ ~(j >= me.next)
    <3>1. j >= me.next => i <= j
      BY <1>6
    <3>2. QED
      BY <1>2, <1>8, <2>1, <3>1
  <2>3. i \in Range(got) /\ \A x \in Range(me.got) : x \in Range(got)
    BY <1>2, <1>9 DEF Range
  <2>4. QED
    BY <1>15, <2>2, <2>3
<1>20. SubscriberOK(s)'
  <2>1. /\ new.channel = me.channel /\ new.topic = me.topic /\ new.since = me.since
        /\ new.next = i + 1 /\ new.got = got
    BY <1>10
  <2>2. /\ \A k \in DOMAIN got : got[k] \in Due(s) /\ got[k] < i + 1
        /\ \A k, l \in DOMAIN got : k < l => got[k] < got[l]
    BY <1>9, <1>17, <1>18
  <2>3. QED
    BY <1>7, <1>13, <1>14, <1>15, <1>16, <1>19, <2>1, <2>2 DEF SubscriberOK
<1>21. QED
  BY <1>7, <1>11, <1>12, <1>20, OthersStaySound

\* A receiver that lags drops the oldest of what is ahead of it, and keeps Capacity events.
LEMMA LagKept ==
  ASSUME BusInv, NEW s \in Subscriber, Lag(s)
  PROVE  BusInv'
<1> DEFINE me == receiver[s]
           i == CHOOSE i \in Ahead(s) : Cardinality({j \in Ahead(s) : j >= i}) = Capacity
           new == [me EXCEPT !.next = i]
<1>1. receiver \in [Subscriber -> Receiver] /\ me \in Receiver /\ Len(sent) \in Nat
  BY DEF BusInv, ChannelsOK
<1>2. /\ me.channel \in Nat /\ me.topic \in Topic /\ me.since \in Nat /\ me.next \in Nat \ {0}
      /\ me.got \in Seq(Nat)
      /\ me = [channel |-> me.channel, topic |-> me.topic, since |-> me.since,
               next |-> me.next, got |-> me.got]
  BY <1>1 DEF Receiver
<1>3. Cardinality(Ahead(s)) > Capacity /\ Ahead(s) # {}
  <2>1. Cardinality(Ahead(s)) > Capacity
    BY DEF Lag, Lagging
  <2>2. Cardinality({}) = 0
    BY FS_EmptySet
  <2>3. QED
    BY <2>1, <2>2, BusAssumption
<1>4. me.channel # 0
  BY <1>3, AheadHasChannel
<1>5. SubscriberOK(s) /\ \A j : j \in Ahead(s) <=> j \in Due(s) /\ j >= me.next
  BY <1>4, AheadIsDue DEF BusInv
<1>6. Due(s) \subseteq 1..Len(sent)
  BY DueIsFinite
<1>7. i \in Ahead(s) /\ Cardinality({j \in Ahead(s) : j >= i}) = Capacity
  <2>1. Ahead(s) \in SUBSET (1..Len(sent)) /\ Capacity \in Nat \ {0}
    BY <1>5, <1>6, BusAssumption
  <2>2. \E k \in Ahead(s) : Cardinality({j \in Ahead(s) : j >= k}) = Capacity
    BY <1>1, <1>3, <2>1, TailExists
  <2>3. QED
    BY <2>2
<1>8. /\ receiver' = [receiver EXCEPT ![s] = new]
      /\ channelOf' = channelOf /\ sent' = sent /\ busKind' = busKind
  BY DEF Lag
<1> HIDE DEF i
<1>9. i \in Nat \ {0} /\ i \in 1..Len(sent) /\ i \in Due(s) /\ i >= me.next
  BY <1>1, <1>5, <1>6, <1>7
<1>10. new = [channel |-> me.channel, topic |-> me.topic, since |-> me.since,
              next |-> i, got |-> me.got]
  BY <1>2
<1>11. new \in Receiver
  BY <1>2, <1>9, <1>10 DEF Receiver
<1>12. ChannelsOK'
  BY <1>8 DEF BusInv, ChannelsOK
<1> HIDE DEF new
<1>13. receiver'[s] = new
  BY <1>1, <1>8
<1>14. Due(s)' = Due(s)
  BY <1>8, <1>10, <1>13 DEF Due
<1>15. /\ me.channel = channelOf[me.topic] /\ me.since < me.next
       /\ \A k \in DOMAIN me.got : me.got[k] \in Due(s) /\ me.got[k] < me.next
       /\ \A k, l \in DOMAIN me.got : k < l => me.got[k] < me.got[l]
       /\ \A j \in Due(s) :
            \/ j >= me.next \/ j \in Range(me.got)
            \/ Cardinality({k \in Due(s) : k > j}) >= Capacity
  BY <1>5 DEF SubscriberOK
<1> HIDE DEF me
<1>16. me.since < i /\ i <= Len(sent) + 1
  BY <1>1, <1>2, <1>9, <1>15
<1>17. \A k \in DOMAIN me.got : me.got[k] \in Due(s) /\ me.got[k] < i
  <2>1. ASSUME NEW k \in DOMAIN me.got
        PROVE  me.got[k] \in Due(s) /\ me.got[k] < i
    <3>1. me.got[k] \in Nat /\ me.got[k] < me.next /\ me.got[k] \in Due(s)
      BY <1>2, <1>15
    <3>2. QED
      BY <1>2, <1>9, <3>1
  <2>2. QED
    BY <2>1
<1>18. ASSUME NEW j \in Due(s), ~(j >= i)
       PROVE  Cardinality({k \in Due(s) : k > j}) >= Capacity
  <2>1. {k \in Ahead(s) : k >= i} \subseteq {k \in Due(s) : k > j}
    <3>1. ASSUME NEW k \in Ahead(s), k >= i
          PROVE  k \in Due(s) /\ k > j
      <4>1. k \in Due(s) /\ k \in Nat /\ j \in Nat
        BY <1>1, <1>5, <1>6
      <4>2. QED
        BY <1>9, <1>18, <3>1, <4>1
    <3>2. QED
      BY <3>1
  <2>2. IsFiniteSet({k \in Due(s) : k > j})
    BY DueIsFinite
  <2>3. /\ Cardinality({k \in Ahead(s) : k >= i}) <= Cardinality({k \in Due(s) : k > j})
        /\ Cardinality({k \in Due(s) : k > j}) \in Nat
    BY <2>1, <2>2, FS_Subset, FS_CardinalityType
  <2> DEFINE c == Cardinality({k \in Due(s) : k > j})
  <2>4. Capacity <= c /\ c \in Nat
    BY <1>7, <2>3
  <2> HIDE DEF c
  <2>5. c >= Capacity
    BY <2>4, BusAssumption
  <2>6. QED
    BY <2>5 DEF c
<1>19. SubscriberOK(s)'
  BY <1>8, <1>10, <1>13, <1>14, <1>15, <1>16, <1>17, <1>18 DEF SubscriberOK
<1>20. QED
  BY <1>8, <1>11, <1>12, <1>19, OthersStaySound

\* Publishers and subscribers come up in any order, and the bus is sound throughout; who
\* boots the host publishes on it, and nobody else but they touches it.
LEMMA BusHolds == WyrtloomSpec => []BusInv
<1>1. WyrtloomInit => BusInv
  <2> SUFFICES ASSUME WyrtloomInit
               PROVE  BusInv
    OBVIOUS
  <2>1. /\ busKind \in {"bootstrap", "tokio"} /\ sent = <<>>
        /\ channelOf = [t \in Topic |-> IF busKind = "bootstrap" THEN 1 ELSE 0]
        /\ receiver = [s \in Subscriber |->
             [channel |-> 0, topic |-> BootTopic, since |-> 0, next |-> 1, got |-> <<>>]]
    BY DEF WyrtloomInit, HostInit, BusInit
  <2>2. channelOf \in [Topic -> Nat] /\ \A t \in Topic : channelOf[t] <= 1
    BY <2>1
  <2>3. ChannelsOK
    BY <2>1, <2>2 DEF ChannelsOK
  <2>4. receiver \in [Subscriber -> Receiver] /\ \A s \in Subscriber : receiver[s].channel = 0
    BY <2>1, BusAssumption DEF Receiver
  <2>5. QED
    BY <2>3, <2>4 DEF BusInv
<1>2. BusInv /\ [WyrtloomNext]_programVars => BusInv'
  <2> SUFFICES ASSUME BusInv, [WyrtloomNext]_programVars
               PROVE  BusInv'
    OBVIOUS
  <2>1. CASE UNCHANGED busVars
    <3>1. \A s \in Subscriber : Due(s)' = Due(s)
      BY <2>1 DEF busVars, Due
    <3>2. \A s \in Subscriber : SubscriberOK(s)' <=> SubscriberOK(s)
      BY <2>1, <3>1 DEF busVars, SubscriberOK
    <3>3. QED
      BY <2>1, <3>2 DEF busVars, BusInv, ChannelsOK
  <2>2. CASE RegisterPlugin
    BY <2>1, <2>2 DEF RegisterPlugin, Register
  <2>3. CASE BootStep
    <3>1. UNCHANGED busVars \/ Publish(BootTopic)
      BY <2>3 DEF BootStep, Boot, SelfCheck, VerifyNext, Announce
    <3>2. QED
      BY <2>1, <3>1, PublishKept, BusAssumption
  <2>4. CASE RunStep
    BY <2>1, <2>4 DEF RunStep
  <2>5. CASE EventStep
    <3>1. CASE \E t \in Topic : Publish(t)
      BY <3>1, PublishKept
    <3>2. CASE \E t \in Topic : \E s \in Subscriber : Subscribe(s, t)
      BY <3>2, SubscribeKept
    <3>3. CASE \E s \in Subscriber : Receive(s)
      BY <3>3, ReceiveKept
    <3>4. CASE \E s \in Subscriber : Lag(s)
      BY <3>4, LagKept
    <3>5. QED
      BY <2>5, <3>1, <3>2, <3>3, <3>4 DEF EventStep, BusStep
  <2>6. CASE UNCHANGED programVars
    BY <2>1, <2>6 DEF programVars
  <2>7. QED
    BY <2>2, <2>3, <2>4, <2>5, <2>6 DEF WyrtloomNext
<1>3. QED
  BY <1>1, <1>2, PTL DEF WyrtloomSpec

\* However many topics, publishers, subscribers and events there are: a subscriber gets what
\* was published for it since it came, in order and once, but for what Capacity later events
\* of its own pushed out.
THEOREM SubscribersAreServed == WyrtloomSpec => []BusDelivers
<1>1. BusInv => BusDelivers
  <2> SUFFICES ASSUME BusInv, NEW s \in Subscriber, receiver[s].channel # 0
               PROVE  LET got == receiver[s].got IN
                        /\ Range(got) \subseteq Due(s)
                        /\ \A i, j \in DOMAIN got : i < j => got[i] < got[j]
                        /\ \A i \in Due(s) \ Range(got) :
                             i \in Ahead(s) \/ Cardinality({j \in Due(s) : j > i}) >= Capacity
    BY DEF BusDelivers
  <2> DEFINE me == receiver[s]
  <2>1. SubscriberOK(s)
    BY DEF BusInv
  <2>2. Range(me.got) \subseteq Due(s)
    BY <2>1 DEF SubscriberOK, Range
  <2>3. \A i, j \in DOMAIN me.got : i < j => me.got[i] < me.got[j]
    BY <2>1 DEF SubscriberOK
  <2>4. \A i \in Due(s) : i >= me.next => i \in Ahead(s)
    BY AheadIsDue
  <2>5. \A i \in Due(s) \ Range(me.got) :
          i \in Ahead(s) \/ Cardinality({j \in Due(s) : j > i}) >= Capacity
    BY <2>1, <2>4 DEF SubscriberOK
  <2>6. QED
    BY <2>2, <2>3, <2>5
<1>2. QED
  BY <1>1, BusHolds, PTL

-----------------------------------------------------------------------------
(* What a run in a calm world reports. *)

LogRow == [task : TaskId, outcome : {"Completed", "Failed", "Partial"},
           detail : {"none", "Transport", "Unauthorized", "RateLimited", "Provider"}]

\* The call log holds nothing of a run's task, or one row, of its one call of the model.
Untold(r) == \A j \in DOMAIN callLog : callLog[j].task # task[r]
Told(r) ==
  \E i \in DOMAIN callLog :
    /\ callLog[i] = Row(task[r], CallOutcome(reply[r]))
    /\ \A j \in DOMAIN callLog : callLog[j].task = task[r] => j = i

\* Where a run stands is where its task stands.
RunShown(r) ==
  /\ outcome[r] # "none" => task[r] \in TaskId
  /\ pc[r] = "todo" => state[task[r]] = "Backlog"
  /\ pc[r] = "ready" => state[task[r]] = "Todo"
  /\ pc[r] = "claim" => state[task[r]] = "Ready" /\ assignee[task[r]] = Nobody
  /\ pc[r] = "running" => state[task[r]] = "Ready"
  /\ pc[r] \in {"execute", "log", "finish", "escalate", "stop", "skip", "record blocked"} =>
       state[task[r]] = "Running"
  /\ outcome[r] = "Done" => state[task[r]] = "Done"
  /\ outcome[r] \in {"Stopped", "Blocked"} =>
       state[task[r]] = "Blocked" /\ blockReason[task[r]] # NoReason
  /\ pc[r] \in {"todo", "ready", "claim", "running", "execute", "log"} => Untold(r)
  /\ \/ pc[r] \in {"finish", "escalate", "stop", "skip", "record blocked"}
     \/ outcome[r] # "none"
     => Told(r)

\* No two runs share a task, and nothing is logged of a task that does not exist.
NothingShared ==
  /\ \A t \in TaskId : dependsOn[t] = {}
  /\ \A q, r \in Run : task[q] = task[r] /\ task[q] \in TaskId => q = r
  /\ \A r \in Run : task[r] \in TaskId => state[task[r]] # Absent
  /\ \A j \in DOMAIN callLog : state[callLog[j].task] # Absent

CalmInv ==
  /\ calm \in BOOLEAN /\ interactive \in BOOLEAN /\ callLog \in Seq(LogRow)
  /\ calm => NothingShared /\ \A r \in Run : RunShown(r)

\* What a call about one task changes on a board without dependencies.
Only(t) ==
  \A u \in TaskId :
    /\ dependsOn'[u] = {}
    /\ u # t => state'[u] = state[u] /\ assignee'[u] = assignee[u] /\ blockReason'[u] = blockReason[u]

\* The calls of the board a run makes, in a calm world.
LEMMA CallsOnly ==
  ASSUME TypeOK, \A t \in TaskId : dependsOn[t] = {}, NEW t \in TaskId
  PROVE  /\ Create(t, Agent, {}) => Only(t) /\ state[t] = Absent /\ state'[t] = "Backlog"
         /\ \A to \in TaskState :
              Transition(t, to) => Only(t) /\ state'[t] = to /\ assignee'[t] = Nobody
         /\ Claim(t, Agent) => Only(t) /\ state' = state
         /\ Block(t, Escalated) => Only(t) /\ state'[t] = "Blocked" /\ blockReason'[t] = Escalated
<1> USE DEF TypeOK, Only
<1>1. Create(t, Agent, {}) => Only(t) /\ state[t] = Absent /\ state'[t] = "Backlog"
  BY DEF Create
<1>2. \A to \in TaskState : Transition(t, to) => Only(t) /\ state'[t] = to /\ assignee'[t] = Nobody
  BY DEF Transition
<1>3. Claim(t, Agent) => Only(t) /\ state' = state
  BY DEF Claim
<1>4. Block(t, Escalated) => Only(t) /\ state'[t] = "Blocked" /\ blockReason'[t] = Escalated
  BY DEF Block
<1>5. QED
  BY <1>1, <1>2, <1>3, <1>4

\* A legal move of a task that depends on nothing is never refused.
LEMMA NeverRefused ==
  ASSUME NEW t \in TaskId, NEW to \in TaskState, state[t] # Absent, dependsOn[t] = {},
         <<state[t], to>> \in LegalMoves
  PROVE  TransitionErrors(t, to) = {} /\ (to = "Blocked" => BlockErrors(t) = {})
<1>1. t \in Existing /\ IsLegalTransition(state[t], to)
  BY DEF Existing, IsLegalTransition
<1>2. DependencyErrors(t) = {}
  BY DEF DependencyErrors
<1>3. QED
  BY <1>1, <1>2 DEF TransitionErrors, BlockErrors

\* What one step of a run does in a calm world: it touches its own task only, which was its
\* own or nobody's; it logs at most its own call; and it stays shown.
CalmStep(r) ==
  /\ calm' = calm /\ interactive' = interactive /\ Only(task'[r])
  /\ \/ task'[r] = task[r]
     \/ task'[r] \in TaskId /\ state[task'[r]] = Absent
  /\ task'[r] \in TaskId /\ state'[task'[r]] # Absent
  /\ \/ callLog' = callLog
     \/ \E row \in LogRow : row.task = task[r] /\ task'[r] = task[r] /\ callLog' = Append(callLog, row)
  /\ RunShown(r)'

LEMMA CalmStepTaken ==
  ASSUME TypeOK, RunTypeOK, RunsAreSound, CalmInv, calm, NEW r \in Run, OwnStep(r) \/ AskHuman(r)
  PROVE  CalmStep(r)
<1> DEFINE t == task[r]
<1>1. /\ \A u \in TaskId : dependsOn[u] = {}
      /\ RunShown(r) /\ RunIsSound(r) /\ (t \in TaskId => state[t] # Absent)
  BY DEF CalmInv, NothingShared, RunsAreSound
<1>2. /\ pc \in [Run -> Place] /\ task \in [Run -> TaskId \cup {NoTask}]
      /\ reply \in [Run -> Reply \cup {NoReply}]
      /\ outcome \in [Run -> {"none", "Done", "Stopped", "Blocked"}]
  BY DEF RunTypeOK
<1>3. ASSUME UNCHANGED boardVars, t \in TaskId
      PROVE  Only(t) /\ state'[t] = state[t] /\ assignee'[t] = assignee[t] /\ state'[t] # Absent
  BY <1>1, <1>3 DEF boardVars, Only
<1>4. CASE CreateTask(r)
  <2>1. pc[r] = "create" /\ outcome[r] = "none"
    BY <1>1, <1>4 DEF CreateTask, RunIsSound
  <2>2. PICK u \in TaskId : /\ Create(u, Agent, {})
                            /\ task' = [task EXCEPT ![r] = u]
                            /\ pc' = [pc EXCEPT ![r] = "todo"]
                            /\ UNCHANGED <<calm, interactive, reply, outcome, callLog>>
    BY <1>4 DEF CreateTask, Refused, Goto
  <2>3. Only(u) /\ state[u] = Absent /\ state'[u] = "Backlog"
    BY <1>1, <2>2, CallsOnly
  <2>4. task'[r] = u /\ pc'[r] = "todo" /\ outcome'[r] = "none"
    BY <1>2, <2>1, <2>2
  <2>5. Untold(r)'
    BY <2>2, <2>3, <2>4 DEF Untold, CalmInv, NothingShared
  <2>6. RunShown(r)'
    BY <2>3, <2>4, <2>5 DEF RunShown
  <2>7. QED
    BY <2>2, <2>3, <2>4, <2>6, BoardAssumption DEF CalmStep, TaskState
<1>5. ASSUME NEW here \in {"todo", "ready", "running"}, NEW to \in {"Todo", "Ready", "Running"},
             NEW next \in {"ready", "claim", "execute"}, MoveTo(r, here, to, next),
             <<here, to, next>> \in {<<"todo", "Todo", "ready">>, <<"ready", "Ready", "claim">>,
                                     <<"running", "Running", "execute">>}
      PROVE  CalmStep(r)
  <2>1. pc[r] = here /\ t \in TaskId /\ outcome[r] = "none"
    BY <1>1, <1>5 DEF MoveTo, RunIsSound
  <2>2. <<state[t], to>> \in LegalMoves /\ to \in TaskState
    BY <1>1, <1>5, <2>1 DEF RunShown, LegalMoves, TaskState
  <2>3. TransitionErrors(t, to) = {}
    BY <1>1, <2>1, <2>2, NeverRefused
  <2>4. /\ Transition(t, to) /\ pc' = [pc EXCEPT ![r] = next]
        /\ UNCHANGED <<calm, interactive, task, reply, outcome, callLog>>
    BY <1>5, <2>3 DEF MoveTo, Refused, Goto
  <2>5. Only(t) /\ state'[t] = to /\ assignee'[t] = Nobody
    BY <1>1, <2>1, <2>2, <2>4, CallsOnly
  <2>6. pc'[r] = next /\ outcome'[r] = "none" /\ task'[r] = t
    BY <1>2, <2>1, <2>4
  <2>7. Untold(r)'
    BY <1>1, <1>5, <2>1, <2>4 DEF RunShown, Untold
  <2>8. RunShown(r)'
    BY <1>5, <2>5, <2>6, <2>7 DEF RunShown
  <2>9. QED
    BY <2>1, <2>2, <2>4, <2>5, <2>6, <2>8, BoardAssumption DEF CalmStep
<1>6. CASE ClaimTask(r)
  <2>1. pc[r] = "claim" /\ t \in TaskId /\ outcome[r] = "none"
    BY <1>1, <1>6 DEF ClaimTask, RunIsSound
  <2>2. state[t] = "Ready" /\ assignee[t] = Nobody /\ Untold(r)
    BY <1>1, <2>1 DEF RunShown
  <2>3. ClaimErrors(t) = {}
    BY <2>1, <2>2, BoardAssumption DEF ClaimErrors, Existing, TaskState
  <2>4. /\ Claim(t, Agent) /\ pc' = [pc EXCEPT ![r] = "running"]
        /\ UNCHANGED <<calm, interactive, task, reply, outcome, callLog>>
    BY <1>6, <2>3 DEF ClaimTask, Refused, Goto
  <2>5. Only(t) /\ state' = state
    BY <1>1, <2>1, <2>4, CallsOnly
  <2>6. pc'[r] = "running" /\ outcome'[r] = "none" /\ task'[r] = t
    BY <1>2, <2>1, <2>4
  <2>7. Untold(r)'
    BY <2>2, <2>4 DEF Untold
  <2>8. RunShown(r)'
    BY <2>2, <2>5, <2>6, <2>7 DEF RunShown
  <2>9. QED
    BY <1>1, <2>1, <2>4, <2>5, <2>6, <2>8 DEF CalmStep
<1>7. CASE Generate(r)
  <2>1. pc[r] = "execute" /\ t \in TaskId /\ outcome[r] = "none"
    BY <1>1, <1>7 DEF Generate, RunIsSound
  <2>2. state[t] = "Running" /\ Untold(r)
    BY <1>1, <2>1 DEF RunShown
  <2>3. /\ UNCHANGED <<boardVars, calm, interactive, task, outcome, callLog>>
        /\ pc' = [pc EXCEPT ![r] = "log"]
    BY <1>7 DEF Generate, Goto
  <2>4. pc'[r] = "log" /\ outcome'[r] = "none" /\ task'[r] = t
    BY <1>2, <2>1, <2>3
  <2>5. Only(t) /\ state'[t] = "Running" /\ state'[t] # Absent
    BY <1>3, <2>1, <2>2, <2>3
  <2>6. Untold(r)'
    BY <2>2, <2>3 DEF Untold
  <2>7. RunShown(r)'
    BY <2>4, <2>5, <2>6 DEF RunShown
  <2>8. QED
    BY <2>1, <2>3, <2>4, <2>5, <2>7 DEF CalmStep
<1>8. CASE LogCall(r)
  <2>1. pc[r] = "log" /\ t \in TaskId /\ outcome[r] = "none"
    BY <1>1, <1>8 DEF LogCall, RunIsSound
  <2>2. state[t] = "Running" /\ Untold(r)
    BY <1>1, <2>1 DEF RunShown
  <2> DEFINE row == Row(t, CallOutcome(reply[r]))
  <2>3. /\ UNCHANGED <<boardVars, calm, interactive, task, reply, outcome>>
        /\ callLog' = Append(callLog, row)
        /\ \E next \in {"finish", "escalate"} : pc' = [pc EXCEPT ![r] = next]
    BY <1>8 DEF LogCall, Goto, RecordCall
  <2>4. pc'[r] \in {"finish", "escalate"} /\ outcome'[r] = "none" /\ task'[r] = t
    BY <1>2, <2>1, <2>3
  <2>5. Only(t) /\ state'[t] = "Running" /\ state'[t] # Absent
    BY <1>3, <2>1, <2>2, <2>3
  <2>6. row \in LogRow /\ row.task = t
    BY <2>1 DEF LogRow, Row, CallOutcome, Completed, Failed, GenerateError
  <2>7. Told(r)'
    <3> HIDE DEF row
    <3>1. callLog \in Seq(LogRow)
      BY DEF CalmInv
    <3> DEFINE n == Len(callLog)
    <3>2. /\ n \in Nat /\ DOMAIN callLog' = 1..(n + 1) /\ callLog'[n + 1] = row
          /\ \A j \in 1..n : callLog'[j] = callLog[j] /\ j \in DOMAIN callLog
      BY <2>3, <2>6, <3>1
    <3>3. \A j \in 1..(n + 1) : callLog'[j].task = t => j = n + 1
      BY <2>2, <3>2 DEF Untold
    <3>4. n + 1 \in DOMAIN callLog'
      BY <3>2
    <3>5. row = Row(task'[r], CallOutcome(reply'[r]))
      BY <2>3 DEF row
    <3> HIDE DEF n
    <3>6. QED
      BY <2>4, <3>2, <3>3, <3>4, <3>5 DEF Told
  <2>8. RunShown(r)'
    BY <2>1, <2>4, <2>5, <2>7 DEF RunShown
  <2>9. QED
    BY <2>1, <2>3, <2>4, <2>5, <2>6, <2>8 DEF CalmStep
<1>9. CASE AskScript(r) \/ AskHuman(r)
  <2>1. PICK response : HandleBlocked(r, response)
    BY <1>9 DEF AskScript, AskHuman
  <2>2. pc[r] = "escalate" /\ t \in TaskId /\ outcome[r] = "none"
    BY <1>1, <2>1 DEF HandleBlocked, RunIsSound
  <2>3. state[t] = "Running" /\ Told(r)
    BY <1>1, <2>2 DEF RunShown
  <2>4. /\ UNCHANGED <<boardVars, calm, interactive, task, reply, outcome, callLog>>
        /\ \E next \in {"stop", "skip", "record blocked"} : pc' = [pc EXCEPT ![r] = next]
    BY <2>1 DEF HandleBlocked, Goto
  <2>5. /\ pc'[r] \in {"stop", "skip", "record blocked"} /\ outcome'[r] = "none" /\ task'[r] = t
    BY <1>2, <2>2, <2>4
  <2>6. Only(t) /\ state'[t] = "Running" /\ state'[t] # Absent
    BY <1>3, <2>2, <2>3, <2>4
  <2>7. Told(r)'
    BY <2>3, <2>4 DEF Told
  <2>8. RunShown(r)'
    BY <2>2, <2>5, <2>6, <2>7 DEF RunShown
  <2>9. QED
    BY <2>2, <2>4, <2>5, <2>6, <2>8 DEF CalmStep
<1>10. ASSUME NEW here \in {"finish", "stop", "skip", "record blocked"},
              NEW result \in {"Done", "Stopped", "Blocked"},
              \/ FinalMove(r, here, "Done", result) /\ result = "Done"
              \/ FinalBlock(r, here, result) /\ result # "Done"
       PROVE  CalmStep(r)
  <2>1. pc[r] = here /\ t \in TaskId
    BY <1>1, <1>10 DEF FinalMove, FinalBlock, RunIsSound
  <2>2. state[t] = "Running" /\ Told(r)
    BY <1>1, <2>1 DEF RunShown
  <2>3. TransitionErrors(t, "Done") = {} /\ BlockErrors(t) = {}
    <3>1. "Done" \in TaskState /\ "Blocked" \in TaskState /\ state[t] # Absent
      BY <1>1, <2>1 DEF TaskState
    <3>2. <<state[t], "Done">> \in LegalMoves /\ <<state[t], "Blocked">> \in LegalMoves
      BY <2>2 DEF LegalMoves
    <3>3. QED
      BY <1>1, <2>1, <3>1, <3>2, NeverRefused
  <2>4. /\ \/ Transition(t, "Done") /\ result = "Done"
           \/ Block(t, Escalated) /\ result # "Done"
        /\ pc' = [pc EXCEPT ![r] = "returned"] /\ outcome' = [outcome EXCEPT ![r] = result]
        /\ UNCHANGED <<calm, interactive, task, reply, callLog>>
    BY <1>10, <2>3 DEF FinalMove, FinalBlock, Refused, Return, Goto
  <2>5. /\ Only(t)
        /\ result = "Done" => state'[t] = "Done"
        /\ result # "Done" => state'[t] = "Blocked" /\ blockReason'[t] = Escalated
    BY <1>1, <2>1, <2>4, CallsOnly DEF TaskState
  <2>6. state'[t] # Absent
    BY <2>5, BoardAssumption DEF TaskState
  <2>7. pc'[r] = "returned" /\ outcome'[r] = result /\ task'[r] = t
    BY <1>2, <2>1, <2>4
  <2>8. Told(r)'
    BY <2>2, <2>4 DEF Told
  <2>9. RunShown(r)'
    BY <2>1, <2>5, <2>7, <2>8, BoardAssumption, PipelineAssumption DEF RunShown
  <2>10. QED
    BY <2>1, <2>4, <2>5, <2>6, <2>7, <2>9 DEF CalmStep
<1>11. MoveTo(r, "todo", "Todo", "ready") => CalmStep(r)
  BY <1>5
<1>12. MoveTo(r, "ready", "Ready", "claim") => CalmStep(r)
  BY <1>5
<1>13. MoveTo(r, "running", "Running", "execute") => CalmStep(r)
  BY <1>5
<1>14. Finish(r) \/ StopTask(r) \/ SkipTask(r) \/ RecordBlocked(r) => CalmStep(r)
  BY <1>10 DEF Finish, StopTask, SkipTask, RecordBlocked
<1>15. QED
  BY <1>4, <1>6, <1>7, <1>8, <1>9, <1>11, <1>12, <1>13, <1>14 DEF OwnStep

\* A run whose task is left alone stays shown while another run moves.
LEMMA OthersStayShown ==
  ASSUME RunTypeOK, CalmInv, NothingShared, NEW r \in Run, NEW q \in Run, q # r,
         RunShown(q), RunIsSound(q), CalmStep(r), OthersUnmoved(r)
  PROVE  RunShown(q)' /\ (task[q] \in TaskId => task'[q] = task[q] /\ task[q] # task'[r])
<1>1. /\ pc'[q] = pc[q] /\ task'[q] = task[q] /\ reply'[q] = reply[q] /\ outcome'[q] = outcome[q]
  BY DEF OthersUnmoved
<1>2. task[q] \in TaskId => task[q] # task'[r]
  BY DEF CalmStep, NothingShared
<1>3. CASE task[q] \in TaskId
  <2>1. /\ state'[task[q]] = state[task[q]] /\ assignee'[task[q]] = assignee[task[q]]
        /\ blockReason'[task[q]] = blockReason[task[q]]
    BY <1>2, <1>3 DEF CalmStep, Only
  <2>2. (Untold(q) => Untold(q)') /\ (Told(q) => Told(q)')
    <3>1. CASE callLog' = callLog
      BY <1>1, <3>1 DEF Untold, Told
    <3>2. CASE \E row \in LogRow : /\ row.task = task[r] /\ task'[r] = task[r]
                                   /\ callLog' = Append(callLog, row)
      <4>1. PICK row \in LogRow : /\ row.task = task[r] /\ task'[r] = task[r]
                                  /\ callLog' = Append(callLog, row)
        BY <3>2
      <4>2. row.task # task[q] /\ callLog \in Seq(LogRow)
        BY <1>2, <1>3, <4>1 DEF CalmInv
      <4> DEFINE n == Len(callLog)
      <4>3. /\ n \in Nat /\ DOMAIN callLog' = 1..(n + 1) /\ callLog'[n + 1] = row
            /\ DOMAIN callLog = 1..n /\ \A j \in 1..n : callLog'[j] = callLog[j]
            /\ \A j \in 1..(n + 1) : j = n + 1 \/ j \in 1..n
            /\ \A j \in 1..n : j \in 1..(n + 1)
        BY <4>1, <4>2
      <4> HIDE DEF n
      <4>4. Untold(q) => Untold(q)'
        BY <1>1, <4>2, <4>3 DEF Untold
      <4>5. ASSUME Told(q) PROVE Told(q)'
        <5>1. PICK i \in 1..n : /\ callLog[i] = Row(task[q], CallOutcome(reply[q]))
                                /\ \A j \in 1..n : callLog[j].task = task[q] => j = i
          BY <4>3, <4>5 DEF Told
        <5>2. \A j \in 1..(n + 1) : callLog'[j].task = task[q] => j = i
          BY <4>2, <4>3, <5>1
        <5>3. QED
          BY <1>1, <4>3, <5>1, <5>2 DEF Told
      <4>6. QED
        BY <4>4, <4>5
    <3>3. QED
      BY <3>1, <3>2 DEF CalmStep
  <2>3. QED
    BY <1>1, <1>2, <2>1, <2>2 DEF RunShown
<1>4. CASE task[q] \notin TaskId
  <2>1. outcome[q] = "none"
    BY <1>4 DEF RunShown, RunTypeOK
  <2>2. pc[q] \in {"create", "returned"}
    BY <1>4 DEF RunIsSound
  <2>3. QED
    BY <1>1, <1>4, <2>1, <2>2 DEF RunShown
<1>5. QED
  BY <1>3, <1>4

\* A step of a run takes a calm world to a calm world.
LEMMA CalmKeptByRun ==
  ASSUME TypeOK, RunTypeOK, RunsAreSound, CalmInv, calm, NEW r \in Run,
         OwnStep(r) \/ AskHuman(r)
  PROVE  CalmInv'
<1>1. CalmStep(r) /\ OthersUnmoved(r) /\ RunTypeOK'
  BY CalmStepTaken, RunStepIsSound DEF StepIsSound
<1>2. NothingShared /\ \A q \in Run : RunShown(q) /\ RunIsSound(q)
  BY DEF CalmInv, RunsAreSound
<1>3. ASSUME NEW q \in Run, q # r
      PROVE  RunShown(q)' /\ (task[q] \in TaskId => task'[q] = task[q] /\ task[q] # task'[r])
             /\ task'[q] = task[q]
  BY <1>1, <1>2, <1>3, OthersStayShown DEF OthersUnmoved
<1>4. callLog' \in Seq(LogRow)
  BY <1>1 DEF CalmStep, CalmInv
<1>5. \A t \in TaskId : state[t] # Absent => state'[t] # Absent
  BY <1>1 DEF CalmStep, Only
<1>6. \A j \in DOMAIN callLog' : state'[callLog'[j].task] # Absent
  <2>1. \A j \in DOMAIN callLog : callLog[j].task \in TaskId /\ state[callLog[j].task] # Absent
    <3>1. callLog \in Seq(LogRow)
      BY DEF CalmInv
    <3>2. \A j \in DOMAIN callLog : callLog[j] \in LogRow
      BY <3>1
    <3>3. QED
      BY <1>2, <3>2 DEF NothingShared, LogRow
  <2>2. CASE callLog' = callLog
    BY <1>5, <2>1, <2>2
  <2>3. CASE \E row \in LogRow : /\ row.task = task[r] /\ task'[r] = task[r]
                                 /\ callLog' = Append(callLog, row)
    <3>1. PICK row \in LogRow : row.task = task'[r] /\ callLog' = Append(callLog, row)
      BY <2>3
    <3>2. state'[row.task] # Absent
      BY <1>1, <3>1 DEF CalmStep
    <3>3. \A j \in DOMAIN callLog' : callLog'[j] = row \/ (j \in DOMAIN callLog /\ callLog'[j] = callLog[j])
      BY <3>1 DEF CalmInv
    <3>4. QED
      BY <1>5, <2>1, <3>2, <3>3
  <2>4. QED
    BY <1>1, <2>2, <2>3 DEF CalmStep
<1>7. \A t \in TaskId : dependsOn'[t] = {}
  BY <1>1 DEF CalmStep, Only
<1>8. \A q \in Run : task'[q] \in TaskId => state'[task'[q]] # Absent
  BY <1>1, <1>2, <1>3, <1>5 DEF CalmStep, NothingShared
<1>9. \A q, p \in Run : task'[q] = task'[p] /\ task'[q] \in TaskId => q = p
  BY <1>2, <1>3 DEF NothingShared
<1>10. NothingShared'
  BY <1>6, <1>7, <1>8, <1>9 DEF NothingShared
<1>11. \A q \in Run : RunShown(q)'
  BY <1>1, <1>3 DEF CalmStep
<1>12. calm' \in BOOLEAN /\ interactive' \in BOOLEAN
  BY <1>1 DEF CalmStep, CalmInv
<1>13. QED
  BY <1>4, <1>10, <1>11, <1>12 DEF CalmInv

\* Calm or not: a step logs nothing, or the call of a run.
LEMMA LogKept ==
  ASSUME RunTypeOK, RunsAreSound, CalmInv, PipelineNext
  PROVE  calm' = calm /\ interactive' = interactive /\ callLog' \in Seq(LogRow)
<1>1. callLog \in Seq(LogRow)
  BY DEF CalmInv
<1>2. ASSUME NEW r \in Run, LogCall(r)
      PROVE  calm' = calm /\ interactive' = interactive /\ callLog' \in Seq(LogRow)
  <2>1. task[r] \in TaskId
    BY <1>2 DEF LogCall, RunsAreSound, RunIsSound
  <2>2. Row(task[r], CallOutcome(reply[r])) \in LogRow
    BY <2>1 DEF LogRow, Row, CallOutcome, Completed, Failed, GenerateError
  <2>3. QED
    BY <1>1, <1>2, <2>2 DEF LogCall, RecordCall
<1>3. ASSUME NEW r \in Run, OwnStep(r) \/ AskHuman(r), ~LogCall(r)
      PROVE  UNCHANGED <<calm, interactive, callLog>>
  BY <1>3 DEF OwnStep, AskHuman, CreateTask, MoveTo, ClaimTask, Generate, AskScript, HandleBlocked,
              Finish, StopTask, SkipTask, RecordBlocked, FinalMove, FinalBlock
<1>4. CASE Others
  BY <1>1, <1>4 DEF Others, runVars
<1>5. QED
  BY <1>1, <1>2, <1>3, <1>4 DEF PipelineNext

LEMMA CalmKept ==
  ASSUME TypeOK, RunTypeOK, RunsAreSound, CalmInv, [PipelineNext]_vars
  PROVE  CalmInv'
<1>1. CASE UNCHANGED vars
  <2>1. \A r \in Run : RunShown(r)' <=> RunShown(r)
    BY <1>1 DEF vars, boardVars, runVars, RunShown, Told, Untold
  <2>2. NothingShared' <=> NothingShared
    BY <1>1 DEF vars, boardVars, runVars, NothingShared
  <2>3. QED
    BY <1>1, <2>1, <2>2 DEF vars, runVars, CalmInv
<1>2. CASE PipelineNext /\ ~calm
  BY <1>2, LogKept DEF CalmInv
<1>3. CASE PipelineNext /\ calm
  BY <1>3, CalmKeptByRun DEF PipelineNext, Others
<1>4. QED
  BY <1>1, <1>2, <1>3

LEMMA CalmHolds == WyrtloomSpec => []CalmInv
<1>1. WyrtloomInit => CalmInv
  <2> SUFFICES ASSUME WyrtloomInit PROVE CalmInv
    OBVIOUS
  <2>1. Init /\ PipelineInit
    BY DEF WyrtloomInit, PipelineInit
  <2>2. /\ \A t \in TaskId : dependsOn[t] = {}
        /\ \A r \in Run : task[r] = NoTask /\ outcome[r] = "none" /\ pc[r] \in {"create", "returned"}
        /\ callLog = <<>> /\ calm \in BOOLEAN /\ interactive \in BOOLEAN
    BY <2>1 DEF Init, PipelineInit
  <2>3. NothingShared
    BY <2>2, PipelineAssumption DEF NothingShared
  <2>4. \A r \in Run : RunShown(r)
    BY <2>2 DEF RunShown
  <2>5. callLog \in Seq(LogRow)
    BY <2>2
  <2>6. QED
    BY <2>2, <2>3, <2>4, <2>5 DEF CalmInv
<1>2. ProgramInv /\ CalmInv /\ [WyrtloomNext]_programVars => CalmInv'
  <2>1. [WyrtloomNext]_programVars => [PipelineNext]_vars
    BY DEF WyrtloomNext, RegisterPlugin, BootStep, RunStep, EventStep, programVars
  <2>2. QED
    BY <2>1, CalmKept DEF ProgramInv
<1>3. QED
  BY <1>1, <1>2, ProgramHolds, PTL DEF WyrtloomSpec

\* Where nothing fails and nobody interferes, and however many runs there are: a run reports
\* what the board shows of its task, and the call log tells its one call of the model as it was.
THEOREM ReportsAreTrue == WyrtloomSpec => []OutcomeMatchesBoard
<1>1. CalmInv => OutcomeMatchesBoard
  <2> SUFFICES ASSUME CalmInv, calm, NEW r \in Run
               PROVE  Reported(r)
    BY DEF OutcomeMatchesBoard
  <2>1. RunShown(r) /\ callLog \in Seq(LogRow)
    BY DEF CalmInv
  <2>2. \A i \in DOMAIN callLog : callLog[i] \in LogRow
    BY <2>1
  <2>3. \A i \in DOMAIN callLog : callLog[i].outcome \in {"Completed", "Failed", "Partial"}
    BY <2>2 DEF LogRow
  <2>4. /\ DOMAIN AllLogs = DOMAIN callLog
        /\ \A i \in DOMAIN callLog :
             AllLogs[i] = [task |-> callLog[i].task,
                           outcome |-> IF callLog[i].outcome = "Completed" THEN Completed
                                       ELSE [kind |-> callLog[i].outcome,
                                             reason |-> callLog[i].detail]]
    BY <2>3 DEF AllLogs
  <2>5. ASSUME Told(r)
        PROVE  \E i \in DOMAIN AllLogs :
                 /\ AllLogs[i] = [task |-> task[r], outcome |-> CallOutcome(reply[r])]
                 /\ \A j \in DOMAIN AllLogs : AllLogs[j].task = task[r] => j = i
    <3>1. PICK i \in DOMAIN callLog :
            /\ callLog[i] = Row(task[r], CallOutcome(reply[r]))
            /\ \A j \in DOMAIN callLog : callLog[j].task = task[r] => j = i
      BY <2>5 DEF Told
    <3>2. \A j \in DOMAIN AllLogs : AllLogs[j].task = task[r] => j = i
      BY <2>4, <3>1
    <3>3. AllLogs[i] = [task |-> task[r], outcome |-> CallOutcome(reply[r])]
      <4> DEFINE o == CallOutcome(reply[r])
      <4>1. \/ o = Completed
            \/ o.kind = "Failed" /\ o = [kind |-> o.kind, reason |-> o.reason]
        BY DEF CallOutcome, Failed
      <4>2. callLog[i].task = task[r] /\ callLog[i].outcome = o.kind /\ callLog[i].detail = o.reason
        BY <3>1 DEF Row
      <4>3. Completed.kind = "Completed"
        BY DEF Completed
      <4> HIDE DEF o
      <4>4. QED
        BY <2>4, <4>1, <4>2, <4>3 DEF o
    <3>4. QED
      BY <2>4, <3>2, <3>3
  <2>6. QED
    BY <2>1, <2>5 DEF Reported, RunShown
<1>2. QED
  BY <1>1, CalmHolds, PTL

-----------------------------------------------------------------------------
(* Where a path leads. *)

Component == STRING

\* A prefix, place by place.
LEMMA PrefixByPlace ==
  ASSUME NEW s \in Seq(Component), NEW t \in Seq(Component)
  PROVE  IsPrefix(s, t) <=> Len(s) <= Len(t) /\ \A i \in 1..Len(s) : s[i] = t[i]
<1> DEFINE a == SubSeq(s, 1, Len(s))
           b == SubSeq(t, 1, Len(s))
<1>1. Len(s) \in Nat /\ Len(t) \in Nat
  OBVIOUS
<1>2. a = s
  OBVIOUS
<1>3. ASSUME Len(s) <= Len(t)
      PROVE  b \in Seq(Component) /\ Len(b) = Len(s) /\ \A i \in 1..Len(s) : b[i] = t[i]
  BY <1>1, <1>3
<1>4. ASSUME Len(s) <= Len(t)
      PROVE  a = b <=> \A i \in 1..Len(s) : s[i] = t[i]
  <2>1. b \in Seq(Component) /\ Len(b) = Len(s) /\ \A i \in 1..Len(s) : b[i] = t[i]
    BY <1>3, <1>4
  <2> HIDE DEF b
  <2>2. s = b <=> \A i \in 1..Len(s) : s[i] = b[i]
    BY <2>1
  <2>3. QED
    BY <1>2, <2>1, <2>2
<1>5. IsPrefix(s, t) <=> Len(s) <= Len(t) /\ a = b
  BY DEF IsPrefix
<1>6. QED
  BY <1>4, <1>5

LEMMA PrefixesCompose ==
  ASSUME NEW s \in Seq(Component), NEW t \in Seq(Component), NEW u \in Seq(Component)
  PROVE  IsPrefix(s, s) /\ (IsPrefix(s, t) /\ IsPrefix(t, u) => IsPrefix(s, u))
<1> DEFINE a == Len(s)
           b == Len(t)
           c == Len(u)
<1>1. a \in Nat /\ b \in Nat /\ c \in Nat
  OBVIOUS
<1>2. /\ IsPrefix(s, s) <=> a <= a /\ \A i \in 1..a : s[i] = s[i]
      /\ IsPrefix(s, t) <=> a <= b /\ \A i \in 1..a : s[i] = t[i]
      /\ IsPrefix(t, u) <=> b <= c /\ \A i \in 1..b : t[i] = u[i]
      /\ IsPrefix(s, u) <=> a <= c /\ \A i \in 1..a : s[i] = u[i]
  BY PrefixByPlace
<1> HIDE DEF a, b, c
<1>3. a <= b => \A i \in 1..a : i \in 1..b
  BY <1>1
<1>4. a <= a /\ (a <= b /\ b <= c => a <= c)
  BY <1>1
<1>5. QED
  BY <1>2, <1>3, <1>4

\* A component leads to a directory; only ".." leads out of where one is.
LEMMA EnterGoesDown ==
  ASSUME NEW dir \in Seq(Component), NEW c \in Component
  PROVE  /\ Enter(dir, c) \in Seq(Component)
         /\ c = "" => Enter(dir, c) = dir
         /\ c # ".." => IsPrefix(dir, Enter(dir, c))
<1>1. IsPrefix(dir, dir)
  BY PrefixesCompose
<1>2. IsPrefix(dir, Append(dir, c)) /\ Append(dir, c) \in Seq(Component)
  <2> DEFINE n == Len(dir)
             e == Append(dir, c)
  <2>1. n \in Nat /\ e \in Seq(Component) /\ Len(e) = n + 1 /\ \A i \in 1..n : dir[i] = e[i]
    OBVIOUS
  <2>2. IsPrefix(dir, e) <=> n <= Len(e) /\ \A i \in 1..n : dir[i] = e[i]
    BY <2>1, PrefixByPlace
  <2> HIDE DEF n, e
  <2>3. IsPrefix(dir, e) /\ e \in Seq(Component)
    BY <2>1, <2>2
  <2>4. QED
    BY <2>3 DEF e
<1>3. CASE c \in {"", "."}
  <2>1. Enter(dir, c) = dir
    BY <1>3 DEF Enter
  <2>2. QED
    BY <1>1, <2>1
<1>4. CASE c \notin {"", ".", ".."}
  <2>1. Enter(dir, c) = Append(dir, c) /\ c # ""
    BY <1>4 DEF Enter
  <2>2. QED
    BY <1>2, <2>1
<1>5. CASE c = ".."
  <2>1. Enter(dir, c) = IF dir = <<>> THEN dir ELSE Front(dir)
    BY <1>5 DEF Enter
  <2>2. dir # <<>> => Front(dir) \in Seq(Component)
    BY DEF Front
  <2>3. QED
    BY <1>5, <2>1, <2>2
<1>6. QED
  BY <1>3, <1>4, <1>5

\* The function the fold is taken from: for a set of places of s, where one gets by the
\* components there.
Trek(s, g, n) ==
  g = [S \in SUBSET (1..n) |-> IF S = {} THEN <<>> ELSE Enter(g[S \ {Max(S)}], s[Max(S)])]

\* The last place of a set that has one.
LEMMA LastPlace ==
  ASSUME NEW n \in Nat \ {0}, NEW S \in SUBSET (1..n)
  PROVE  /\ n \in S => Max(S) = n /\ S \ {n} \in SUBSET (1..(n - 1))
         /\ n \notin S => S \in SUBSET (1..(n - 1))
         /\ S # {} => Max(S) \in S /\ S \ {Max(S)} \in SUBSET (1..(n - 1))
<1>1. \A k \in 1..n : k # n => k \in 1..(n - 1)
  OBVIOUS
<1>2. S # {} => Max(S) \in S /\ \A y \in S : y <= Max(S)
  <2>1. S \in SUBSET Nat /\ \A y \in S : y <= n
    OBVIOUS
  <2>2. QED
    BY <2>1, MaxIsGreatest
<1>3. ASSUME n \in S
      PROVE  Max(S) = n
  <2>1. Max(S) \in 1..n /\ n <= Max(S)
    BY <1>2, <1>3
  <2>2. QED
    BY <2>1
<1>4. n \notin S => S \in SUBSET (1..(n - 1))
  BY <1>1
<1>5. n \in S => S \ {n} \in SUBSET (1..(n - 1))
  BY <1>1
<1>6. S # {} => Max(S) \in S /\ S \ {Max(S)} \in SUBSET (1..(n - 1))
  BY <1>2, <1>3, <1>4, <1>5
<1>7. QED
  BY <1>3, <1>4, <1>5, <1>6

LEMMA TrekGoesOn ==
  ASSUME NEW s, NEW n \in Nat \ {0}, NEW g, Trek(s, g, n - 1)
  PROVE  \E h : Trek(s, h, n)
<1> DEFINE h == [S \in SUBSET (1..n) |-> IF n \in S THEN Enter(g[S \ {n}], s[n]) ELSE g[S]]
<1>1. ASSUME NEW S \in SUBSET (1..(n - 1))
      PROVE  /\ S \in SUBSET (1..n) /\ h[S] = g[S]
             /\ g[S] = IF S = {} THEN <<>> ELSE Enter(g[S \ {Max(S)}], s[Max(S)])
  <2>1. S \in SUBSET (1..n) /\ n \notin S
    OBVIOUS
  <2>2. QED
    BY <2>1 DEF Trek
<1>2. ASSUME NEW S \in SUBSET (1..n)
      PROVE  h[S] = IF S = {} THEN <<>> ELSE Enter(h[S \ {Max(S)}], s[Max(S)])
  <2>1. CASE n \in S
    <3>1. h[S] = Enter(g[S \ {n}], s[n]) /\ S # {}
      BY <2>1
    <3> HIDE DEF h
    <3>2. Max(S) = n /\ S \ {n} \in SUBSET (1..(n - 1))
      BY <2>1, LastPlace
    <3>3. h[S \ {n}] = g[S \ {n}]
      BY <1>1, <3>2
    <3>4. QED
      BY <3>1, <3>2, <3>3
  <2>2. CASE n \notin S
    <3> HIDE DEF h
    <3>1. S \in SUBSET (1..(n - 1)) /\ (S # {} => S \ {Max(S)} \in SUBSET (1..(n - 1)))
      BY <2>2, LastPlace
    <3>2. S # {} => h[S \ {Max(S)}] = g[S \ {Max(S)}]
      BY <1>1, <3>1
    <3>3. QED
      BY <1>1, <3>1, <3>2
  <2>3. QED
    BY <2>1, <2>2
<1>3. h = [S \in SUBSET (1..n) |-> h[S]]
  OBVIOUS
<1> HIDE DEF h
<1>4. h = [S \in SUBSET (1..n) |-> IF S = {} THEN <<>> ELSE Enter(h[S \ {Max(S)}], s[Max(S)])]
  BY <1>2, <1>3
<1>5. QED
  BY <1>4 DEF Trek

LEMMA TrekExists ==
  ASSUME NEW s, NEW n \in Nat
  PROVE  \E g : Trek(s, g, n)
<1> DEFINE without == {m \in Nat : ~\E g : Trek(s, g, m)}
<1>1. SUFFICES ASSUME without # {}
               PROVE  FALSE
  OBVIOUS
<1>2. PICK m \in without : \A k \in without : m <= k
  <2>1. without \in SUBSET Nat
    OBVIOUS
  <2> HIDE DEF without
  <2>2. QED
    BY <1>1, <2>1, LeastNatural
<1>3. m # 0
  <2> DEFINE g == [S \in SUBSET (1..0) |-> <<>>]
  <2>1. \A S \in SUBSET (1..0) : S = {}
    OBVIOUS
  <2>2. Trek(s, g, 0)
    BY <2>1 DEF Trek
  <2>3. QED
    BY <2>2
<1>4. m \in Nat \ {0} /\ m - 1 \in Nat /\ ~(m <= m - 1)
  BY <1>3
<1>5. PICK g : Trek(s, g, m - 1)
  BY <1>2, <1>4
<1>6. QED
  BY <1>4, <1>5, TrekGoesOn

\* w tells where one is after each component of s.
Walk(s, w) ==
  /\ w[0] = <<>>
  /\ \A k \in 1..Len(s) : w[k] = Enter(w[k - 1], s[k])

LEMMA FoldIsWalk ==
  ASSUME NEW s \in Seq(Component)
  PROVE  \E w : Walk(s, w) /\ FoldLeft(Enter, <<>>, s) = w[Len(s)]
<1> DEFINE n == Len(s)
           g == CHOOSE g : Trek(s, g, n)
           w == [k \in 0..n |-> g[1..k]]
<1>1. n \in Nat /\ DOMAIN s = 1..n
  OBVIOUS
<1>2. Trek(s, g, n)
  <2>1. \E x : Trek(s, x, n)
    <3> HIDE DEF n
    <3>1. QED
      BY <1>1, TrekExists
  <2>2. QED
    BY <2>1
<1>3. FoldLeft(Enter, <<>>, s) = g[1..n]
  <2>1. FoldLeft(Enter, <<>>, s) =
          (CHOOSE g_1 : g_1 = [S \in SUBSET DOMAIN s |->
             IF S = {} THEN <<>> ELSE Enter(g_1[S \ {Max(S)}], s[Max(S)])])[DOMAIN s]
    BY Zenon DEF FoldLeft, MapThenFoldSet
  <2>2. QED
    BY <1>1, <2>1, Zenon DEF Trek
<1> HIDE DEF n, g
<1>4. \A S \in SUBSET (1..n) : g[S] = IF S = {} THEN <<>> ELSE Enter(g[S \ {Max(S)}], s[Max(S)])
  BY <1>2 DEF Trek
<1>5. w[0] = <<>>
  <2>1. 1..0 = {} /\ 1..0 \in SUBSET (1..n) /\ 0 \in 0..n
    BY <1>1
  <2>2. QED
    BY <1>4, <2>1
<1>6. ASSUME NEW k \in 1..n
      PROVE  w[k] = Enter(w[k - 1], s[k])
  <2>1. /\ k \in 0..n /\ k - 1 \in 0..n /\ 1..k \in SUBSET (1..n) /\ 1..k # {}
        /\ (1..k) \ {k} = 1..(k - 1) /\ k \in 1..k /\ k \in Nat \ {0}
    <3>1. k \in 0..n /\ k - 1 \in 0..n /\ k \in 1..k /\ k \in Nat \ {0}
      BY <1>1
    <3>2. 1..k \in SUBSET (1..n)
      BY <1>1
    <3>3. (1..k) \ {k} = 1..(k - 1)
      BY <3>1
    <3>4. QED
      BY <3>1, <3>2, <3>3
  <2>2. Max(1..k) = k
    BY <2>1, LastPlace
  <2>3. g[1..k] = Enter(g[(1..k) \ {Max(1..k)}], s[Max(1..k)])
    BY <1>4, <2>1
  <2>4. QED
    BY <2>1, <2>2, <2>3
<1>7. w[n] = g[1..n]
  BY <1>1
<1> HIDE DEF w
<1>8. QED
  BY <1>3, <1>5, <1>6, <1>7 DEF Walk, n

LEMMA WalkIsPath ==
  ASSUME NEW s \in Seq(Component), NEW w, Walk(s, w)
  PROVE  \A k \in 0..Len(s) : w[k] \in Seq(Component)
<1> DEFINE n == Len(s)
           off == {k \in 0..n : w[k] \notin Seq(Component)}
<1>1. n \in Nat /\ \A k \in 1..n : s[k] \in Component
  OBVIOUS
<1>2. SUFFICES ASSUME off # {}
               PROVE  FALSE
  OBVIOUS
<1>3. PICK k \in off : \A j \in off : k <= j
  <2>1. off \in SUBSET Nat
    OBVIOUS
  <2> HIDE DEF off
  <2>2. QED
    BY <1>2, <2>1, LeastNatural
<1>4. k # 0
  <2>1. w[0] = <<>> /\ <<>> \in Seq(Component)
    BY DEF Walk
  <2>2. w[k] \notin Seq(Component)
    BY <1>3
  <2>3. QED
    BY <2>1, <2>2
<1>5. k \in 1..n /\ k - 1 \in 0..n /\ ~(k <= k - 1)
  BY <1>1, <1>3, <1>4
<1>6. w[k - 1] \in Seq(Component)
  BY <1>3, <1>5
<1>7. w[k] = Enter(w[k - 1], s[k])
  BY <1>5 DEF Walk
<1>8. QED
  BY <1>1, <1>3, <1>5, <1>6, <1>7, EnterGoesDown

\* A walk that goes on without ".." stays below, and without names it stands still.
StaysBelow(s, w, m, k) ==
  /\ IsPrefix(w[m], w[k])
  /\ (\A i \in (m + 1)..Len(s) : s[i] = "") => w[m] = w[k]

LEMMA WalkGoesDown ==
  ASSUME NEW s \in Seq(Component), NEW w, Walk(s, w), NEW m \in 0..Len(s),
         \A i \in (m + 1)..Len(s) : s[i] # ".."
  PROVE  StaysBelow(s, w, m, Len(s))
<1> DEFINE n == Len(s)
           off == {k \in 0..n : m <= k /\ ~StaysBelow(s, w, m, k)}
<1>1. n \in Nat /\ m \in Nat /\ m <= n /\ m \in 0..n /\ n \in 0..n
  OBVIOUS
<1>2. \A k \in 0..n : w[k] \in Seq(Component)
  BY WalkIsPath
<1>3. \A k \in 1..n : s[k] \in Component /\ w[k] = Enter(w[k - 1], s[k])
  BY DEF Walk
<1>4. SUFFICES ASSUME off # {}
               PROVE  FALSE
  BY <1>1
<1>5. PICK k \in off : \A j \in off : k <= j
  <2>1. off \in SUBSET Nat
    OBVIOUS
  <2> HIDE DEF off
  <2>2. QED
    BY <1>4, <2>1, LeastNatural
<1>6. StaysBelow(s, w, m, m)
  <2>1. IsPrefix(w[m], w[m])
    BY <1>1, <1>2, PrefixesCompose
  <2>2. QED
    BY <2>1 DEF StaysBelow
<1>7. k # m /\ k \in 0..n /\ m <= k /\ ~StaysBelow(s, w, m, k)
  BY <1>5, <1>6
<1>8. /\ k \in (m + 1)..n /\ k \in 1..n /\ k - 1 \in 0..n /\ m <= k - 1 /\ ~(k <= k - 1)
  BY <1>1, <1>7
<1>9. StaysBelow(s, w, m, k - 1)
  BY <1>5, <1>8
<1>10. /\ w[k - 1] \in Seq(Component) /\ w[m] \in Seq(Component) /\ w[k] \in Seq(Component)
       /\ s[k] \in Component /\ w[k] = Enter(w[k - 1], s[k]) /\ s[k] # ".."
  BY <1>1, <1>2, <1>3, <1>8
<1>11. IsPrefix(w[k - 1], w[k]) /\ (s[k] = "" => w[k] = w[k - 1])
  BY <1>10, EnterGoesDown
<1>12. IsPrefix(w[m], w[k - 1]) => IsPrefix(w[m], w[k])
  BY <1>10, <1>11, PrefixesCompose
<1>13. StaysBelow(s, w, m, k)
  BY <1>8, <1>9, <1>11, <1>12 DEF StaysBelow
<1>14. QED
  BY <1>7, <1>13

\* Where two walks share their first m components, they come by the same places.
LEMMA WalksShare ==
  ASSUME NEW s \in Seq(Component), NEW t \in Seq(Component), NEW v, NEW w, Walk(s, v), Walk(t, w),
         NEW m \in Nat, m <= Len(s), m <= Len(t), \A i \in 1..m : s[i] = t[i]
  PROVE  v[m] = w[m]
<1> DEFINE off == {k \in 0..m : v[k] # w[k]}
<1>1. off = {}
  <2> SUFFICES ASSUME off # {}
               PROVE  FALSE
    OBVIOUS
  <2>1. PICK k \in off : \A j \in off : k <= j
    <3>1. off \in SUBSET Nat
      OBVIOUS
    <3> HIDE DEF off
    <3>2. QED
      BY <3>1, LeastNatural
  <2>2. k # 0
    BY <2>1 DEF Walk
  <2>3. k \in 1..m /\ k \in 1..Len(s) /\ k \in 1..Len(t) /\ k - 1 \in 0..m /\ ~(k <= k - 1)
    BY <2>1, <2>2
  <2>4. v[k - 1] = w[k - 1]
    BY <2>1, <2>3
  <2>5. v[k] = Enter(v[k - 1], s[k]) /\ w[k] = Enter(w[k - 1], t[k])
    BY <2>3 DEF Walk
  <2>6. QED
    BY <2>1, <2>3, <2>4, <2>5
<1>2. m \in 0..m
  OBVIOUS
<1>3. QED
  BY <1>1, <1>2

\* A prefix without the slashes at its end has at least its first component.
LEMMA TrimmedIsPrefix ==
  ASSUME NEW p \in Path
  PROVE  \E k \in 1..Len(p) : /\ Trimmed(p) = SubSeq(p, 1, k)
                              /\ \A i \in (k + 1)..Len(p) : p[i] = ""
<1> DEFINE S == {1} \cup {i \in DOMAIN p : p[i] # ""}
           k == Max(S)
<1>1. Len(p) \in Nat /\ DOMAIN p = 1..Len(p) /\ 1 \in 1..Len(p)
  BY DEF Path
<1> HIDE DEF k
<1>2. S \subseteq 1..Len(p) /\ \A i \in 1..Len(p) : p[i] # "" => i \in S
  BY <1>1
<1>3. S # {}
  OBVIOUS
<1> HIDE DEF S
<1>4. k \in S /\ \A i \in S : i <= k
  <2>1. S \in SUBSET Nat /\ \A i \in S : i <= Len(p)
    <3>1. \A i \in 1..Len(p) : i \in Nat /\ i <= Len(p)
      BY <1>1
    <3>2. QED
      BY <1>2, <3>1
  <2>2. QED
    BY <1>1, <1>3, <2>1, MaxIsGreatest DEF k
<1>5. Trimmed(p) = SubSeq(p, 1, k)
  BY DEF Trimmed, S, k
<1>6. k \in 1..Len(p)
  BY <1>2, <1>4
<1>7. \A i \in (k + 1)..Len(p) : i \in 1..Len(p) /\ ~(i <= k)
  BY <1>1, <1>6
<1>8. \A i \in (k + 1)..Len(p) : p[i] = ""
  BY <1>2, <1>4, <1>7
<1>9. QED
  BY <1>5, <1>6, <1>8

LEMMA TextsArePaths ==
  /\ Path = Seq(Component) \ {<<>>} /\ Cwd \in Seq(Component)
  /\ Policy.read \in SUBSET Path /\ Policy.write \in SUBSET Path
BY HostAssumption DEF Component, Path

\* The comparison of texts is enough: a path that is let through leads into the directory that
\* one of the prefixes leads to.
LEMMA CheckedIsWithin ==
  ASSUME NEW prefixes \in SUBSET Path, NEW path \in Seq(Component), CheckFilePath(path, prefixes)
  PROVE  Within(path, prefixes)
<1>1. PICK p \in prefixes : IsPrefix(Trimmed(p), path)
  BY DEF CheckFilePath
<1>2. PICK k \in 1..Len(p) : Trimmed(p) = SubSeq(p, 1, k) /\ \A i \in (k + 1)..Len(p) : p[i] = ""
  BY TrimmedIsPrefix
<1>3. p \in Seq(Component) /\ Len(p) \in Nat /\ Len(path) \in Nat /\ k \in Nat \ {0} /\ k <= Len(p)
  BY TextsArePaths
<1>4. k <= Len(path) /\ \A i \in 1..k : p[i] = path[i]
  <2> DEFINE t == SubSeq(p, 1, k)
  <2>1. t \in Seq(Component) /\ Len(t) = k /\ \A i \in 1..k : t[i] = p[i]
    BY <1>3
  <2>2. IsPrefix(t, path)
    BY <1>1, <1>2
  <2> HIDE DEF t
  <2>3. QED
    BY <1>3, <2>1, <2>2, PrefixByPlace
<1>5. p[1] = path[1]
  BY <1>3, <1>4
<1> DEFINE base == IF path[1] = "" THEN <<>> ELSE Cwd
           b == Len(base)
           s == base \o p
           t == base \o path
<1>6. base \in Seq(Component) /\ b \in Nat
  <2>1. Cwd \in Seq(Component) /\ <<>> \in Seq(Component)
    BY TextsArePaths
  <2>2. base \in Seq(Component)
    BY <2>1
  <2> HIDE DEF base
  <2>3. QED
    BY <2>2
<1>7. /\ s \in Seq(Component) /\ Len(s) = b + Len(p)
      /\ \A i \in 1..b : s[i] = base[i]
      /\ \A i \in (b + 1)..Len(s) : s[i] = p[i - b]
  <2> HIDE DEF base
  <2>1. QED
    BY <1>3, <1>6
<1>8. /\ t \in Seq(Component) /\ Len(t) = b + Len(path)
      /\ \A i \in 1..b : t[i] = base[i]
      /\ \A i \in (b + 1)..Len(t) : t[i] = path[i - b]
  <2> HIDE DEF base
  <2>1. QED
    BY <1>3, <1>6
<1>9. Resolve(p) = FoldLeft(Enter, <<>>, s) /\ Resolve(path) = FoldLeft(Enter, <<>>, t)
  <2>1. path[1] = "" => s = p /\ t = path
    <3>1. <<>> \o p = p /\ <<>> \o path = path
      BY <1>3
    <3>2. QED
      BY <3>1
  <2>2. path[1] # "" => s = Cwd \o p /\ t = Cwd \o path
    OBVIOUS
  <2> HIDE DEF s, t
  <2>3. QED
    BY <1>5, <2>1, <2>2 DEF Resolve
<1> HIDE DEF base, b, s, t
<1>10. PICK v : Walk(s, v) /\ FoldLeft(Enter, <<>>, s) = v[Len(s)]
  BY <1>7, FoldIsWalk
<1>11. PICK w : Walk(t, w) /\ FoldLeft(Enter, <<>>, t) = w[Len(t)]
  BY <1>8, FoldIsWalk
<1> DEFINE m == b + k
<1>12. m \in Nat /\ m <= Len(s) /\ m <= Len(t) /\ m \in 0..Len(s) /\ m \in 0..Len(t)
  BY <1>3, <1>4, <1>6, <1>7, <1>8
<1>13. \A i \in 1..m : s[i] = t[i]
  <2>1. ASSUME NEW i \in 1..m
        PROVE  s[i] = t[i]
    <3>1. CASE i \in 1..b
      BY <1>7, <1>8, <3>1
    <3>2. CASE i \notin 1..b
      <4>1. i \in (b + 1)..Len(s) /\ i \in (b + 1)..Len(t) /\ i - b \in 1..k
        BY <1>3, <1>6, <1>12, <3>2
      <4>2. QED
        BY <1>4, <1>7, <1>8, <4>1
    <3>3. QED
      BY <3>1, <3>2
  <2>2. QED
    BY <2>1
<1>14. \A i \in (m + 1)..Len(s) : s[i] = ""
  <2>1. \A i \in (m + 1)..Len(s) : i \in (b + 1)..Len(s) /\ i - b \in (k + 1)..Len(p)
    BY <1>3, <1>6, <1>7
  <2>2. QED
    BY <1>2, <1>7, <2>1
<1>15. \A i \in (m + 1)..Len(t) : t[i] # ".."
  <2>1. \A i \in (m + 1)..Len(t) : i \in (b + 1)..Len(t) /\ i - b \in DOMAIN path
    BY <1>3, <1>6, <1>8
  <2>2. \A i \in DOMAIN path : path[i] # ".."
    BY HostAssumption DEF CheckFilePath, ToSet
  <2>3. QED
    BY <1>8, <2>1, <2>2
<1> HIDE DEF m
<1>16. v[m] = w[m]
  BY <1>7, <1>8, <1>10, <1>11, <1>12, <1>13, WalksShare
<1>17. v[m] = v[Len(s)]
  <2>1. \A i \in (m + 1)..Len(s) : s[i] # ".."
    BY <1>14
  <2>2. StaysBelow(s, v, m, Len(s))
    BY <1>7, <1>10, <1>12, <2>1, WalkGoesDown
  <2>3. QED
    BY <1>14, <2>2 DEF StaysBelow
<1>18. IsPrefix(w[m], w[Len(t)])
  <2>1. StaysBelow(t, w, m, Len(t))
    BY <1>8, <1>11, <1>12, <1>15, WalkGoesDown
  <2>2. QED
    BY <2>1 DEF StaysBelow
<1>19. IsPrefix(Resolve(p), Resolve(path))
  BY <1>9, <1>10, <1>11, <1>16, <1>17, <1>18
<1>20. QED
  BY <1>19 DEF Within

\* A manifest that passes keeps to the policy and to the contracts of the core.
Admitted(m) ==
  /\ \A cap \in m.capabilities : m.class = "Unsafe" /\ InBounds(cap)
  /\ \A c \in m.implements : IsCompatible(c.contract, c.version)

LEMMA PassedIsAdmitted ==
  ASSUME NEW m \in ManifestType, Refusal(m) = "none"
  PROVE  Admitted(m)
<1>1. /\ ~\E i \in m.implements : ~IsCompatible(i.contract, i.version)
      /\ ~(m.class = "Safe" /\ m.capabilities # {})
      /\ ~\E cap \in m.capabilities : ~IsAllowed(cap)
  BY DEF Refusal
<1>2. m.class \in {"Safe", "Unsafe"} /\ m.capabilities \subseteq Capability
  BY DEF ManifestType
<1>3. ASSUME NEW cap \in m.capabilities
      PROVE  InBounds(cap)
  <2>1. IsAllowed(cap) /\ cap \in Capability
    BY <1>1, <1>2
  <2>2. cap.kind \in {"FileRead", "FileWrite", "Network", "Shell", "Git"} /\ cap.target \in Seq(STRING)
    BY <2>1 DEF Capability
  <2>3. CASE cap.kind = "FileRead"
    <3>1. CheckFilePath(cap.target, Policy.read)
      BY <2>1, <2>3 DEF IsAllowed
    <3>2. Within(cap.target, Policy.read)
      BY <2>2, <3>1, CheckedIsWithin, TextsArePaths DEF Component
    <3>3. QED
      BY <2>3, <3>2 DEF InBounds
  <2>4. CASE cap.kind = "FileWrite"
    <3>1. CheckFilePath(cap.target, Policy.write)
      BY <2>1, <2>4 DEF IsAllowed
    <3>2. Within(cap.target, Policy.write)
      BY <2>2, <3>1, CheckedIsWithin, TextsArePaths DEF Component
    <3>3. QED
      BY <2>4, <3>2 DEF InBounds
  <2>5. CASE cap.kind = "Network"
    <3>1. \E name \in Policy.network : IsSuffix(name, cap.target)
      BY <2>1, <2>5 DEF IsAllowed
    <3>2. QED
      BY <2>5, <3>1 DEF InBounds
  <2>6. CASE cap.kind = "Shell"
    <3>1. Policy.shell
      BY <2>1, <2>6 DEF IsAllowed
    <3>2. QED
      BY <2>6, <3>1 DEF InBounds
  <2>7. CASE cap.kind = "Git"
    <3>1. Policy.git
      BY <2>1, <2>7 DEF IsAllowed
    <3>2. QED
      BY <2>7, <3>1 DEF InBounds
  <2>8. QED
    BY <2>2, <2>3, <2>4, <2>5, <2>6, <2>7
<1>4. QED
  BY <1>1, <1>2, <1>3 DEF Admitted

-----------------------------------------------------------------------------
(* The boot. *)

Decision == [kind : {"Grant", "Denial"}, plugin : Nat]
BootErrors == {"none", "SecurityInit", "ManifestInvalid", "IncompatibleContractVersion",
               "SafePluginRequestedCapability", "SecurityRejected"}

\* The loop has passed the first manifests and granted each in its turn; nothing is registered
\* once it has begun, and no run begins before it is through.
HostInv ==
  /\ registry \in Seq(ManifestType)
  /\ keyed \in BOOLEAN
  /\ bootStage \in {"registering", "verifying", "booted", "halted"}
  /\ bootError \in BootErrors
  /\ decisions \in Seq(Decision)
  /\ part \in {"seed", "bus", "boot"}
  /\ verified \in 0..Len(registry)
  /\ bootStage = "registering" => verified = 0
  /\ bootStage # "halted" =>
       /\ Len(decisions) = verified
       /\ \A i \in 1..verified : decisions[i] = [kind |-> "Grant", plugin |-> i]
  /\ \A i \in 1..verified : Refusal(registry[i]) = "none"
  /\ bootStage = "booted" => verified = Len(registry)
  /\ \A r \in Run : task[r] # NoTask => bootStage = "booted"

LEMMA RegisterKept ==
  ASSUME HostInv, RegisterPlugin
  PROVE  HostInv'
<1>1. PICK m \in ManifestType : Register(m)
  <2>1. ASSUME NextShipped
        PROVE  Shipped[Len(registry) + 1] \in ManifestType
    <3>1. Len(registry) \in Nat /\ Len(registry) < Len(Shipped) /\ Shipped \in Seq(ManifestType)
      BY <2>1, ProgramAssumption DEF NextShipped, HostInv
    <3>2. QED
      BY <3>1
  <2>2. QED
    BY <2>1, ProgramAssumption DEF RegisterPlugin
<1> DEFINE n == Len(registry)
<1>2. /\ registry \in Seq(ManifestType) /\ n \in Nat /\ verified = 0
      /\ registry' = Append(registry, m) /\ bootStage = "registering"
      /\ UNCHANGED <<keyed, bootStage, verified, bootError, decisions, part, task>>
  BY <1>1 DEF Register, RegisterPlugin, HostInv, vars, runVars
<1>3. registry' \in Seq(ManifestType) /\ Len(registry') = n + 1
  BY <1>2
<1>4. verified' \in 0..Len(registry') /\ \A i \in 1..verified' : FALSE
  BY <1>2, <1>3
<1>5. QED
  BY <1>2, <1>3, <1>4 DEF HostInv

LEMMA BootKept ==
  ASSUME HostInv, BootStep
  PROVE  HostInv'
<1>1. /\ UNCHANGED <<part, task>> /\ registry' = registry /\ keyed' = keyed
      /\ Len(registry) \in Nat /\ verified \in Nat /\ verified <= Len(registry)
  BY DEF BootStep, Boot, SelfCheck, VerifyNext, Announce, HostInv, vars, runVars
<1>2. CASE SelfCheck
  <2>1. /\ bootStage = "registering" /\ UNCHANGED <<verified, decisions>>
        /\ \/ bootStage' = "verifying" /\ bootError' = bootError
           \/ bootStage' = "halted" /\ bootError' = "SecurityInit"
    BY <1>2 DEF SelfCheck, Halt
  <2>2. \A r \in Run : task[r] = NoTask
    BY <2>1 DEF HostInv
  <2>3. QED
    BY <1>1, <2>1, <2>2 DEF HostInv, BootErrors
<1>3. CASE Announce
  <2>1. /\ bootStage = "verifying" /\ verified = Len(registry) /\ bootStage' = "booted"
        /\ UNCHANGED <<verified, bootError, decisions>>
    BY <1>3 DEF Announce
  <2>2. QED
    BY <1>1, <2>1 DEF HostInv
<1>4. CASE VerifyNext
  <2> DEFINE n == verified + 1
             refusal == Refusal(registry[n])
             d(kind) == [kind |-> kind, plugin |-> n]
  <2>1. /\ bootStage = "verifying" /\ verified < Len(registry)
        /\ \/ /\ refusal = "none" /\ decisions' = Append(decisions, d("Grant"))
              /\ verified' = n /\ UNCHANGED <<bootStage, bootError>>
           \/ /\ refusal # "none" /\ verified' = verified
              /\ decisions' = decisions \/ decisions' = Append(decisions, d("Denial"))
              /\ bootStage' = "halted" /\ bootError' = refusal
    BY <1>4 DEF VerifyNext, Decide, Halt
  <2>2. refusal \in BootErrors
    BY DEF Refusal, BootErrors
  <2>3. \A r \in Run : task[r] = NoTask
    BY <2>1 DEF HostInv
  <2>4. /\ n \in 1..Len(registry) /\ n \in Nat /\ d("Grant") \in Decision /\ d("Denial") \in Decision
        /\ \A i \in 1..n : i = n \/ i \in 1..verified
    BY <1>1, <2>1 DEF Decision
  <2>5. /\ decisions \in Seq(Decision) /\ Len(decisions) = verified
        /\ \A i \in 1..verified : decisions[i] = [kind |-> "Grant", plugin |-> i]
        /\ \A i \in 1..verified : Refusal(registry[i]) = "none"
    BY <2>1 DEF HostInv
  <2>6. decisions' \in Seq(Decision)
    <3>1. /\ Append(decisions, d("Grant")) \in Seq(Decision)
          /\ Append(decisions, d("Denial")) \in Seq(Decision)
      BY <2>4, <2>5
    <3> HIDE DEF d, refusal
    <3>2. QED
      BY <2>1, <2>5, <3>1
  <2>7. ASSUME refusal = "none"
        PROVE  /\ Len(decisions') = n
               /\ \A i \in 1..n : decisions'[i] = [kind |-> "Grant", plugin |-> i]
               /\ \A i \in 1..n : Refusal(registry[i]) = "none"
    <3>1. decisions' = Append(decisions, d("Grant"))
      BY <2>1, <2>7
    <3>2. Len(decisions') = n /\ decisions'[n] = d("Grant")
          /\ \A i \in 1..verified : decisions'[i] = decisions[i]
      <4> HIDE DEF d
      <4>1. QED
        BY <1>1, <2>4, <2>5, <3>1
    <3>3. QED
      BY <2>4, <2>5, <2>7, <3>2
  <2> HIDE DEF n, d, refusal
  <2>8. CASE refusal = "none"
    <3>1. verified' = n /\ bootStage' = "verifying" /\ bootError' = bootError
      BY <2>1, <2>8
    <3>2. n \in 0..Len(registry)
      BY <1>1, <2>4
    <3>3. QED
      BY <1>1, <2>3, <2>6, <2>7, <2>8, <3>1, <3>2 DEF HostInv
  <2>9. CASE refusal # "none"
    BY <1>1, <2>1, <2>2, <2>3, <2>5, <2>6, <2>9 DEF HostInv
  <2>10. QED
    BY <2>8, <2>9
<1>5. QED
  BY <1>2, <1>3, <1>4 DEF BootStep, Boot

LEMMA HostHolds == WyrtloomSpec => []HostInv
<1>1. WyrtloomInit => HostInv
  <2> SUFFICES ASSUME WyrtloomInit
               PROVE  HostInv
    OBVIOUS
  <2>1. /\ registry = <<>> /\ keyed \in BOOLEAN /\ bootStage = "registering" /\ verified = 0
        /\ bootError = "none" /\ decisions = <<>> /\ part \in {"seed", "bus", "boot"}
        /\ \A r \in Run : task[r] = NoTask
    BY DEF WyrtloomInit, HostInit, PipelineInit
  <2>2. Len(registry) = 0 /\ Len(decisions) = 0 /\ \A i \in 1..0 : FALSE
    BY <2>1
  <2>3. QED
    BY <2>1, <2>2 DEF HostInv, BootErrors
<1>2. HostInv /\ [WyrtloomNext]_programVars => HostInv'
  <2> SUFFICES ASSUME HostInv, [WyrtloomNext]_programVars
               PROVE  HostInv'
    OBVIOUS
  <2>1. CASE RegisterPlugin
    BY <2>1, RegisterKept
  <2>2. CASE BootStep
    BY <2>2, BootKept
  <2>3. CASE RunStep
    BY <2>3 DEF RunStep, HostInv, hostVars
  <2>4. CASE EventStep
    BY <2>4 DEF EventStep, HostInv, hostVars, vars, runVars
  <2>5. CASE UNCHANGED programVars
    BY <2>5 DEF programVars, HostInv, hostVars, vars, runVars
  <2>6. QED
    BY <2>1, <2>2, <2>3, <2>4, <2>5 DEF WyrtloomNext
<1>3. QED
  BY <1>1, <1>2, PTL DEF WyrtloomSpec

\* Whatever plugins are registered, and whatever the policy: no run begins and no host is up
\* before every plugin has passed, and none that has passed reaches beyond the policy.
THEOREM PluginsAreVerified == WyrtloomSpec => []VerifiedBeforeUse
<1>1. HostInv => VerifiedBeforeUse
  <2> SUFFICES ASSUME HostInv, bootStage = "booted" \/ (\E r \in Run : task[r] # NoTask)
               PROVE  /\ decisions = [i \in DOMAIN registry |-> [kind |-> "Grant", plugin |-> i]]
                      /\ \A i \in DOMAIN registry :
                           /\ \A cap \in registry[i].capabilities :
                                registry[i].class = "Unsafe" /\ InBounds(cap)
                           /\ \A c \in registry[i].implements : IsCompatible(c.contract, c.version)
    BY DEF VerifiedBeforeUse
  <2>1. bootStage = "booted"
    BY DEF HostInv
  <2>2. /\ registry \in Seq(ManifestType) /\ decisions \in Seq(Decision)
        /\ Len(decisions) = Len(registry)
        /\ \A i \in 1..Len(registry) : decisions[i] = [kind |-> "Grant", plugin |-> i]
        /\ \A i \in 1..Len(registry) : Refusal(registry[i]) = "none"
    BY <2>1 DEF HostInv
  <2>3. DOMAIN registry = 1..Len(registry) /\ DOMAIN decisions = 1..Len(registry)
        /\ \A i \in 1..Len(registry) : registry[i] \in ManifestType
    BY <2>2
  <2>4. decisions = [i \in DOMAIN registry |-> [kind |-> "Grant", plugin |-> i]]
    <3>1. decisions = [i \in DOMAIN decisions |-> decisions[i]]
      BY <2>2
    <3>2. QED
      BY <2>2, <2>3, <3>1
  <2>5. \A i \in DOMAIN registry : Admitted(registry[i])
    BY <2>2, <2>3, PassedIsAdmitted
  <2>6. QED
    BY <2>4, <2>5 DEF Admitted
<1>2. QED
  BY <1>1, HostHolds, PTL

\* Board, runs, host and bus keep their types.
THEOREM ProgramTypeCorrect == WyrtloomSpec => []WyrtloomTypeOK
<1>1. ProgramInv /\ CalmInv => PipelineTypeOK
  BY DEF ProgramInv, RunTypeOK, Place, CalmInv, LogRow, PipelineTypeOK
<1>2. BusInv => BusTypeOK
  BY DEF BusInv, ChannelsOK, Event, Receiver, BusTypeOK
<1>3. HostInv /\ BusInv => HostTypeOK /\ part \in {"seed", "bus", "boot"}
  BY <1>2 DEF HostInv, Decision, BootErrors, HostTypeOK
<1>4. QED
  BY <1>1, <1>3, ProgramHolds, CalmHolds, HostHolds, BusHolds, PTL DEF WyrtloomTypeOK
=============================================================================
