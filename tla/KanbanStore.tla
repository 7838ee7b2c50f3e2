---------------------------- MODULE KanbanStore ----------------------------
(***************************************************************************)
(* SqliteKanbanBoard, statement by statement                               *)
(* (crates/plugin-kanban-sqlite/src/lib.rs).  Several processes open the   *)
(* same database file, each through one connection behind a mutex, so a    *)
(* process runs one call at a time and calls of different processes        *)
(* interleave.  The variables of KanbanBoard are the committed tables; a   *)
(* connection in a transaction works on a copy.                            *)
(*                                                                         *)
(* SQLite is modelled by what the code relies on: BEGIN IMMEDIATE takes    *)
(* the one write lock or fails, a write statement takes effect or fails,   *)
(* COMMIT publishes the copy, and a COMMIT that fails because a reader of  *)
(* another process outlasts the busy timeout leaves the transaction open.  *)
(* A process may end at any time and come back with a fresh connection.    *)
(***************************************************************************)
EXTENDS KanbanBoard

CONSTANTS
  Conn,         \* processes with the database open
  NoTx,         \* a connection that is not in a transaction
  NoCall,       \* a connection that is not in a call
  FaultyWrites, \* a write statement may fail (disk full, I/O error)
  BusyCommits   \* COMMIT may fail with SQLITE_BUSY

\* The tables, as a transaction sees them.
TableSet ==
  [state : [TaskId -> TaskState \cup {Absent}], assignee : [TaskId -> Actor \cup {Nobody}],
   dependsOn : [TaskId -> SUBSET (TaskId \cup DanglingId)],
   blockReason : [TaskId -> Reason \cup {NoReason}], history : [TaskId -> Seq(StateChange)]]

ASSUME StoreAssumption ==
  /\ {FaultyWrites, BusyCommits} \subseteq BOOLEAN
  /\ NoTx \notin TableSet

VARIABLES
  pc,     \* where each connection is in transition or block
  call,   \* the call it is in: task, target, and the reason of block
  work,   \* the tables as its transaction sees them, or NoTx
  result, \* what its last call returned
  before  \* history variable: the committed tables at the BEGIN of its call, or NoTx

storeVars == <<pc, call, work, result, before>>
vars == <<boardVars, storeVars>>

Tables ==
  [state |-> state, assignee |-> assignee, dependsOn |-> dependsOn,
   blockReason |-> blockReason, history |-> history]

Publish(db) ==
  /\ state' = db.state
  /\ assignee' = db.assignee
  /\ dependsOn' = db.dependsOn
  /\ blockReason' = db.blockReason
  /\ history' = db.history

StoreInit ==
  /\ Init
  /\ pc = [c \in Conn |-> "idle"]
  /\ call = [c \in Conn |-> NoCall]
  /\ work = [c \in Conn |-> NoTx]
  /\ result = [c \in Conn |-> "none"]
  /\ before = [c \in Conn |-> NoTx]

\* What transition and block are called with; a reason makes it block.
Call == [task : TaskId, to : TaskState, reason : {NoReason}]
          \cup [task : TaskId, to : {"Blocked"}, reason : Reason]

\* The write lock is with the connection that has a transaction open.
Unlocked == \A c \in Conn : work[c] = NoTx

Goto(c, place) == pc' = [pc EXCEPT ![c] = place]

Return(c, what) ==
  /\ Goto(c, "idle")
  /\ call' = [call EXCEPT ![c] = NoCall]
  /\ result' = [result EXCEPT ![c] = what]
  /\ before' = [before EXCEPT ![c] = NoTx]

-----------------------------------------------------------------------------
(* transition and block *)

\* Mutant: a deferred BEGIN, which does not take the write lock.
BeginImmediate_Deferred(c, asked) ==
  /\ pc[c] = "idle" /\ work[c] = NoTx
  /\ work' = [work EXCEPT ![c] = Tables]
  /\ before' = [before EXCEPT ![c] = Tables]
  /\ call' = [call EXCEPT ![c] = asked]
  /\ Goto(c, "read")
  /\ UNCHANGED <<boardVars, result>>

BeginImmediate(c, asked) ==
  /\ pc[c] = "idle"
  /\ Unlocked
  /\ work' = [work EXCEPT ![c] = Tables]
  /\ before' = [before EXCEPT ![c] = Tables]
  /\ call' = [call EXCEPT ![c] = asked]
  /\ Goto(c, "read")
  /\ UNCHANGED <<boardVars, result>>

\* Busy, or a transaction of this very connection was never closed.
BeginFails(c) ==
  /\ pc[c] = "idle"
  /\ ~Unlocked
  /\ Return(c, "Err")
  /\ UNCHANGED <<boardVars, work>>

Errors(asked) ==
  IF asked.reason = NoReason THEN TransitionErrors(asked.task, asked.to)
                             ELSE BlockErrors(asked.task)

\* get_inner of the task and its dependencies; the lock keeps the committed
\* tables equal to the copy up to this point.
ReadAndCheck(c) ==
  /\ pc[c] = "read"
  /\ Goto(c, IF Errors(call[c]) = {} THEN "update" ELSE "rollback")
  /\ UNCHANGED <<boardVars, call, work, result, before>>

\* The row as the UPDATE of transition_inner or of block_inner leaves it.
Updated(db, asked) ==
  IF asked.reason = NoReason
  THEN [db EXCEPT !.state[asked.task] = asked.to, !.assignee[asked.task] = Nobody]
  ELSE [db EXCEPT !.state[asked.task] = "Blocked", !.blockReason[asked.task] = asked.reason]

\* Mutant: no transaction, the statement commits on its own.
UpdateRow_AutoCommit(c) ==
  /\ pc[c] = "update"
  /\ Publish(Updated(Tables, call[c]))
  /\ work' = [work EXCEPT ![c] = Updated(@, call[c])]
  /\ Goto(c, "insert")
  /\ UNCHANGED <<call, result, before>>

UpdateRow(c) ==
  /\ pc[c] = "update"
  /\ work' = [work EXCEPT ![c] = Updated(@, call[c])]
  /\ Goto(c, "insert")
  /\ UNCHANGED <<boardVars, call, result, before>>

\* task.state was read before the UPDATE.
InsertHistory(c) ==
  /\ pc[c] = "insert"
  /\ LET t == call[c].task IN
       /\ Len(history[t]) < MaxHistory
       /\ work' = [work EXCEPT ![c].history[t] =
                     Append(@, [from |-> state[t], to |-> call[c].to])]
  /\ Goto(c, "commit")
  /\ UNCHANGED <<boardVars, call, result, before>>

StatementFails(c) ==
  /\ FaultyWrites
  /\ pc[c] \in {"update", "insert"}
  /\ Goto(c, "rollback")
  /\ UNCHANGED <<boardVars, call, work, result, before>>

Commit(c) ==
  /\ pc[c] = "commit"
  /\ Publish(work[c])
  /\ work' = [work EXCEPT ![c] = NoTx]
  /\ Return(c, "Ok")

\* let _ = conn.execute("COMMIT"): Ok is returned, the transaction stays open.
CommitBusy(c) ==
  /\ BusyCommits
  /\ pc[c] = "commit"
  /\ Return(c, "Ok")
  /\ UNCHANGED <<boardVars, work>>

Rollback(c) ==
  /\ pc[c] = "rollback"
  /\ work' = [work EXCEPT ![c] = NoTx]
  /\ Return(c, "Err")
  /\ UNCHANGED boardVars

-----------------------------------------------------------------------------
(* create and claim are one statement each: it commits on its own, or joins *)
(* a transaction that was left open.                                        *)

View(c) == IF work[c] = NoTx THEN Tables ELSE work[c]

WriteOne(c, db) ==
  /\ work[c] # NoTx \/ Unlocked
  /\ IF work[c] = NoTx THEN Publish(db) /\ UNCHANGED work
                       ELSE work' = [work EXCEPT ![c] = db] /\ UNCHANGED boardVars
  /\ Return(c, "Ok")

\* The uuid is new everywhere, the dependencies are tasks this process can see.
CreateRow(c, t, creator, deps) ==
  /\ pc[c] = "idle"
  /\ \A d \in Conn : View(d).state[t] = Absent
  /\ deps \subseteq {d \in TaskId : View(c).state[d] # Absent} \cup DanglingId
  /\ WriteOne(c, [View(c) EXCEPT !.state[t] = "Backlog", !.assignee[t] = creator,
                                 !.dependsOn[t] = deps])

Claimable(db, t) == db.assignee[t] = Nobody /\ db.state[t] = "Ready"

ClaimRow(c, t, worker) ==
  /\ pc[c] = "idle"
  /\ Claimable(View(c), t)
  /\ WriteOne(c, [View(c) EXCEPT !.assignee[t] = worker])

\* Busy, an I/O error, or no row to claim.
SingleFails(c) ==
  /\ pc[c] = "idle"
  /\ \/ work[c] = NoTx /\ ~Unlocked
     \/ FaultyWrites
     \/ \E t \in TaskId : ~Claimable(View(c), t)
  /\ Return(c, "Err")
  /\ UNCHANGED <<boardVars, work>>

\* The process ends; SQLite rolls back what it had not committed.
Exit(c) ==
  /\ pc' = [pc EXCEPT ![c] = "idle"]
  /\ call' = [call EXCEPT ![c] = NoCall]
  /\ work' = [work EXCEPT ![c] = NoTx]
  /\ result' = [result EXCEPT ![c] = "none"]
  /\ before' = [before EXCEPT ![c] = NoTx]
  /\ UNCHANGED boardVars

ConnStep(c) ==
  \/ \E asked \in Call : BeginImmediate(c, asked)
  \/ BeginFails(c) \/ ReadAndCheck(c) \/ UpdateRow(c) \/ InsertHistory(c)
  \/ StatementFails(c) \/ Commit(c) \/ CommitBusy(c) \/ Rollback(c)
  \/ \E t \in TaskId, a \in Actor, deps \in SUBSET (TaskId \cup DanglingId) :
       CreateRow(c, t, a, deps)
  \/ \E t \in TaskId, a \in Actor : ClaimRow(c, t, a)
  \/ SingleFails(c) \/ Exit(c)

StoreNext == \E c \in Conn : ConnStep(c)

StoreSpec == StoreInit /\ [][StoreNext]_vars
-----------------------------------------------------------------------------
(* Properties. *)

\* Finding 005: the statements of one call take effect together or not at all,
\* and on the state that was checked, whatever the other processes do, wherever
\* a statement fails or a process ends.  The committed tables are a KanbanBoard.
StoreImplementsBoard == Spec

\* Finding 005 again, for the caller: when transition or block returns an error after
\* its BEGIN, the tables are those of that BEGIN, although statements may have run and
\* other processes have been at work, and no transaction is left open: the process
\* sees what everybody sees and can ask again.
ErrMeansUnchanged ==
  [][\A c \in Conn :
       call[c] # NoCall /\ pc'[c] = "idle" /\ result'[c] = "Err" =>
         Tables' = before[c] /\ work'[c] = NoTx]_vars

\* docs/contracts.md:154 "Record every transition as a `StateChange`": a move that
\* transition or block acknowledges is in the history.
OkMeansRecorded ==
  [][\A c \in Conn :
       call[c] # NoCall /\ pc'[c] = "idle" /\ result'[c] = "Ok" =>
         LET h == history'[call[c].task] IN
           Len(h) > Len(history[call[c].task]) /\ h[Len(h)].to = call[c].to]_vars
=============================================================================
