------------------------- MODULE KanbanStoreProofs -------------------------
(***************************************************************************)
(* Proofs about KanbanStore: for any number of processes, tasks, workers   *)
(* and calls, wherever statements fail, commits are busy and processes     *)
(* end, the committed tables are a KanbanBoard.                            *)
(***************************************************************************)
EXTENDS KanbanStore, KanbanBoardProofs

Places == {"idle", "read", "update", "insert", "commit", "rollback"}

\* The tables as transition or block leaves them, the history row included.
Completed(asked) ==
  [Updated(Tables, asked) EXCEPT !.history[asked.task] =
     Append(@, [from |-> state[asked.task], to |-> asked.to])]

\* A call works on a copy of the tables as they are, which are as its BEGIN found them,
\* and on what it has checked.
InCall(c) ==
  /\ pc[c] = "idle" => call[c] = NoCall
  /\ pc[c] # "idle" => call[c] \in Call /\ work[c] # NoTx /\ before[c] = Tables
  /\ pc[c] \in {"read", "update"} => work[c] = Tables
  /\ pc[c] \in {"update", "insert", "commit"} => Errors(call[c]) = {}
  /\ pc[c] = "insert" => work[c] = Updated(Tables, call[c])
  /\ pc[c] = "commit" => /\ Len(history[call[c].task]) < MaxHistory
                         /\ work[c] = Completed(call[c])

\* One transaction is open at a time, also one that was never closed.
StoreInv ==
  /\ TypeOK
  /\ pc \in [Conn -> Places]
  /\ call \in [Conn -> Call \cup {NoCall}]
  /\ work \in [Conn -> TableSet \cup {NoTx}]
  /\ before \in [Conn -> TableSet \cup {NoTx}]
  /\ \A c, d \in Conn : work[c] # NoTx /\ work[d] # NoTx => c = d
  /\ \A c \in Conn : InCall(c)

LEMMA TablesType ==
  ASSUME TypeOK
  PROVE  Tables \in TableSet /\ Tables # NoTx
BY StoreAssumption DEF TypeOK, Tables, TableSet

LEMMA CallTask ==
  ASSUME NEW asked \in Call
  PROVE  /\ asked.task \in TaskId /\ asked.to \in TaskState
         /\ asked.reason # NoReason => asked.to = "Blocked" /\ asked.reason \in Reason
BY DEF Call, TaskState

\* What a call that was not refused writes.
LEMMA CompletedType ==
  ASSUME TypeOK, NEW asked \in Call
  PROVE  /\ Updated(Tables, asked) \in TableSet
         /\ Errors(asked) = {} => Completed(asked) \in TableSet
<1> DEFINE t == asked.task
<1>1. t \in TaskId /\ asked.to \in TaskState /\ (asked.reason # NoReason => asked.reason \in Reason)
  BY CallTask
<1>2. Updated(Tables, asked) \in TableSet /\ Updated(Tables, asked).history = history
  <2>1. CASE asked.reason = NoReason
    BY <1>1, <2>1 DEF Updated, Tables, TableSet, TypeOK
  <2>2. CASE asked.reason # NoReason
    BY <1>1, <2>2 DEF Updated, Tables, TableSet, TypeOK, TaskState
  <2>3. QED
    BY <2>1, <2>2
<1>3. ASSUME Errors(asked) = {}
      PROVE  Completed(asked) \in TableSet
  <2> DEFINE move == [from |-> state[t], to |-> asked.to]
             db == Updated(Tables, asked)
  <2>1. state[t] \in TaskState
    BY <1>1, <1>3 DEF Errors, TransitionErrors, BlockErrors, Existing, TypeOK
  <2>2. move \in StateChange
    BY <1>1, <2>1 DEF StateChange
  <2>3. history[t] \in Seq(StateChange) /\ history \in [TaskId -> Seq(StateChange)]
    BY <1>1 DEF TypeOK
  <2>4. Append(history[t], move) \in Seq(StateChange)
    BY <2>2, <2>3
  <2> HIDE DEF move, db
  <2>5. Completed(asked) = [db EXCEPT !.history = [history EXCEPT ![t] = Append(history[t], move)]]
    BY <1>1, <1>2, <2>3 DEF Completed, TableSet, db, move
  <2>6. [history EXCEPT ![t] = Append(history[t], move)] \in [TaskId -> Seq(StateChange)]
    BY <2>3, <2>4
  <2>7. db \in TableSet
    BY <1>2 DEF db
  <2>8. QED
    BY <2>5, <2>6, <2>7 DEF TableSet
<1>4. QED
  BY <1>2, <1>3

\* A call that commits is one step of the board.
LEMMA CommitIsStep ==
  ASSUME TypeOK, NEW asked \in Call, Errors(asked) = {},
         Len(history[asked.task]) < MaxHistory, Publish(Completed(asked))
  PROVE  BoardStep
<1> DEFINE t == asked.task
           move == [from |-> state[t], to |-> asked.to]
<1>1. /\ t \in TaskId /\ asked.to \in TaskState
      /\ asked.reason # NoReason => asked.to = "Blocked" /\ asked.reason \in Reason
  BY CallTask
<1>2. history' = [history EXCEPT ![t] = Append(@, move)] /\ dependsOn' = dependsOn
  BY DEF Publish, Completed, Updated, Tables
<1>3. CASE asked.reason = NoReason
  <2>1. /\ state' = [state EXCEPT ![t] = asked.to] /\ assignee' = [assignee EXCEPT ![t] = Nobody]
        /\ blockReason' = blockReason
    BY <1>3 DEF Publish, Completed, Updated, Tables
  <2>2. Transition(t, asked.to)
    BY <1>2, <1>3, <2>1 DEF Transition, Record, Errors
  <2>3. QED
    BY <1>1, <2>2 DEF BoardStep
<1>4. CASE asked.reason # NoReason
  <2>1. /\ state' = [state EXCEPT ![t] = "Blocked"] /\ assignee' = assignee
        /\ blockReason' = [blockReason EXCEPT ![t] = asked.reason]
    BY <1>4 DEF Publish, Completed, Updated, Tables
  <2>2. Block(t, asked.reason)
    BY <1>1, <1>2, <1>4, <2>1 DEF Block, Record, Errors
  <2>3. \E r \in Reason : Block(t, r)
    BY <1>1, <1>4, <2>2
  <2>4. QED
    BY <1>1, <2>3 DEF BoardStep
<1>5. QED
  BY <1>3, <1>4

\* Every step of every process is a step of the board or leaves the tables alone.
LEMMA StoreStep ==
  ASSUME StoreInv, NEW c \in Conn, ConnStep(c)
  PROVE  [BoardStep]_boardVars
<1>1. TypeOK /\ InCall(c) /\ Tables # NoTx
  BY TablesType DEF StoreInv
<1>2. CASE Commit(c)
  BY <1>1, <1>2, CommitIsStep DEF Commit, InCall
<1>3. ASSUME NEW t \in TaskId, NEW a \in Actor, NEW deps \in SUBSET (TaskId \cup DanglingId),
             CreateRow(c, t, a, deps)
      PROVE  [BoardStep]_boardVars
  <2>1. CASE work[c] # NoTx
    BY <1>3, <2>1 DEF CreateRow, WriteOne
  <2>2. CASE work[c] = NoTx
    <3>1. View(c) = Tables
      BY <2>2 DEF View
    <3>2. state[t] = Absent /\ deps \subseteq Existing \cup DanglingId
      <4>1. Tables.state = state
        BY DEF Tables
      <4>2. QED
        BY <1>3, <3>1, <4>1 DEF CreateRow, Existing
    <3>3. Publish([Tables EXCEPT !.state[t] = "Backlog", !.assignee[t] = a, !.dependsOn[t] = deps])
      BY <1>3, <2>2, <3>1 DEF CreateRow, WriteOne
    <3>4. Create(t, a, deps)
      BY <3>2, <3>3 DEF Publish, Tables, Create
    <3>5. QED
      BY <3>4 DEF BoardStep
  <2>3. QED
    BY <2>1, <2>2
<1>4. ASSUME NEW t \in TaskId, NEW a \in Actor, ClaimRow(c, t, a)
      PROVE  [BoardStep]_boardVars
  <2>1. CASE work[c] # NoTx
    BY <1>4, <2>1 DEF ClaimRow, WriteOne
  <2>2. CASE work[c] = NoTx
    <3>1. View(c) = Tables
      BY <2>2 DEF View
    <3>2. assignee[t] = Nobody /\ state[t] = "Ready"
      BY <1>4, <3>1 DEF ClaimRow, Claimable, Tables
    <3>3. Publish([Tables EXCEPT !.assignee[t] = a])
      BY <1>4, <2>2, <3>1 DEF ClaimRow, WriteOne
    <3>4. Claim(t, a)
      BY <3>2, <3>3, BoardAssumption DEF Publish, Tables, Claim, ClaimErrors, Existing, TaskState
    <3>5. QED
      BY <3>4 DEF BoardStep
  <2>3. QED
    BY <2>1, <2>2
<1>5. CASE \/ \E asked \in Call : BeginImmediate(c, asked)
           \/ BeginFails(c) \/ ReadAndCheck(c) \/ UpdateRow(c) \/ InsertHistory(c)
           \/ StatementFails(c) \/ CommitBusy(c) \/ Rollback(c) \/ SingleFails(c) \/ Exit(c)
  BY <1>5 DEF BeginImmediate, BeginFails, ReadAndCheck, UpdateRow, InsertHistory,
              StatementFails, CommitBusy, Rollback, SingleFails, Exit
<1>6. QED
  BY <1>2, <1>3, <1>4, <1>5 DEF ConnStep

\* The other processes: what they hold is as it was, since nobody publishes while
\* another transaction is open.
LEMMA OthersKept ==
  ASSUME StoreInv, TypeOK', NEW c \in Conn,
         NEW p \in Places, pc' = [pc EXCEPT ![c] = p],
         NEW k \in Call \cup {NoCall}, call' = [call EXCEPT ![c] = k],
         NEW w \in TableSet \cup {NoTx}, work' = [work EXCEPT ![c] = w],
         NEW b \in TableSet \cup {NoTx}, before' = [before EXCEPT ![c] = b],
         w # NoTx \/ boardVars' # boardVars => \A d \in Conn : d # c => work[d] = NoTx,
         InCall(c)'
  PROVE  StoreInv'
<1>1. /\ pc' \in [Conn -> Places] /\ call' \in [Conn -> Call \cup {NoCall}]
      /\ work' \in [Conn -> TableSet \cup {NoTx}] /\ before' \in [Conn -> TableSet \cup {NoTx}]
      /\ \A d \in Conn : d # c => /\ pc'[d] = pc[d] /\ call'[d] = call[d]
                                 /\ work'[d] = work[d] /\ before'[d] = before[d]
      /\ work'[c] = w
  BY DEF StoreInv
<1>2. \A d, e \in Conn : work'[d] # NoTx /\ work'[e] # NoTx => d = e
  BY <1>1 DEF StoreInv
<1>3. ASSUME NEW d \in Conn, d # c
      PROVE  InCall(d)'
  <2>1. InCall(d) /\ pc[d] \in Places
    BY DEF StoreInv
  <2>2. CASE boardVars' # boardVars
    <3>1. work[d] = NoTx /\ pc[d] = "idle"
      BY <1>3, <2>1, <2>2 DEF InCall
    <3>2. QED
      BY <1>1, <1>3, <2>1, <3>1 DEF InCall
  <2>3. CASE boardVars' = boardVars
    <3>1. /\ Tables' = Tables /\ history' = history
          /\ Errors(call[d])' = Errors(call'[d])
          /\ Updated(Tables, call[d])' = Updated(Tables, call'[d])
          /\ Completed(call[d])' = Completed(call'[d])
      BY <2>3 DEF boardVars, Tables, Errors, TransitionErrors, BlockErrors, DependencyErrors,
                  Existing, Updated, Completed
    <3>2. QED
      BY <1>1, <1>3, <2>1, <3>1 DEF InCall
  <2>4. QED
    BY <2>2, <2>3
<1>4. \A d \in Conn : InCall(d)'
  BY <1>3
<1>5. QED
  BY <1>1, <1>2, <1>4 DEF StoreInv

\* While a process is in a call, nobody else has a transaction open.
LEMMA OneWriter ==
  ASSUME StoreInv, NEW c \in Conn, work[c] # NoTx \/ Unlocked
  PROVE  \A d \in Conn : d # c => work[d] = NoTx
BY DEF StoreInv, Unlocked

LEMMA StoreKept ==
  ASSUME StoreInv, NEW c \in Conn, ConnStep(c)
  PROVE  StoreInv'
<1>1. TypeOK'
  BY StoreStep, TypeKept DEF StoreInv
<1>2. /\ InCall(c) /\ pc[c] \in Places /\ call[c] \in Call \cup {NoCall}
      /\ work[c] \in TableSet \cup {NoTx}
      /\ pc \in [Conn -> Places] /\ call \in [Conn -> Call \cup {NoCall}]
      /\ work \in [Conn -> TableSet \cup {NoTx}] /\ before \in [Conn -> TableSet \cup {NoTx}]
      /\ before[c] \in TableSet \cup {NoTx}
      /\ TypeOK /\ Tables \in TableSet /\ Tables # NoTx
  BY TablesType DEF StoreInv
<1>3. /\ call' = call => call' = [call EXCEPT ![c] = call[c]]
      /\ work' = work => work' = [work EXCEPT ![c] = work[c]]
      /\ before' = before => before' = [before EXCEPT ![c] = before[c]]
  BY <1>2
<1> DEFINE Alone == \A d \in Conn : d # c => work[d] = NoTx
<1>4. work[c] # NoTx \/ Unlocked => Alone
  BY OneWriter
<1>5. ASSUME NEW asked \in Call, BeginImmediate(c, asked)
      PROVE  StoreInv'
  <2>1. /\ work' = [work EXCEPT ![c] = Tables] /\ call' = [call EXCEPT ![c] = asked]
        /\ pc' = [pc EXCEPT ![c] = "read"] /\ before' = [before EXCEPT ![c] = Tables]
        /\ UNCHANGED boardVars /\ Alone
    BY <1>4, <1>5 DEF BeginImmediate, Goto
  <2>2. Tables' = Tables
    BY <2>1 DEF boardVars, Tables
  <2>3. InCall(c)'
    BY <1>2, <2>1, <2>2 DEF InCall
  <2>4. "read" \in Places
    BY DEF Places
  <2>5. QED
    BY <1>1, <1>2, <2>1, <2>3, <2>4, OthersKept
<1>6. CASE BeginFails(c) \/ Rollback(c) \/ SingleFails(c) \/ Exit(c) \/ CommitBusy(c)
  <2>1. \E w \in {work[c], NoTx} : work' = [work EXCEPT ![c] = w]
    BY <1>3, <1>6 DEF BeginFails, Rollback, SingleFails, Exit, CommitBusy
  <2>2. /\ UNCHANGED boardVars /\ call' = [call EXCEPT ![c] = NoCall]
        /\ pc' = [pc EXCEPT ![c] = "idle"] /\ before' = [before EXCEPT ![c] = NoTx]
    BY <1>6 DEF BeginFails, Rollback, SingleFails, Exit, CommitBusy, Return, Goto
  <2>3. InCall(c)'
    BY <1>2, <2>2 DEF InCall
  <2>4. "idle" \in Places
    BY DEF Places
  <2>5. QED
    BY <1>1, <1>2, <1>4, <2>1, <2>2, <2>3, <2>4, OthersKept
<1>7. CASE ReadAndCheck(c) \/ StatementFails(c)
  <2>1. PICK p \in Places : pc' = [pc EXCEPT ![c] = p]
    BY <1>7 DEF ReadAndCheck, StatementFails, Goto, Places
  <2>2. /\ UNCHANGED <<boardVars, call, work, before>> /\ pc[c] # "idle"
        /\ pc'[c] \in {"update", "rollback"}
        /\ pc'[c] = "update" => pc[c] = "read" /\ Errors(call[c]) = {}
    BY <1>2, <1>7 DEF ReadAndCheck, StatementFails, Goto
  <2>3. Tables' = Tables /\ Errors(call[c])' = Errors(call[c])
    BY <2>2 DEF boardVars, Tables, Errors, TransitionErrors, BlockErrors, DependencyErrors, Existing
  <2>4. InCall(c)'
    BY <1>2, <2>2, <2>3 DEF InCall
  <2>5. /\ Alone /\ call' = [call EXCEPT ![c] = call[c]]
        /\ work' = [work EXCEPT ![c] = work[c]] /\ before' = [before EXCEPT ![c] = before[c]]
    BY <1>2, <1>3, <1>4, <2>2 DEF InCall
  <2>6. QED
    BY <1>1, <1>2, <2>1, <2>2, <2>4, <2>5, OthersKept
<1>8. CASE UpdateRow(c)
  <2> DEFINE w == Updated(Tables, call[c])
  <2>1. /\ pc[c] = "update" /\ work[c] = Tables /\ call[c] \in Call /\ Errors(call[c]) = {} /\ Alone
        /\ before[c] = Tables
    BY <1>2, <1>4, <1>8 DEF UpdateRow, InCall
  <2>2. /\ work' = [work EXCEPT ![c] = w] /\ UNCHANGED <<boardVars, call, before>>
        /\ pc' = [pc EXCEPT ![c] = "insert"]
    BY <1>8, <2>1 DEF UpdateRow, Goto
  <2>3. w \in TableSet /\ w # NoTx
    BY <1>2, <2>1, CompletedType, StoreAssumption
  <2>4. /\ Errors(call[c])' = Errors(call[c])
        /\ Updated(Tables, call[c])' = Updated(Tables, call[c]) /\ Tables' = Tables
    BY <2>2 DEF boardVars, Tables, Errors, TransitionErrors, BlockErrors, DependencyErrors,
                Existing, Updated
  <2>5. InCall(c)'
    <3> HIDE DEF w
    <3>1. work'[c] = w /\ pc'[c] = "insert" /\ call'[c] = call[c] /\ before'[c] = Tables'
      BY <1>2, <2>1, <2>2, <2>4
    <3>2. QED
      BY <2>1, <2>3, <2>4, <2>2, <3>1 DEF InCall, w
  <2>6. "insert" \in Places
    BY DEF Places
  <2>7. QED
    BY <1>1, <1>2, <1>3, <2>1, <2>2, <2>3, <2>5, <2>6, OthersKept
<1>9. CASE InsertHistory(c)
  <2> DEFINE w == Completed(call[c])
  <2>1. /\ pc[c] = "insert" /\ work[c] = Updated(Tables, call[c]) /\ call[c] \in Call
        /\ Errors(call[c]) = {} /\ Alone /\ before[c] = Tables
    BY <1>2, <1>4, <1>9 DEF InsertHistory, InCall
  <2>2. /\ work' = [work EXCEPT ![c] = w] /\ UNCHANGED <<boardVars, call, before>>
        /\ pc' = [pc EXCEPT ![c] = "commit"] /\ Len(history[call[c].task]) < MaxHistory
    BY <1>2, <1>9, <2>1 DEF InsertHistory, Goto, Completed
  <2>3. w \in TableSet /\ w # NoTx
    BY <1>2, <2>1, CompletedType, StoreAssumption
  <2>4. /\ Errors(call[c])' = Errors(call[c]) /\ history' = history
        /\ Completed(call[c])' = Completed(call[c]) /\ Tables' = Tables
    BY <2>2 DEF boardVars, Tables, Errors, TransitionErrors, BlockErrors, DependencyErrors,
                Existing, Updated, Completed
  <2>5. InCall(c)'
    <3> HIDE DEF w
    <3>1. work'[c] = w /\ pc'[c] = "commit" /\ call'[c] = call[c] /\ before'[c] = Tables'
      BY <1>2, <2>1, <2>2, <2>4
    <3>2. QED
      BY <2>1, <2>2, <2>3, <2>4, <3>1 DEF InCall, w
  <2>6. "commit" \in Places
    BY DEF Places
  <2>7. QED
    BY <1>1, <1>2, <1>3, <2>1, <2>2, <2>3, <2>5, <2>6, OthersKept
<1>10. CASE Commit(c)
  <2>1. /\ work' = [work EXCEPT ![c] = NoTx] /\ call' = [call EXCEPT ![c] = NoCall]
        /\ pc' = [pc EXCEPT ![c] = "idle"] /\ before' = [before EXCEPT ![c] = NoTx] /\ Alone
    BY <1>2, <1>4, <1>10 DEF Commit, Return, Goto, InCall
  <2>2. InCall(c)'
    BY <1>2, <2>1 DEF InCall
  <2>3. "idle" \in Places
    BY DEF Places
  <2>4. QED
    BY <1>1, <1>2, <2>1, <2>2, <2>3, OthersKept
<1>11. ASSUME NEW db, db \in TableSet, WriteOne(c, db)
       PROVE  StoreInv'
  <2>1. /\ call' = [call EXCEPT ![c] = NoCall] /\ pc' = [pc EXCEPT ![c] = "idle"] /\ Alone
        /\ work' = work \/ work' = [work EXCEPT ![c] = db]
        /\ before' = [before EXCEPT ![c] = NoTx]
    BY <1>4, <1>11 DEF WriteOne, Return, Goto
  <2>2. InCall(c)'
    BY <1>2, <2>1 DEF InCall
  <2>3. "idle" \in Places
    BY DEF Places
  <2>4. QED
    BY <1>1, <1>2, <1>3, <1>11, <2>1, <2>2, <2>3, OthersKept
<1>12. View(c) \in TableSet
  BY <1>2 DEF View
<1>13. ASSUME NEW t \in TaskId, NEW a \in Actor, NEW deps \in SUBSET (TaskId \cup DanglingId),
              CreateRow(c, t, a, deps)
       PROVE  StoreInv'
  <2> DEFINE db == [View(c) EXCEPT !.state[t] = "Backlog", !.assignee[t] = a, !.dependsOn[t] = deps]
  <2>1. db \in TableSet
    BY <1>12 DEF TableSet, TaskState
  <2>2. WriteOne(c, db)
    BY <1>13 DEF CreateRow
  <2> HIDE DEF db
  <2>3. QED
    BY <1>11, <2>1, <2>2
<1>14. ASSUME NEW t \in TaskId, NEW a \in Actor, ClaimRow(c, t, a)
       PROVE  StoreInv'
  <2> DEFINE db == [View(c) EXCEPT !.assignee[t] = a]
  <2>1. db \in TableSet
    BY <1>12 DEF TableSet
  <2>2. WriteOne(c, db)
    BY <1>14 DEF ClaimRow
  <2> HIDE DEF db
  <2>3. QED
    BY <1>11, <2>1, <2>2
<1>15. QED
  BY <1>5, <1>6, <1>7, <1>8, <1>9, <1>10, <1>13, <1>14 DEF ConnStep

LEMMA StoreHolds == StoreSpec => []StoreInv
<1>1. StoreInit => StoreInv
  BY DEF StoreInit, Init, StoreInv, TypeOK, InCall, Places
<1>2. StoreInv /\ [StoreNext]_vars => StoreInv'
  <2>1. ASSUME StoreInv, UNCHANGED vars
        PROVE  StoreInv'
    <3>1. UNCHANGED <<boardVars, pc, call, work, before>>
      BY <2>1 DEF vars, storeVars
    <3>2. TypeOK'
      BY <2>1, <3>1 DEF StoreInv, boardVars, TypeOK
    <3>3. ASSUME NEW c \in Conn
          PROVE  InCall(c)'
      <4>1. /\ Tables' = Tables /\ history' = history
            /\ Errors(call[c])' = Errors(call[c])
            /\ Updated(Tables, call[c])' = Updated(Tables, call[c])
            /\ Completed(call[c])' = Completed(call[c])
        BY <3>1 DEF boardVars, Tables, Errors, TransitionErrors, BlockErrors, DependencyErrors,
                    Existing, Updated, Completed
      <4>2. InCall(c)
        BY <2>1 DEF StoreInv
      <4>3. QED
        BY <3>1, <4>1, <4>2 DEF InCall
    <3>4. QED
      BY <2>1, <3>1, <3>2, <3>3 DEF StoreInv
  <2>2. QED
    BY <2>1, StoreKept DEF StoreNext
<1>3. QED
  BY <1>1, <1>2, PTL DEF StoreSpec

ResultOK == result \in [Conn -> {"none", "Ok", "Err"}]

LEMMA ResultsHold == StoreSpec => []ResultOK
<1>1. StoreInit => ResultOK
  BY DEF StoreInit, ResultOK
<1>2. ResultOK /\ [StoreNext]_vars => ResultOK'
  <2> SUFFICES ASSUME ResultOK, [StoreNext]_vars
               PROVE  ResultOK'
    OBVIOUS
  <2>1. ASSUME NEW c \in Conn, ConnStep(c)
        PROVE  ResultOK'
    <3>1. CASE \/ \E asked \in Call : BeginImmediate(c, asked)
               \/ ReadAndCheck(c) \/ UpdateRow(c) \/ InsertHistory(c) \/ StatementFails(c)
      BY <3>1 DEF BeginImmediate, ReadAndCheck, UpdateRow, InsertHistory, StatementFails, ResultOK
    <3>2. CASE \/ BeginFails(c) \/ Commit(c) \/ CommitBusy(c) \/ Rollback(c) \/ SingleFails(c)
               \/ Exit(c)
      BY <3>2 DEF BeginFails, Commit, CommitBusy, Rollback, SingleFails, Exit, Return, ResultOK
    <3>3. CASE \/ \E t \in TaskId, a \in Actor, deps \in SUBSET (TaskId \cup DanglingId) :
                    CreateRow(c, t, a, deps)
               \/ \E t \in TaskId, a \in Actor : ClaimRow(c, t, a)
      <4>1. \E db : WriteOne(c, db)
        BY <3>3 DEF CreateRow, ClaimRow
      <4>2. QED
        BY <4>1 DEF WriteOne, Return, ResultOK
    <3>4. QED
      BY <2>1, <3>1, <3>2, <3>3 DEF ConnStep
  <2>2. CASE UNCHANGED vars
    BY <2>2 DEF vars, storeVars, ResultOK
  <2>3. QED
    BY <2>1, <2>2 DEF StoreNext
<1>3. QED
  BY <1>1, <1>2, PTL DEF StoreSpec

\* The committed tables behave like the board: every call is one step of it, on the
\* state that was checked, or leaves it as it was.
THEOREM StoreRefinesBoard == StoreSpec => StoreImplementsBoard
<1>1. StoreInit => Init
  BY DEF StoreInit
<1>2. StoreInv /\ [StoreNext]_vars => [BoardStep]_boardVars
  BY StoreStep DEF StoreNext, vars
<1>3. QED
  BY <1>1, <1>2, StoreHolds, PTL DEF StoreSpec, StoreImplementsBoard, Spec

\* Therefore every process sees dependencies honoured and unbroken histories, whatever
\* the others do.
THEOREM StoreKeepsThePromises == StoreSpec => [](DependencyGate /\ HistoryIsTrail)
BY StoreRefinesBoard, GateHolds, TrailHolds, PTL DEF StoreImplementsBoard

\* The steps that end a call that had begun.
LEMMA EndOfCall ==
  ASSUME StoreInv, ResultOK, NEW d \in Conn, ConnStep(d), NEW c \in Conn,
         call[c] # NoCall, pc'[c] = "idle", result'[c] = "Err"
  PROVE  Rollback(c)
<1>1. pc[c] # "idle" /\ work[c] # NoTx
  BY DEF StoreInv, InCall
<1>2. pc \in [Conn -> Places] /\ result \in [Conn -> {"none", "Ok", "Err"}]
  BY DEF StoreInv, ResultOK
<1>3. CASE d # c
  <2>1. pc'[c] = pc[c]
    BY <1>2, <1>3 DEF ConnStep, BeginImmediate, BeginFails, ReadAndCheck, UpdateRow,
                      InsertHistory, StatementFails, Commit, CommitBusy, Rollback, CreateRow,
                      ClaimRow, WriteOne, SingleFails, Exit, Return, Goto
  <2>2. QED
    BY <1>1, <2>1
<1>4. CASE d = c
  <2>1. ~(\/ \E asked \in Call : BeginImmediate(c, asked)
          \/ ReadAndCheck(c) \/ UpdateRow(c) \/ InsertHistory(c) \/ StatementFails(c))
    BY <1>1, <1>2 DEF BeginImmediate, ReadAndCheck, UpdateRow, InsertHistory, StatementFails, Goto
  <2>2. ~(Commit(c) \/ CommitBusy(c) \/ Exit(c))
    BY <1>2 DEF Commit, CommitBusy, Exit, Return
  <2>3. ~(\/ \E t \in TaskId, a \in Actor, deps \in SUBSET (TaskId \cup DanglingId) :
               CreateRow(c, t, a, deps)
          \/ \E t \in TaskId, a \in Actor : ClaimRow(c, t, a)
          \/ BeginFails(c) \/ SingleFails(c))
    BY <1>1 DEF CreateRow, ClaimRow, BeginFails, SingleFails
  <2>4. QED
    BY <1>4, <2>1, <2>2, <2>3 DEF ConnStep
<1>5. QED
  BY <1>3, <1>4

\* A call of transition or block that returns an error after its BEGIN leaves the tables
\* of that BEGIN and no transaction: its statements ran on the copy only, and nobody else
\* could write from the BEGIN to the return.
THEOREM RefusalsChangeNothing == StoreSpec => ErrMeansUnchanged
<1> DEFINE Refused == \A c \in Conn :
      call[c] # NoCall /\ pc'[c] = "idle" /\ result'[c] = "Err" =>
        Tables' = before[c] /\ work'[c] = NoTx
<1>1. StoreInv /\ ResultOK /\ [StoreNext]_vars => [Refused]_vars
  <2> SUFFICES ASSUME StoreInv, ResultOK, NEW d \in Conn, ConnStep(d), NEW c \in Conn,
                      call[c] # NoCall, pc'[c] = "idle", result'[c] = "Err"
               PROVE  Tables' = before[c] /\ work'[c] = NoTx
    BY DEF StoreNext
  <2>1. Rollback(c)
    BY EndOfCall
  <2>2. before[c] = Tables /\ work \in [Conn -> TableSet \cup {NoTx}]
    BY <2>1 DEF Rollback, StoreInv, InCall
  <2>3. Tables' = Tables /\ work'[c] = NoTx
    BY <2>1, <2>2 DEF Rollback, boardVars, Tables
  <2>4. QED
    BY <2>2, <2>3
<1>2. QED
  BY <1>1, StoreHolds, ResultsHold, PTL DEF StoreSpec, ErrMeansUnchanged
=============================================================================
