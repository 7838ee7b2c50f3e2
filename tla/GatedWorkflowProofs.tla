------------------------ MODULE GatedWorkflowProofs ------------------------
(***************************************************************************)
(* Proofs about GatedWorkflow, for any number of callers, tasks, actors,   *)
(* gates, tokens and requests.                                             *)
(***************************************************************************)
EXTENDS GatedWorkflow, KanbanBoardProofs, FiniteSetTheorems, WellFoundedInduction

\* A caller on its way to the board holds a token for the task it looks at.
HoldsToken(c) ==
  pc[c] \in {"lookup", "transition"} => request[c].token.task = request[c].task

\* In a calm world one request is under way at a time, and the stage it looked up is
\* the one its task is still in.
GateInv ==
  /\ pc \in [Caller -> {"idle", "lookup", "transition", "audit"}]
  /\ \E R : request \in [Caller -> R]
  /\ \E S : redemptions \in Seq(S)
  /\ \A c \in Caller : HoldsToken(c)
  /\ calm => \A c, d \in Caller : pc[c] # "idle" /\ pc[d] # "idle" => c = d
  /\ calm => \A c \in Caller :
       pc[c] = "transition" => state[request[c].task] = request[c].token.from
  /\ LeavesTokenStage

\* A step of one caller.  In a calm world the others are idle, before and after.
LEMMA CallerKept ==
  ASSUME GateInv, NEW c \in Caller, CallerStep(c)
  PROVE  GateInv'
<1>1. /\ calm' = calm
      /\ \E next \in {"idle", "lookup", "transition", "audit"} : pc' = [pc EXCEPT ![c] = next]
      /\ \E r : request' = [request EXCEPT ![c] = r]
  <2>1. CASE \E token \in Token \cup {NoToken}, t \in TaskId, to \in TaskState, a \in Actor :
               Present(c, token, t, to, a)
    <3>1. PICK token \in Token \cup {NoToken}, t \in TaskId, to \in TaskState, a \in Actor :
            Present(c, token, t, to, a)
      BY <2>1
    <3>2. calm' = calm /\ \E r : request' = [request EXCEPT ![c] = r]
      BY <3>1 DEF Present, world
    <3>3. \E refused \in BOOLEAN : pc' = [pc EXCEPT ![c] = IF refused THEN "audit" ELSE "lookup"]
      BY <3>1, Zenon DEF Present, Decide
    <3>4. QED
      BY <3>2, <3>3
  <2>2. CASE Lookup(c) \/ Apply(c) \/ Audit(c)
    <3>1. request' = request /\ request = [request EXCEPT ![c] = request[c]]
      BY <2>2 DEF Lookup, Apply, Audit, GateInv
    <3>2. QED
      BY <2>2, <3>1 DEF Lookup, Apply, Audit, Decide, world
  <2>3. QED
    BY <2>1, <2>2 DEF CallerStep
<1>2. calm => \A d \in Caller : d # c => pc[d] = "idle" /\ pc'[d] = "idle"
  <2>1. calm /\ pc[c] = "idle" => \A d \in Caller : pc[d] = "idle"
    BY DEF CallerStep, Present, NobodyElse, Lookup, Apply, Audit
  <2>2. QED
    BY <1>1, <2>1 DEF GateInv
<1>3. \A d \in Caller : d # c => pc'[d] = pc[d] /\ request'[d] = request[d]
  BY <1>1 DEF GateInv
<1>4. /\ pc' \in [Caller -> {"idle", "lookup", "transition", "audit"}]
      /\ calm' => \A d, e \in Caller : pc'[d] # "idle" /\ pc'[e] # "idle" => d = e
  BY <1>1, <1>2 DEF GateInv
<1>5. \E R : request' \in [Caller -> R]
  <2>1. PICK R : request \in [Caller -> R]
    BY DEF GateInv
  <2>2. PICK r : request' = [request EXCEPT ![c] = r]
    BY <1>1
  <2>3. request' \in [Caller -> R \cup {r}]
    BY <2>1, <2>2
  <2>4. QED
    BY <2>3
<1>6. SUFFICES /\ \E S : redemptions' \in Seq(S)
               /\ HoldsToken(c)'
               /\ calm /\ pc'[c] = "transition" =>
                    state'[request'[c].task] = request'[c].token.from
               /\ LeavesTokenStage'
  <2>1. \A d \in Caller : HoldsToken(d)'
    BY <1>3, <1>6 DEF HoldsToken, GateInv
  <2>2. QED
    BY <1>1, <1>2, <1>4, <1>5, <1>6, <2>1 DEF GateInv
<1>7. (\E S : redemptions \in Seq(S)) /\ HoldsToken(c) /\ LeavesTokenStage
  BY DEF GateInv
<1>8. CASE \E token \in Token \cup {NoToken}, t \in TaskId, to \in TaskState, a \in Actor :
             Present(c, token, t, to, a)
  <2>1. PICK token \in Token \cup {NoToken}, t \in TaskId, to \in TaskState, a \in Actor :
          Present(c, token, t, to, a)
    BY <1>8
  <2>2. /\ redemptions' = redemptions /\ calm' = calm /\ pc'[c] \in {"audit", "lookup"}
        /\ pc'[c] = "lookup" => request'[c].task = t /\ request'[c].token = token /\ token.task = t
    BY <2>1 DEF Present, Decide, Checked, GateInv, world
  <2>3. QED
    BY <1>7, <2>2 DEF HoldsToken, LeavesTokenStage
<1>9. CASE Lookup(c)
  <2>1. /\ UNCHANGED <<redemptions, request, state>> /\ calm' = calm /\ pc[c] = "lookup"
        /\ pc'[c] = "transition" => state[request[c].task] = request[c].token.from
    BY <1>9 DEF Lookup, Decide, GateInv, boardVars, world
  <2>2. QED
    BY <1>7, <2>1 DEF HoldsToken, LeavesTokenStage
<1>10. CASE Apply(c)
  <2>1. pc[c] = "transition" /\ request' = request /\ pc'[c] = "audit" /\ calm' = calm
    BY <1>10 DEF Apply, GateInv, world
  <2> DEFINE token == request[c].token
             move == [token |-> token, left |-> state[token.task]]
  <2>2. redemptions' = redemptions \/ redemptions' = Append(redemptions, move)
    BY <1>10 DEF Apply
  <2>3. calm => move.left = move.token.from
    BY <1>7, <2>1 DEF HoldsToken, GateInv
  <2> HIDE DEF move
  <2>4. \E S : redemptions' \in Seq(S)
    <3>1. PICK S : redemptions \in Seq(S)
      BY <1>7
    <3>2. redemptions' \in Seq(S \cup {move})
      BY <2>2, <3>1
    <3>3. QED
      BY <3>2
  <2>5. LeavesTokenStage'
    <3>1. \A i \in DOMAIN redemptions' : \/ i \in DOMAIN redemptions /\ redemptions'[i] = redemptions[i]
                                         \/ redemptions'[i] = move
      BY <1>7, <2>2
    <3>2. QED
      BY <1>7, <2>1, <2>3, <3>1 DEF LeavesTokenStage
  <2>6. QED
    BY <2>1, <2>4, <2>5 DEF HoldsToken
<1>11. CASE Audit(c)
  <2>1. redemptions' = redemptions /\ pc'[c] = "idle" /\ calm' = calm
    BY <1>11 DEF Audit, GateInv, world
  <2>2. QED
    BY <1>7, <2>1 DEF HoldsToken, LeavesTokenStage
<1>12. QED
  BY <1>8, <1>9, <1>10, <1>11 DEF CallerStep

\* Nobody calls the board in a calm world while a request is under way, so its task
\* stays in the stage that was looked up.
LEMMA GateKept ==
  ASSUME GateInv, [WorkflowNext]_workflowVars
  PROVE  GateInv'
<1>1. CASE \E c \in Caller : CallerStep(c)
  BY <1>1, CallerKept
<1>2. CASE Others
  <2>1. UNCHANGED gateVars /\ (calm => \A c \in Caller : pc[c] = "idle")
    BY <1>2 DEF Others, NobodyElse
  <2>2. QED
    BY <2>1 DEF gateVars, world, GateInv, HoldsToken, LeavesTokenStage
<1>3. CASE UNCHANGED <<state, calm, pc, request, redemptions>>
  BY <1>3 DEF GateInv, HoldsToken, LeavesTokenStage
<1>4. CASE (\E token \in Token : IssueToken(token)) \/ (\E token \in issued : Revoke(token))
  BY <1>3, <1>4 DEF IssueToken, Revoke, boardVars, world
<1>5. QED
  BY <1>1, <1>2, <1>3, <1>4 DEF WorkflowNext, GatesAlone, ProfileAlone, DigestAlone, GateNext,
       workflowVars, vars, boardVars, gateVars, world

\* As long as requests do not overlap with other calls of the board, a guarded move
\* leaves the stage its token was issued from.
THEOREM TokensFitTheStage == WorkflowSpec => []LeavesTokenStage
<1>1. ASSUME WorkflowInit
      PROVE  GateInv
  <2>1. /\ pc = [c \in Caller |-> "idle"] /\ request = [c \in Caller |-> NoRequest]
        /\ redemptions = <<>>
    BY <1>1 DEF WorkflowInit, GateInit
  <2>2. request \in [Caller -> {NoRequest}] /\ redemptions \in Seq({})
    BY <2>1
  <2>3. (\E R : request \in [Caller -> R]) /\ (\E S : redemptions \in Seq(S))
    BY <2>2
  <2>4. QED
    BY <2>1, <2>3 DEF GateInv, HoldsToken, LeavesTokenStage
<1>2. GateInv /\ [WorkflowNext]_workflowVars => GateInv'
  BY GateKept
<1>3. GateInv => LeavesTokenStage
  BY DEF GateInv
<1>4. QED
  BY <1>1, <1>2, <1>3, PTL DEF WorkflowSpec
-----------------------------------------------------------------------------
(* Nothing is decided off the record. *)

Busy == {c \in Caller : pc[c] # "idle"}

\* Moved, and not yet on the record.
Unrecorded == {c \in Caller : pc[c] = "audit" /\ decision[c] = "Moved"}

CompletedRows(log) == {i \in DOMAIN log : log[i].outcome = "Completed"}

\* Each request made is a row or somebody's business; each move made is a row marked
\* Completed or about to be one.
Balanced ==
  /\ Len(gateLog) + Cardinality(Busy) = requests
  /\ Cardinality(CompletedRows(gateLog)) + Cardinality(Unrecorded) = Len(redemptions)

RecordInv ==
  /\ pc \in [Caller -> {"idle", "lookup", "transition", "audit"}]
  /\ \E D : decision \in [Caller -> D]
  /\ \E S : gateLog \in Seq(S)
  /\ \E S : redemptions \in Seq(S)
  /\ requests \in Nat
  /\ IsFiniteSet(Busy)
  /\ logging => Balanced

\* A row at the end of the log counts once, if it is marked Completed.
LEMMA RowCounted ==
  ASSUME NEW S, NEW log \in Seq(S), NEW row
  PROVE  /\ IsFiniteSet(CompletedRows(log))
         /\ Len(Append(log, row)) = Len(log) + 1
         /\ Cardinality(CompletedRows(Append(log, row))) =
              Cardinality(CompletedRows(log)) + IF row.outcome = "Completed" THEN 1 ELSE 0
<1> DEFINE longer == Append(log, row)
<1>1. Len(log) \in Nat /\ DOMAIN log = 1..Len(log)
  OBVIOUS
<1>2. /\ DOMAIN longer = 1..(Len(log) + 1) /\ Len(longer) = Len(log) + 1
      /\ longer[Len(log) + 1] = row
      /\ \A i \in 1..Len(log) : longer[i] = log[i]
  OBVIOUS
<1> HIDE DEF longer
<1>3. IsFiniteSet(1..Len(log)) /\ CompletedRows(log) \subseteq 1..Len(log)
  BY <1>1, FS_Interval DEF CompletedRows
<1>4. IsFiniteSet(CompletedRows(log)) /\ Cardinality(CompletedRows(log)) \in Nat
  BY <1>3, FS_Subset, FS_CardinalityType
<1>5. Len(log) + 1 \notin CompletedRows(log)
  BY <1>1, <1>3
<1>6. CompletedRows(longer) = IF row.outcome = "Completed"
                              THEN CompletedRows(log) \cup {Len(log) + 1} ELSE CompletedRows(log)
  <2>1. \A i : i \in 1..(Len(log) + 1) <=> i \in 1..Len(log) \/ i = Len(log) + 1
    BY <1>1
  <2>2. \A i : i \in CompletedRows(longer) <=>
                 \/ i \in CompletedRows(log)
                 \/ i = Len(log) + 1 /\ row.outcome = "Completed"
    BY <1>1, <1>2, <2>1 DEF CompletedRows
  <2>3. QED
    BY <2>2
<1>7. Cardinality(CompletedRows(longer)) =
        Cardinality(CompletedRows(log)) + IF row.outcome = "Completed" THEN 1 ELSE 0
  <2>1. Cardinality(CompletedRows(log) \cup {Len(log) + 1}) = Cardinality(CompletedRows(log)) + 1
    BY <1>4, <1>5, FS_AddElement
  <2>2. QED
    BY <1>4, <1>6, <2>1
<1>8. QED
  BY <1>2, <1>4, <1>7 DEF longer

\* Each of the four steps of a request moves its share from one side to the other.
LEMMA RecordKept ==
  ASSUME RecordInv, NEW c \in Caller, CallerStep(c)
  PROVE  RecordInv'
<1>1. PICK D : decision \in [Caller -> D]
  BY DEF RecordInv
<1>2. PICK S : gateLog \in Seq(S)
  BY DEF RecordInv
<1>3. PICK R : redemptions \in Seq(R)
  BY DEF RecordInv
<1>4. /\ IsFiniteSet(Busy) /\ Cardinality(Busy) \in Nat
      /\ IsFiniteSet(Unrecorded) /\ Cardinality(Unrecorded) \in Nat
  BY FS_Subset, FS_CardinalityType DEF RecordInv, Busy, Unrecorded
<1>5. CASE \E token \in Token \cup {NoToken}, t \in TaskId, to \in TaskState, a \in Actor :
             Present(c, token, t, to, a)
  <2>1. PICK token \in Token \cup {NoToken}, t \in TaskId, to \in TaskState, a \in Actor :
          Present(c, token, t, to, a)
    BY <1>5
  <2>2. /\ pc[c] = "idle" /\ requests' = requests + 1
        /\ UNCHANGED <<gateLog, redemptions>> /\ logging' = logging
    BY <2>1 DEF Present, world
  <2>3. \E next \in {"lookup", "audit"}, why \in {"TokenRequired", "InvalidToken", "none"} :
          /\ pc' = [pc EXCEPT ![c] = next]
          /\ decision' = [decision EXCEPT ![c] = why]
    <3> DEFINE checked == Checked(token, t, to, a)
    <3>1. checked \in {"TokenRequired", "fits", "InvalidToken"}
      BY DEF Checked
    <3>2. Decide(c, checked # "fits", checked, "lookup")
      BY <2>1, Zenon DEF Present
    <3>3. QED
      BY <3>1, <3>2 DEF Decide
  <2>4. PICK next \in {"lookup", "audit"}, why \in {"TokenRequired", "InvalidToken", "none"} :
          /\ pc' = [pc EXCEPT ![c] = next]
          /\ decision' = [decision EXCEPT ![c] = why]
    BY <2>3
  <2>5. /\ pc' \in [Caller -> {"idle", "lookup", "transition", "audit"}]
        /\ decision' \in [Caller -> D \cup {why}]
        /\ Busy' = Busy \cup {c} /\ c \notin Busy
        /\ Unrecorded' = Unrecorded
    BY <1>1, <2>2, <2>4 DEF RecordInv, Busy, Unrecorded
  <2>6. IsFiniteSet(Busy') /\ Cardinality(Busy') = Cardinality(Busy) + 1
    BY <1>4, <2>5, FS_AddElement
  <2>7. requests' \in Nat /\ CompletedRows(gateLog)' = CompletedRows(gateLog)
        /\ Len(gateLog) \in Nat
    BY <1>2, <2>2 DEF RecordInv, CompletedRows
  <2>8. Balanced => Balanced'
    BY <1>4, <2>2, <2>5, <2>6, <2>7 DEF Balanced
  <2>9. QED
    BY <1>2, <1>3, <2>2, <2>5, <2>6, <2>7, <2>8 DEF RecordInv
<1>6. CASE Lookup(c)
  <2>1. /\ pc[c] = "lookup"
        /\ UNCHANGED <<gateLog, redemptions, requests>> /\ logging' = logging
        /\ \E next \in {"transition", "audit"}, why \in {"StageMismatch", "Kanban", "none"} :
             /\ pc' = [pc EXCEPT ![c] = next]
             /\ decision' = [decision EXCEPT ![c] = why]
    BY <1>6 DEF Lookup, Decide, world
  <2>2. PICK next \in {"transition", "audit"}, why \in {"StageMismatch", "Kanban", "none"} :
             /\ pc' = [pc EXCEPT ![c] = next]
             /\ decision' = [decision EXCEPT ![c] = why]
    BY <2>1
  <2>3. /\ pc' \in [Caller -> {"idle", "lookup", "transition", "audit"}]
        /\ decision' \in [Caller -> D \cup {why}]
        /\ Busy' = Busy /\ Unrecorded' = Unrecorded
    BY <1>1, <2>1, <2>2 DEF RecordInv, Busy, Unrecorded
  <2>4. QED
    BY <1>2, <1>3, <2>1, <2>3 DEF RecordInv, Balanced, CompletedRows
<1>7. CASE Apply(c)
  <2>1. /\ pc[c] = "transition" /\ pc' = [pc EXCEPT ![c] = "audit"]
        /\ UNCHANGED <<gateLog, requests>> /\ logging' = logging
        /\ \/ /\ \E r : redemptions' = Append(redemptions, r)
              /\ decision' = [decision EXCEPT ![c] = "Moved"]
           \/ /\ redemptions' = redemptions
              /\ decision' = [decision EXCEPT ![c] = "Kanban"]
    BY <1>7 DEF Apply, world
  <2>2. /\ pc' \in [Caller -> {"idle", "lookup", "transition", "audit"}]
        /\ decision' \in [Caller -> D \cup {"Moved", "Kanban"}]
        /\ Busy' = Busy /\ c \notin Unrecorded
        /\ decision'[c] = "Moved" => Unrecorded' = Unrecorded \cup {c}
        /\ decision'[c] = "Kanban" => Unrecorded' = Unrecorded
        /\ decision'[c] = "Moved" \/ decision'[c] = "Kanban"
    BY <1>1, <2>1 DEF RecordInv, Busy, Unrecorded
  <2>3. Cardinality(Unrecorded \cup {c}) = Cardinality(Unrecorded) + 1
    BY <1>4, <2>2, FS_AddElement
  <2>4. CASE decision'[c] = "Moved"
    <3>1. PICK r : redemptions' = Append(redemptions, r)
      BY <1>1, <2>1, <2>4
    <3>2. redemptions' \in Seq(R \cup {r}) /\ Len(redemptions') = Len(redemptions) + 1
      BY <1>3, <3>1
    <3>3. Len(redemptions) \in Nat /\ Cardinality(CompletedRows(gateLog)) \in Nat
      BY <1>2, <1>3, RowCounted, FS_CardinalityType
    <3>4. CompletedRows(gateLog)' = CompletedRows(gateLog)
      BY <2>1 DEF CompletedRows
    <3>5. Cardinality(Unrecorded') = Cardinality(Unrecorded) + 1
      BY <2>2, <2>3, <2>4
    <3>6. Balanced => Balanced'
      <4>1. gateLog' = gateLog /\ requests' = requests /\ Busy' = Busy
        BY <2>1, <2>2
      <4>2. QED
        BY <1>4, <3>2, <3>3, <3>4, <3>5, <4>1 DEF Balanced
    <3>7. QED
      BY <1>2, <2>1, <2>2, <3>2, <3>6 DEF RecordInv
  <2>5. CASE decision'[c] = "Kanban"
    <3>1. redemptions' = redemptions
      BY <1>1, <2>1, <2>5
    <3>2. Balanced => Balanced'
      BY <2>1, <2>2, <2>5, <3>1 DEF Balanced, CompletedRows
    <3>3. QED
      BY <1>2, <1>3, <2>1, <2>2, <2>5, <3>1, <3>2 DEF RecordInv
  <2>6. QED
    BY <2>2, <2>4, <2>5
<1>8. CASE Audit(c)
  <2> DEFINE row == [task |-> request[c].task, outcome |-> Outcome(decision[c])]
  <2>1. /\ pc[c] = "audit" /\ pc' = [pc EXCEPT ![c] = "idle"]
        /\ UNCHANGED <<redemptions, requests>> /\ logging' = logging
        /\ \/ gateLog' = Append(gateLog, row) /\ decision' = decision
           \/ /\ ~logging /\ gateLog' = gateLog
              /\ decision' = [decision EXCEPT ![c] = "Audit"]
    BY <1>8 DEF Audit, world
  <2>2. row.outcome = "Completed" <=> decision[c] = "Moved"
    BY DEF Outcome
  <2> HIDE DEF row
  <2>3. /\ pc' \in [Caller -> {"idle", "lookup", "transition", "audit"}]
        /\ decision' \in [Caller -> D \cup {"Audit"}]
        /\ c \in Busy /\ Busy' = Busy \ {c}
        /\ Unrecorded' = Unrecorded \ {c}
        /\ c \in Unrecorded <=> decision[c] = "Moved"
    BY <1>1, <2>1 DEF RecordInv, Busy, Unrecorded
  <2>4. /\ IsFiniteSet(Busy') /\ Cardinality(Busy') = Cardinality(Busy) - 1
        /\ Cardinality(Unrecorded') =
             Cardinality(Unrecorded) - IF decision[c] = "Moved" THEN 1 ELSE 0
    <3>1. IsFiniteSet(Busy \ {c}) /\ Cardinality(Busy \ {c}) = Cardinality(Busy) - 1
      BY <1>4, <2>3, FS_RemoveElement
    <3>2. Cardinality(Unrecorded \ {c}) =
            IF c \in Unrecorded THEN Cardinality(Unrecorded) - 1 ELSE Cardinality(Unrecorded)
      BY <1>4, FS_RemoveElement
    <3>3. QED
      BY <1>4, <2>3, <3>1, <3>2
  <2>5. \E T : gateLog' \in Seq(T)
    <3>1. gateLog' \in Seq(S \cup {row})
      BY <1>2, <2>1
    <3>2. QED
      BY <3>1
  <2>6. logging /\ Balanced => Balanced'
    <3>1. ASSUME gateLog' = Append(gateLog, row)
          PROVE  /\ Len(gateLog') = Len(gateLog) + 1
                 /\ Cardinality(CompletedRows(gateLog')) =
                      Cardinality(CompletedRows(gateLog)) + IF decision[c] = "Moved" THEN 1 ELSE 0
      BY <1>2, <2>2, <3>1, RowCounted
    <3>2. Len(gateLog) \in Nat /\ Cardinality(CompletedRows(gateLog)) \in Nat
      BY <1>2, RowCounted, FS_CardinalityType
    <3>3. CompletedRows(gateLog)' = CompletedRows(gateLog')
      BY DEF CompletedRows
    <3>4. ASSUME gateLog' = Append(gateLog, row), Balanced
          PROVE  Balanced'
      BY <1>4, <2>1, <2>4, <3>1, <3>2, <3>3, <3>4 DEF Balanced, RecordInv
    <3>5. QED
      BY <2>1, <3>4
  <2>7. QED
    BY <1>3, <2>1, <2>3, <2>4, <2>5, <2>6 DEF RecordInv
<1>9. QED
  BY <1>5, <1>6, <1>7, <1>8 DEF CallerStep

\* With a logger that works, the rows of the gate are the requests it has decided, and
\* those marked Completed the moves it made, whoever asked in whatever order.
THEOREM DecisionsAreLogged == WorkflowSpec => []EveryDecisionIsLogged
<1>1. ASSUME WorkflowInit
      PROVE  RecordInv
  <2>1. /\ pc = [c \in Caller |-> "idle"] /\ decision = [c \in Caller |-> "none"]
        /\ gateLog = <<>> /\ redemptions = <<>> /\ requests = 0
    BY <1>1 DEF WorkflowInit, GateInit
  <2>2. Busy = {} /\ Unrecorded = {} /\ CompletedRows(gateLog) = {}
    BY <2>1 DEF Busy, Unrecorded, CompletedRows
  <2>3. decision \in [Caller -> {"none"}] /\ gateLog \in Seq({}) /\ redemptions \in Seq({})
    BY <2>1
  <2>4. Len(gateLog) = 0 /\ Len(redemptions) = 0
    BY <2>1
  <2>5. (\E D : decision \in [Caller -> D]) /\ (\E S : gateLog \in Seq(S))
        /\ (\E S : redemptions \in Seq(S))
    BY <2>3
  <2>6. QED
    BY <2>1, <2>2, <2>4, <2>5, FS_EmptySet DEF RecordInv, Balanced
<1>2. RecordInv /\ [WorkflowNext]_workflowVars => RecordInv'
  <2> SUFFICES ASSUME RecordInv, [WorkflowNext]_workflowVars
               PROVE  RecordInv'
    OBVIOUS
  <2>1. CASE \E c \in Caller : CallerStep(c)
    BY <2>1, RecordKept
  <2>2. CASE UNCHANGED <<logging, pc, decision, gateLog, redemptions, requests>>
    BY <2>2 DEF RecordInv, Balanced, Busy, Unrecorded, CompletedRows
  <2>3. CASE (\E token \in Token : IssueToken(token)) \/ (\E token \in issued : Revoke(token))
    BY <2>2, <2>3 DEF IssueToken, Revoke, world
  <2>4. QED
    BY <2>1, <2>2, <2>3 DEF WorkflowNext, GatesAlone, ProfileAlone, DigestAlone, GateNext,
         Others, workflowVars, vars, gateVars, world
<1>3. RecordInv => EveryDecisionIsLogged
  <2> SUFFICES ASSUME RecordInv, logging, \A c \in Caller : pc[c] = "idle"
               PROVE  /\ Len(gateLog) = requests
                      /\ Cardinality({i \in DOMAIN gateLog : gateLog[i].outcome = "Completed"})
                           = Len(redemptions)
    BY DEF EveryDecisionIsLogged
  <2>1. Balanced
    BY DEF RecordInv
  <2>2. Busy = {} /\ Unrecorded = {}
    BY DEF Busy, Unrecorded
  <2>3. Cardinality(Busy) = 0 /\ Cardinality(Unrecorded) = 0
    BY <2>2, FS_EmptySet
  <2>4. Len(gateLog) \in Nat /\ Cardinality(CompletedRows(gateLog)) \in Nat
    BY RowCounted, FS_CardinalityType DEF RecordInv
  <2>5. QED
    BY <2>1, <2>3, <2>4 DEF Balanced, CompletedRows
<1>4. QED
  BY <1>1, <1>2, <1>3, PTL DEF WorkflowSpec
-----------------------------------------------------------------------------
(* Every gate of a profile in force can open. *)

\* A nonempty set of natural numbers has a least element.
LEMMA LeastNatural ==
  ASSUME NEW T \in SUBSET Nat, T # {}
  PROVE  \E n \in T : \A m \in T : n <= m
<1>1. \A x, y \in Nat : x < y => <<x, y>> \in OpToRel(<, Nat)
  BY DEF OpToRel
<1>2. PICK n \in T : \A m \in T : <<m, n>> \notin OpToRel(<, Nat)
  <2>1. \E n \in T : \A m \in T : <<m, n>> \notin OpToRel(<, Nat)
    BY NatLessThanWellFounded, WFMin
  <2>2. QED
    BY <2>1
<1>3. ASSUME NEW m \in T
      PROVE  n <= m
  <2>1. n \in Nat /\ m \in Nat
    OBVIOUS
  <2>2. ~(m < n)
    BY <1>1, <1>2, <2>1
  <2>3. QED
    BY <2>1, <2>2
<1>4. QED
  BY <1>3

\* The stages of a list that passed the first check have names and states of their own.
Distinct(stages) ==
  \A i, j \in DOMAIN stages :
    i < j => stages[i].name # stages[j].name /\ stages[i].state # stages[j].state

\* If some pair of stages is wrong, there is a first one, which is reported.
LEMMA StagesAreDistinct ==
  ASSUME NEW stages \in Seq(Stage), StageErrors(stages) = {}
  PROVE  Distinct(stages)
<1> DEFINE Error(i, j) ==
             CASE i = j /\ stages[i].name = Blank -> "EmptyStageName"
               [] i < j /\ stages[i].name = stages[j].name -> "DuplicateStageName"
               [] i < j /\ stages[i].name # stages[j].name /\ stages[i].state = stages[j].state
                    -> "DuplicateState"
               [] OTHER -> "none"
           Before(p, q) == p[1] < q[1] \/ (p[1] = q[1] /\ p[2] <= q[2])
           found == {p \in (DOMAIN stages) \X (DOMAIN stages) : Error(p[1], p[2]) # "none"}
           leading == {q \in found : \A r \in found : Before(q, r)}
<1>1. StageErrors(stages) = {Error(p[1], p[2]) : p \in leading}
  BY DEF StageErrors
<1>2. DOMAIN stages \in SUBSET Nat
  OBVIOUS
<1>3. \A i, j \in DOMAIN stages :
        Error(i, j) = "none" /\ i < j =>
          stages[i].name # stages[j].name /\ stages[i].state # stages[j].state
  <2>1. \A i, j \in DOMAIN stages : i < j => i # j
    BY <1>2
  <2>2. QED
    BY <2>1
<1> HIDE DEF Error
<1>4. found = {}
  <2> SUFFICES ASSUME found # {}
               PROVE  FALSE
    OBVIOUS
  <2> DEFINE firsts == {p[1] : p \in found}
  <2>1. firsts \in SUBSET Nat /\ firsts # {}
    BY <1>2
  <2>2. PICK i \in firsts : \A k \in firsts : i <= k
    BY <2>1, LeastNatural
  <2> DEFINE seconds == {p[2] : p \in {q \in found : q[1] = i}}
  <2>3. seconds \in SUBSET Nat /\ seconds # {}
    BY <1>2
  <2>4. PICK j \in seconds : \A k \in seconds : j <= k
    BY <2>3, LeastNatural
  <2>5. PICK q \in found : q[1] = i /\ q[2] = j
    OBVIOUS
  <2>6. ASSUME NEW r \in found
        PROVE  Before(q, r)
    <3>1. r[1] \in firsts /\ r[1] \in Nat /\ q[1] \in Nat
      BY <1>2
    <3>2. i <= r[1]
      BY <2>2, <3>1
    <3>3. r[1] = i => r[2] \in seconds /\ j <= r[2]
      BY <2>4
    <3>4. QED
      BY <2>5, <3>1, <3>2, <3>3
  <2>7. Error(q[1], q[2]) \in StageErrors(stages)
    <3>1. q \in leading
      BY <2>6
    <3> HIDE DEF leading, found, Before, firsts, seconds
    <3>2. QED
      BY <1>1, <3>1
  <2>8. QED
    BY <2>7
<1>5. ASSUME NEW i \in DOMAIN stages, NEW j \in DOMAIN stages
      PROVE  Error(i, j) = "none"
  <2>1. <<i, j>> \in (DOMAIN stages) \X (DOMAIN stages) /\ <<i, j>>[1] = i /\ <<i, j>>[2] = j
    OBVIOUS
  <2>2. <<i, j>> \notin found
    BY <1>4
  <2>3. QED
    BY <2>1, <2>2
<1>6. QED
  BY <1>3, <1>5 DEF Distinct

\* A profile that passes has stages and finds nothing in any of its checks, none of
\* which reports "none".
LEMMA ValidationPasses ==
  ASSUME NEW p \in Profile, Validation(p) = "none"
  PROVE  StageErrors(p.stages) = {} /\ OrderErrors(p.stages) = {} /\ GateErrors(p) = {}
<1> DEFINE errors == <<IF p.stages = <<>> THEN {"NoStages"} ELSE {},
                       StageErrors(p.stages), OrderErrors(p.stages), GateErrors(p)>>
           failing == {i \in DOMAIN errors : errors[i] # {}}
<1>1. "none" \notin StageErrors(p.stages)
  BY DEF StageErrors
<1>2. "none" \notin OrderErrors(p.stages)
  BY DEF OrderErrors
<1>3. "none" \notin GateErrors(p)
  BY DEF GateErrors
<1>4. DOMAIN errors = 1..4 /\ \A i \in 1..4 : "none" \notin errors[i]
  BY <1>1, <1>2, <1>3
<1>5. Validation(p) = IF failing = {} THEN "none"
        ELSE CHOOSE e \in errors[CHOOSE i \in failing : \A j \in failing : i <= j] : TRUE
  BY DEF Validation
<1>6. errors[2] = StageErrors(p.stages) /\ errors[3] = OrderErrors(p.stages)
      /\ errors[4] = GateErrors(p)
  OBVIOUS
<1> HIDE DEF errors
<1>7. failing = {}
  <2> SUFFICES ASSUME failing # {}
               PROVE  FALSE
    OBVIOUS
  <2> DEFINE first == CHOOSE i \in failing : \A j \in failing : i <= j
  <2>1. failing \in SUBSET Nat
    BY <1>4
  <2>2. \E i \in failing : \A j \in failing : i <= j
    BY <2>1, LeastNatural
  <2>3. first \in failing
    BY <2>2
  <2>4. first \in 1..4 /\ errors[first] # {}
    BY <1>4, <2>3
  <2>5. (CHOOSE e \in errors[first] : TRUE) \in errors[first]
    BY <2>4
  <2>6. QED
    BY <1>4, <1>5, <2>4, <2>5
<1>8. QED
  BY <1>4, <1>6, <1>7

\* Each gate of a profile that passes lies on an edge of its path.
LEMMA GateOnEdge ==
  ASSUME NEW p \in Profile, GateErrors(p) = {}, NEW g \in Range(p.gates)
  PROVE  \E i \in Edges(p.stages) : p.stages[i].name = g[1] /\ p.stages[i + 1].name = g[2]
<1> DEFINE bad == {i \in DOMAIN p.gates : GateError(p.stages, p.gates[i]) # "none"}
<1>1. bad = {}
  <2> SUFFICES ASSUME bad # {}
               PROVE  FALSE
    OBVIOUS
  <2>1. bad \in SUBSET Nat
    BY DEF Profile
  <2>2. PICK i \in bad : \A j \in bad : i <= j
    BY <2>1, LeastNatural
  <2>3. GateError(p.stages, p.gates[i]) \in GateErrors(p)
    BY <2>2 DEF GateErrors
  <2>4. QED
    BY <2>3
<1>2. PICK i \in DOMAIN p.gates : g = p.gates[i]
  BY DEF Range
<1>3. GateError(p.stages, g) = "none"
  BY <1>1, <1>2
<1>4. QED
  BY <1>3, Zenon DEF GateError

\* The profile in force is the first one or passed its checks.
ProfileInv ==
  \/ profile = [stages |-> <<>>, gates |-> <<>>]
  \/ profile \in Profile /\ Validation(profile) = "none"

\* Every gate of a profile in force is a legal move of the board, and no other gate of
\* it is the same move.
THEOREM GatesCanOpen == WorkflowSpec => []GatesOpen
<1>1. WorkflowInit => ProfileInv
  BY DEF WorkflowInit, ProfileInit, ProfileInv
<1>2. ProfileInv /\ [WorkflowNext]_workflowVars => ProfileInv'
  <2> SUFFICES ASSUME ProfileInv, [WorkflowNext]_workflowVars
               PROVE  ProfileInv'
    OBVIOUS
  <2>1. CASE \E p \in Profiles : LoadProfile(p)
    <3>1. PICK p \in Profiles : LoadProfile(p)
      BY <2>1
    <3>2. p \in Profile /\ profile' = IF Validation(p) = "none" THEN p ELSE profile
      BY <3>1, ProfileAssumption DEF LoadProfile
    <3>3. CASE Validation(p) = "none"
      BY <3>2, <3>3 DEF ProfileInv
    <3>4. CASE Validation(p) # "none"
      BY <3>2, <3>4 DEF ProfileInv
    <3>5. QED
      BY <3>3, <3>4
  <2>2. CASE profile' = profile
    BY <2>2 DEF ProfileInv
  <2>3. QED
    BY <2>1, <2>2 DEF WorkflowNext, GatesAlone, ProfileAlone, DigestAlone, workflowVars,
         profileVars
<1>3. ProfileInv => GatesOpen
  <2>1. CASE profile = [stages |-> <<>>, gates |-> <<>>]
    BY <2>1 DEF GatesOpen, Range
  <2>2. ASSUME profile \in Profile, Validation(profile) = "none"
        PROVE  GatesOpen
    <3> DEFINE stages == profile.stages
               At(g, i) == /\ i \in Edges(stages)
                           /\ stages[i].name = g[1] /\ stages[i + 1].name = g[2]
    <3>1. /\ stages \in Seq(Stage)
          /\ Range(profile.gates) \subseteq StageName \X StageName
      BY <2>2 DEF Profile, Range
    <3>2. /\ Distinct(stages)
          /\ \A i \in Edges(stages) : IsLegalTransition(stages[i].state, stages[i + 1].state)
          /\ \A g \in Range(profile.gates) : \E i : At(g, i)
      <4>1. StageErrors(stages) = {} /\ OrderErrors(stages) = {} /\ GateErrors(profile) = {}
        BY <2>2, ValidationPasses
      <4>2. \A i \in Edges(stages) : IsLegalTransition(stages[i].state, stages[i + 1].state)
        BY <4>1 DEF OrderErrors
      <4>3. QED
        BY <2>2, <3>1, <4>1, <4>2, StagesAreDistinct, GateOnEdge
    <3>3. ASSUME NEW i \in DOMAIN stages
          PROVE  StateOf(stages, stages[i].name) = stages[i].state
      <4>1. DOMAIN stages \subseteq Nat
        BY <3>1
      <4>2. {k \in DOMAIN stages : stages[k].name = stages[i].name} = {i}
        BY <3>2, <4>1 DEF Distinct
      <4>3. (CHOOSE k \in {i} : \A j \in {i} : k <= j) = i
        BY <4>1
      <4>4. QED
        BY <4>2, <4>3 DEF StateOf
    <3>4. ASSUME NEW g \in Range(profile.gates), NEW i, At(g, i)
          PROVE  /\ i \in DOMAIN stages /\ i + 1 \in DOMAIN stages
                 /\ StateOf(stages, g[1]) = stages[i].state
                 /\ StateOf(stages, g[2]) = stages[i + 1].state
      <4>1. i \in DOMAIN stages /\ i + 1 \in DOMAIN stages
        BY <3>1, <3>4 DEF Edges
      <4>2. QED
        BY <3>3, <3>4, <4>1
    <3>5. ASSUME NEW g \in Range(profile.gates)
          PROVE  IsLegalTransition(StateOf(stages, g[1]), StateOf(stages, g[2]))
      <4>1. PICK i : At(g, i)
        BY <3>2
      <4>2. QED
        BY <3>2, <3>4, <4>1
    <3>6. ASSUME NEW g \in Range(profile.gates), NEW h \in Range(profile.gates),
                 StateOf(stages, g[1]) = StateOf(stages, h[1]),
                 StateOf(stages, g[2]) = StateOf(stages, h[2])
          PROVE  g = h
      <4>1. PICK i, k : At(g, i) /\ At(h, k)
        BY <3>2
      <4>2. stages[i].state = stages[k].state
        BY <3>4, <3>6, <4>1
      <4>3. i = k
        BY <3>1, <3>2, <3>4, <4>1, <4>2 DEF Distinct
      <4>4. g[1] = h[1] /\ g[2] = h[2]
        BY <4>1, <4>3
      <4>5. QED
        BY <3>1, <4>4
    <3>7. QED
      BY <3>5, <3>6 DEF GatesOpen
  <2>3. QED
    BY <2>1, <2>2 DEF ProfileInv
<1>4. QED
  BY <1>1, <1>2, <1>3, PTL DEF WorkflowSpec
-----------------------------------------------------------------------------
(* Digests fade. *)

\* Counting the positions in S up to i, every count up to the number of them is reached
\* at one of them.
LEMMA NthExists ==
  ASSUME NEW N \in Nat, NEW S \in SUBSET (1..N), NEW n \in 1..Cardinality(S)
  PROVE  \E i \in S : Cardinality(S \cap 1..i) = n
<1> DEFINE rank(i) == Cardinality(S \cap 1..i)
           T == {i \in 0..N : n <= rank(i)}
<1>1. IsFiniteSet(S) /\ Cardinality(S) \in Nat /\ n \in Nat /\ n >= 1
  <2>1. IsFiniteSet(1..N)
    BY FS_Interval
  <2>2. IsFiniteSet(S)
    BY <2>1, FS_Subset
  <2>3. Cardinality(S) \in Nat
    BY <2>2, FS_CardinalityType
  <2>4. QED
    BY <2>2, <2>3
<1>2. \A i \in 0..N : IsFiniteSet(S \cap 1..i) /\ rank(i) \in Nat
  BY <1>1, FS_Subset, FS_CardinalityType
<1>3. N \in T
  <2>1. S \cap 1..N = S
    OBVIOUS
  <2>2. QED
    BY <1>1, <2>1
<1>4. PICK i \in T : \A j \in T : i <= j
  <2>1. T \in SUBSET Nat /\ T # {}
    BY <1>3
  <2> HIDE DEF T
  <2>2. QED
    BY <2>1, LeastNatural
<1>5. i # 0
  <2>1. S \cap 1..0 = {}
    OBVIOUS
  <2>2. rank(0) = 0
    BY <2>1, FS_EmptySet
  <2>3. QED
    BY <1>1, <2>2
<1>6. i - 1 \in 0..N /\ i \in 1..N /\ rank(i - 1) < n
  <2>1. i - 1 \in 0..N /\ i \in 1..N /\ ~(i <= i - 1)
    BY <1>5
  <2>2. i - 1 \notin T
    BY <1>4, <2>1
  <2>3. QED
    BY <1>1, <1>2, <2>1, <2>2
<1>7. /\ i \in S => rank(i) = rank(i - 1) + 1
      /\ i \notin S => rank(i) = rank(i - 1)
  <2>1. 1..i = 1..(i - 1) \cup {i} /\ i \notin 1..(i - 1)
    BY <1>6
  <2>2. /\ i \in S => S \cap 1..i = (S \cap 1..(i - 1)) \cup {i}
        /\ i \notin S => S \cap 1..i = S \cap 1..(i - 1)
        /\ i \notin S \cap 1..(i - 1)
    BY <2>1
  <2>3. Cardinality((S \cap 1..(i - 1)) \cup {i}) = rank(i - 1) + 1
    BY <1>2, <1>6, <2>2, FS_AddElement
  <2>4. QED
    BY <2>2, <2>3
<1>8. i \in S /\ rank(i) = n
  <2>1. n <= rank(i) /\ rank(i - 1) \in Nat
    BY <1>2, <1>6
  <2> HIDE DEF rank
  <2>2. QED
    BY <1>1, <1>6, <1>7, <2>1
<1>9. QED
  BY <1>8

Mapped(list, inPlay) == {i \in DOMAIN list : list[i] \cap inPlay # {}}

\* The filter keeps as many enrichments as map to a concept in play, each one of them.
LEMMA CoherentKeeps ==
  ASSUME NEW list \in Seq(SUBSET Topic), NEW inPlay
  PROVE  /\ Coherent(list, inPlay) \in Seq(SUBSET Topic)
         /\ Cardinality(Mapped(list, inPlay)) \in Nat
         /\ Len(Coherent(list, inPlay)) = Cardinality(Mapped(list, inPlay))
         /\ \A n \in DOMAIN Coherent(list, inPlay) :
              \E i \in Mapped(list, inPlay) : Coherent(list, inPlay)[n] = list[i]
<1> DEFINE mapped == Mapped(list, inPlay)
           Nth(n) == CHOOSE i \in mapped : Cardinality(mapped \cap 1..i) = n
<1>1. Len(list) \in Nat /\ mapped \in SUBSET (1..Len(list)) /\ mapped \subseteq DOMAIN list
  BY DEF Mapped
<1>2. Cardinality(mapped) \in Nat
  <2>1. IsFiniteSet(1..Len(list))
    BY <1>1, FS_Interval
  <2>2. IsFiniteSet(mapped)
    BY <1>1, <2>1, FS_Subset
  <2>3. QED
    BY <2>2, FS_CardinalityType
<1>3. Coherent(list, inPlay) = [n \in 1..Cardinality(mapped) |-> list[Nth(n)]]
  BY DEF Coherent, Mapped
<1> HIDE DEF mapped
<1>4. \A n \in 1..Cardinality(mapped) : Nth(n) \in mapped
  BY <1>1, NthExists
<1> HIDE DEF Nth
<1>5. \A n \in 1..Cardinality(mapped) : list[Nth(n)] \in SUBSET Topic
  BY <1>1, <1>4
<1>6. Coherent(list, inPlay) \in Seq(SUBSET Topic) /\ Len(Coherent(list, inPlay)) = Cardinality(mapped)
  BY <1>2, <1>3, <1>5
<1>7. QED
  BY <1>2, <1>3, <1>4, <1>6 DEF mapped

Forms == {"Rich", "Standard", "Terse"}

\* A form with fewer visuals has the beginning of what a form with more has.
LEMMA ShorterFormIsPrefix ==
  ASSUME NEW X, NEW list \in Seq(X), NEW hi \in Forms, NEW lo \in Forms,
         VisualCount[hi] <= VisualCount[lo]
  PROVE  /\ Len(Budgeted(hi, list)) <= Len(Budgeted(lo, list))
         /\ Budgeted(hi, list) = SubSeq(Budgeted(lo, list), 1, Len(Budgeted(hi, list)))
<1>1. /\ Budgeted("Rich", list) = list
      /\ Budgeted("Standard", list) = IF Len(list) > 2 THEN SubSeq(list, 1, 2) ELSE list
      /\ Budgeted("Terse", list) = <<>>
  BY DEF Budgeted
<1>2. \A s \in Seq(X) : SubSeq(s, 1, Len(s)) = s /\ SubSeq(s, 1, 0) = <<>>
  OBVIOUS
<1>3. Len(list) \in Nat
  OBVIOUS
<1>4. Len(list) > 2 => SubSeq(list, 1, 2) \in Seq(X) /\ Len(SubSeq(list, 1, 2)) = 2
  OBVIOUS
<1>5. <<>> \in Seq(X) /\ Len(<<>>) = 0
  OBVIOUS
<1>6. \A form \in Forms : Budgeted(form, list) \in Seq(X) /\ Len(Budgeted(form, list)) \in Nat
  <2>1. ASSUME NEW s \in Seq(X)
        PROVE  Len(s) \in Nat
    OBVIOUS
  <2>2. \A form \in Forms : Budgeted(form, list) \in Seq(X)
    BY <1>1, <1>4, <1>5 DEF Forms
  <2>3. QED
    BY <2>1, <2>2
<1>7. CASE hi = lo \/ hi = "Terse"
  <2> DEFINE longer == Budgeted(lo, list)
  <2>1. longer \in Seq(X) /\ Len(longer) \in Nat
    BY <1>6
  <2>2. longer = SubSeq(longer, 1, Len(longer)) /\ <<>> = SubSeq(longer, 1, 0)
    BY <1>2, <2>1
  <2>3. CASE hi = lo
    BY <2>1, <2>2, <2>3
  <2>4. CASE hi = "Terse"
    <3>1. Budgeted(hi, list) = <<>> /\ Len(Budgeted(hi, list)) = 0
      BY <1>1, <1>5, <2>4
    <3> HIDE DEF longer
    <3>2. 0 <= Len(longer) /\ <<>> = SubSeq(longer, 1, 0)
      BY <2>1, <2>2
    <3>3. QED
      BY <3>1, <3>2 DEF longer
  <2>5. QED
    BY <1>7, <2>3, <2>4
<1>8. CASE hi = "Standard" /\ lo = "Rich"
  BY <1>1, <1>2, <1>3, <1>4, <1>8
<1>9. QED
  BY <1>7, <1>8 DEF VisualCount, Forms

\* The form of a request; a higher score never has more visuals.
LEMMA FormsFade ==
  ASSUME NEW req \in Request
  PROVE  /\ Richness(req) \in Forms
         /\ \A lo, hi \in Int \cup {NotANumber} :
              Calibrated(lo) <= Calibrated(hi) =>
                VisualCount[Richness([req EXCEPT !.score = hi])] <=
                  VisualCount[Richness([req EXCEPT !.score = lo])]
<1>1. \A score \in Int \cup {NotANumber} : Calibrated(score) \in 0..100
  BY DEF Calibrated
<1>2. Richness(req) \in Forms
  BY DEF Richness, ForCalibration, Forms
<1>3. ASSUME NEW lo \in Int \cup {NotANumber}, NEW hi \in Int \cup {NotANumber},
             Calibrated(lo) <= Calibrated(hi)
      PROVE  VisualCount[Richness([req EXCEPT !.score = hi])] <=
               VisualCount[Richness([req EXCEPT !.score = lo])]
  <2> DEFINE Asked(score) == [req EXCEPT !.score = score]
  <2>1. \A score : Asked(score).richer = req.richer /\ Asked(score).score = score
    BY DEF Request
  <2>2. \A score : Richness(Asked(score)) =
          IF req.richer THEN "Rich" ELSE ForCalibration(Calibrated(score))
    BY <2>1, Zenon DEF Richness
  <2>3. VisualCount["Rich"] = 2 /\ VisualCount["Standard"] = 1 /\ VisualCount["Terse"] = 0
    BY DEF VisualCount
  <2>4. VisualCount[ForCalibration(Calibrated(hi))] <= VisualCount[ForCalibration(Calibrated(lo))]
    BY <1>1, <1>3, <2>3 DEF ForCalibration
  <2> HIDE DEF Asked
  <2>5. VisualCount[Richness(Asked(hi))] <= VisualCount[Richness(Asked(lo))]
    BY <2>2, <2>3, <2>4
  <2>6. QED
    BY <2>5 DEF Asked
<1>4. QED
  BY <1>2, <1>3

\* The last digest is what generate makes of its request.
DigestInv ==
  /\ digest = NoDigest \/ \E req \in Request : digest = DigestOf(req)
  /\ digestError \in {"none", "MissingInstruction", "Provider"}

LEMMA DigestKept == WorkflowSpec => []DigestInv
<1>1. WorkflowInit => DigestInv
  BY DEF WorkflowInit, DigestInit, DigestInv
<1>2. DigestInv /\ [WorkflowNext]_workflowVars => DigestInv'
  <2> SUFFICES ASSUME DigestInv, [WorkflowNext]_workflowVars
               PROVE  DigestInv'
    OBVIOUS
  <2>1. CASE DigestAlone
    <3>1. PICK instruction \in {"text", "blank"}, inPlay \in SUBSET Topic, candidates \in Offers,
               score \in Scores, richer \in BOOLEAN :
            Generate([instruction |-> instruction, inPlay |-> inPlay, candidates |-> candidates,
                      score |-> score, richer |-> richer])
      BY <2>1 DEF DigestAlone
    <3> DEFINE req == [instruction |-> instruction, inPlay |-> inPlay,
                       candidates |-> candidates, score |-> score, richer |-> richer]
    <3>2. req \in Request
      BY DigestAssumption DEF Request
    <3> HIDE DEF req
    <3>3. Generate(req)
      BY <3>1 DEF req
    <3>4. QED
      BY <3>2, <3>3 DEF Generate, DigestInv
  <2>2. CASE UNCHANGED digestVars
    BY <2>2 DEF DigestInv, digestVars
  <2>3. QED
    BY <2>1, <2>2 DEF WorkflowNext, GatesAlone, ProfileAlone, workflowVars
<1>3. QED
  BY <1>1, <1>2, PTL DEF WorkflowSpec

\* A reader of a higher score is shown the beginning of what one of a lower score is
\* shown; a form that is not full leaves nothing out.
THEOREM DigestsFade == WorkflowSpec => []DigestFades
<1>1. ASSUME DigestInv, digest # NoDigest
      PROVE  DigestFades
  <2>1. PICK asked \in Request : digest = DigestOf(asked)
    BY <1>1 DEF DigestInv
  <2> DEFINE At(score) == DigestOf([asked EXCEPT !.score = score])
             mapped == Mapped(asked.candidates, asked.inPlay)
             list == Coherent(asked.candidates, asked.inPlay)
  <2>2. /\ digest.request = asked /\ digest.richness = Richness(asked)
        /\ digest.visuals = VisualCount[Richness(asked)]
        /\ digest.admitted = Budgeted(Richness(asked), list)
    BY <2>1 DEF DigestOf, Admitted
  <2>3. /\ list \in Seq(SUBSET Topic) /\ Cardinality(mapped) \in Nat
        /\ Len(list) = Cardinality(mapped)
        /\ \A n \in DOMAIN list : \E i \in mapped : list[n] = asked.candidates[i]
    BY CoherentKeeps DEF Request
  <2>4. ASSUME NEW lo \in Scores, NEW hi \in Scores, Calibrated(lo) <= Calibrated(hi)
        PROVE  /\ At(hi).visuals <= At(lo).visuals
               /\ Len(At(hi).admitted) <= Len(At(lo).admitted)
               /\ At(hi).admitted = SubSeq(At(lo).admitted, 1, Len(At(hi).admitted))
    <3> DEFINE Asked(score) == [asked EXCEPT !.score = score]
    <3>1. \A score \in Int \cup {NotANumber} :
            /\ Asked(score) \in Request
            /\ At(score).visuals = VisualCount[Richness(Asked(score))]
            /\ At(score).admitted = Budgeted(Richness(Asked(score)), list)
      BY DEF DigestOf, Admitted, Request
    <3>2. lo \in Int \cup {NotANumber} /\ hi \in Int \cup {NotANumber}
      BY DigestAssumption
    <3>3. VisualCount[Richness(Asked(hi))] <= VisualCount[Richness(Asked(lo))]
      BY <2>4, <3>2, FormsFade
    <3>4. Richness(Asked(hi)) \in Forms /\ Richness(Asked(lo)) \in Forms
      BY <3>1, <3>2, FormsFade
    <3> HIDE DEF Asked, At, list
    <3>5. QED
      BY <2>3, <3>1, <3>2, <3>3, <3>4, ShorterFormIsPrefix
  <2>5. \A n \in DOMAIN digest.admitted : \E i \in mapped : digest.admitted[n] = asked.candidates[i]
    <3>1. /\ Budgeted("Rich", list) = list
          /\ Budgeted("Standard", list) = IF Len(list) > 2 THEN SubSeq(list, 1, 2) ELSE list
          /\ Budgeted("Terse", list) = <<>>
      BY DEF Budgeted
    <3> HIDE DEF list
    <3>2. ASSUME Len(list) > 2
          PROVE  \A n \in DOMAIN SubSeq(list, 1, 2) :
                   n \in DOMAIN list /\ SubSeq(list, 1, 2)[n] = list[n]
      BY <2>3, <3>2
    <3>3. Richness(asked) \in Forms
      BY FormsFade
    <3> HIDE DEF mapped
    <3>4. QED
      BY <2>2, <2>3, <3>1, <3>2, <3>3 DEF Forms
  <2>6. Len(DigestOf([asked EXCEPT !.richer = TRUE]).admitted) = Cardinality(mapped)
    <3> DEFINE wish == [asked EXCEPT !.richer = TRUE]
    <3>1. wish.richer /\ wish.candidates = asked.candidates /\ wish.inPlay = asked.inPlay
      BY DEF Request
    <3> HIDE DEF wish
    <3>2. DigestOf(wish).admitted = Budgeted("Rich", list)
      BY <3>1 DEF DigestOf, Admitted, Richness
    <3>3. DigestOf(wish).admitted = list
      BY <3>2 DEF Budgeted
    <3>4. QED
      BY <2>3, <3>3 DEF wish
  <2>7. digest.visuals = 1 =>
          Len(digest.admitted) = IF Cardinality(mapped) > 2 THEN 2 ELSE Cardinality(mapped)
    <3>1. digest.visuals = 1 => Richness(asked) = "Standard"
      BY <2>2, FormsFade DEF VisualCount, Forms
    <3>2. Budgeted("Standard", list) = IF Len(list) > 2 THEN SubSeq(list, 1, 2) ELSE list
      BY DEF Budgeted
    <3> HIDE DEF list, mapped
    <3>3. QED
      BY <2>2, <2>3, <3>1, <3>2
  <2>8. QED
    BY <2>2, <2>4, <2>5, <2>6, <2>7 DEF DigestFades, Mapped
<1>2. DigestInv => DigestFades
  BY <1>1 DEF DigestFades
<1>3. QED
  BY <1>2, DigestKept, PTL
-----------------------------------------------------------------------------
(* Every variable has its type. *)

\* The types of the gate's own variables; on its way to the board a request has a token.
GateTypeInv ==
  /\ GateTypeOK
  /\ \A c \in Caller : pc[c] \in {"lookup", "transition"} => request[c].token \in Token

\* What the steps of the gate do to the board is a call of the board.
LEMMA BoardOfGateKept ==
  ASSUME GateTypeInv, [GateNext]_vars
  PROVE  TypeOK'
<1>1. TypeOK
  BY DEF GateTypeInv, GateTypeOK
<1>2. CASE \E c \in Caller : Apply(c) /\ ~UNCHANGED boardVars
  <2>1. PICK c \in Caller : Apply(c) /\ ~UNCHANGED boardVars
    BY <1>2
  <2> DEFINE token == request[c].token
  <2>2. token \in Token /\ token.task \in TaskId /\ token.to \in TaskState
    BY <2>1, GateAssumption DEF GateTypeInv, Apply, Token
  <2>3. Transition(token.task, token.to)
    BY <2>1 DEF Apply
  <2>4. BoardStep
    <3>1. \E t \in TaskId, to \in TaskState : Transition(t, to)
      BY <2>2, <2>3
    <3>2. QED
      BY <3>1 DEF BoardStep
  <2>5. QED
    BY <1>1, <2>4, TypeKept
<1>3. CASE BoardStep \/ UNCHANGED boardVars
  BY <1>1, <1>3, TypeKept
<1>4. ASSUME NEW c \in Caller, CallerStep(c)
      PROVE  Apply(c) \/ UNCHANGED boardVars
  BY <1>4 DEF CallerStep, Present, Lookup, Audit
<1>5. GateNext => \/ BoardStep \/ UNCHANGED boardVars \/ \E c \in Caller : Apply(c)
  BY <1>4 DEF GateNext, IssueToken, Revoke, Others
<1>6. QED
  BY <1>2, <1>3, <1>5 DEF vars

LEMMA GateTypeKept ==
  ASSUME GateTypeInv, [GateNext]_vars
  PROVE  GateTypeInv'
<1> USE DEF GateTypeInv, GateTypeOK
<1> DEFINE Row == [task : TaskId, outcome : {"Completed", "Failed"}]
           Move == [token : Token, left : TaskState]
<1>1. TypeOK'
  BY BoardOfGateKept
<1>2. ASSUME NEW token \in Token, IssueToken(token)
      PROVE  GateTypeInv'
  BY <1>1, <1>2 DEF IssueToken, world
<1>3. ASSUME NEW token \in issued, Revoke(token)
      PROVE  GateTypeInv'
  BY <1>1, <1>3 DEF Revoke, world
<1>4. ASSUME NEW c \in Caller, NEW token \in Token \cup {NoToken}, NEW t \in TaskId,
             NEW to \in TaskState, NEW a \in Actor, Present(c, token, t, to, a)
      PROVE  GateTypeInv'
  <2> DEFINE checked == Checked(token, t, to, a)
             asked == [task |-> t, token |-> IF checked = "fits" THEN token ELSE NoToken]
  <2>1. checked \in {"TokenRequired", "fits", "InvalidToken"} /\ (checked = "fits" => token \in Token)
    BY DEF Checked
  <2>2. /\ Decide(c, checked # "fits", checked, "lookup")
        /\ request' = [request EXCEPT ![c] = asked]
        /\ requests < MaxRequests /\ requests' = requests + 1
        /\ UNCHANGED <<calm, logging, issued, revoked, gateLog, redemptions>>
    BY <1>4, Zenon DEF Present, world
  <2>3. requests' \in 0..MaxRequests
    BY <2>2, GateAssumption
  <2> HIDE DEF checked
  <2>4. asked \in [token : Token \cup {NoToken}, task : TaskId]
        /\ (checked = "fits" => asked.token \in Token)
    BY <2>1
  <2> HIDE DEF asked
  <2>5. /\ request' \in [Caller -> [token : Token \cup {NoToken}, task : TaskId]]
        /\ \A d \in Caller : request'[d] = IF d = c THEN asked ELSE request[d]
    BY <2>2, <2>4
  <2>6. /\ decision' \in [Caller -> Decisions]
        /\ pc' \in [Caller -> {"idle", "lookup", "transition", "audit"}]
        /\ \A d \in Caller : d # c => pc'[d] = pc[d]
        /\ pc'[c] = IF checked = "fits" THEN "lookup" ELSE "audit"
    BY <2>1, <2>2 DEF Decide, Decisions, Refusal
  <2>7. \A d \in Caller : pc'[d] \in {"lookup", "transition"} => request'[d].token \in Token
    BY <2>4, <2>5, <2>6
  <2>8. QED
    BY <1>1, <2>2, <2>3, <2>5, <2>6, <2>7
<1>5. ASSUME NEW c \in Caller, Lookup(c)
      PROVE  GateTypeInv'
  <2>1. \E next \in {"transition", "audit"}, why \in Decisions :
          /\ pc' = [pc EXCEPT ![c] = next]
          /\ decision' = [decision EXCEPT ![c] = why]
    BY <1>5 DEF Lookup, Decide, Decisions, Refusal
  <2>2. pc[c] = "lookup" /\ UNCHANGED <<calm, logging, issued, revoked, request, gateLog, redemptions, requests>>
    BY <1>5 DEF Lookup, world
  <2>3. QED
    BY <1>1, <2>1, <2>2
<1>6. ASSUME NEW c \in Caller, Apply(c)
      PROVE  GateTypeInv'
  <2> DEFINE token == request[c].token
             move == [token |-> token, left |-> state[token.task]]
  <2>1. /\ pc' = [pc EXCEPT ![c] = "audit"]
        /\ \E why \in {"Moved", "Kanban"} : decision' = [decision EXCEPT ![c] = why]
        /\ UNCHANGED <<calm, logging, issued, revoked, request, gateLog, requests>>
        /\ redemptions' = redemptions \/ redemptions' = Append(redemptions, move)
        /\ redemptions' # redemptions => Transition(token.task, token.to)
    BY <1>6 DEF Apply, world
  <2>2. token \in Token /\ token.task \in TaskId /\ token.to \in TaskState
    BY <1>6, GateAssumption DEF Apply, Token
  <2>3. Transition(token.task, token.to) => move \in [token : Token, left : TaskState]
    BY <2>2, MoveGuard DEF Transition
  <2> HIDE DEF move
  <2>4. redemptions' \in Seq(Move)
    <3>1. redemptions \in Seq(Move)
      OBVIOUS
    <3>2. redemptions' = redemptions \/ (move \in Move /\ redemptions' = Append(redemptions, move))
      BY <2>1, <2>3
    <3> HIDE DEF Move, GateTypeInv, GateTypeOK
    <3>3. QED
      BY <3>1, <3>2
  <2>5. decision' \in [Caller -> Decisions]
    <3>1. PICK why \in {"Moved", "Kanban"} : decision' = [decision EXCEPT ![c] = why]
      BY <2>1
    <3>2. decision \in [Caller -> Decisions]
      OBVIOUS
    <3> HIDE DEF GateTypeInv, GateTypeOK
    <3>3. why \in Decisions
      BY DEF Decisions, Refusal
    <3>4. QED
      BY <3>1, <3>2, <3>3
  <2>6. /\ pc' \in [Caller -> {"idle", "lookup", "transition", "audit"}]
        /\ \A d \in Caller : pc'[d] \in {"lookup", "transition"} => pc[d] = pc'[d]
    BY <2>1
  <2>7. QED
    BY <1>1, <2>1, <2>4, <2>5, <2>6
<1>7. ASSUME NEW c \in Caller, Audit(c)
      PROVE  GateTypeInv'
  <2> DEFINE row == [task |-> request[c].task, outcome |-> Outcome(decision[c])]
  <2>1. row \in [task : TaskId, outcome : {"Completed", "Failed"}]
    BY DEF Outcome
  <2>2. /\ pc' = [pc EXCEPT ![c] = "idle"]
        /\ gateLog' = gateLog \/ gateLog' = Append(gateLog, row)
        /\ decision' = decision \/ decision' = [decision EXCEPT ![c] = "Audit"]
        /\ UNCHANGED <<calm, logging, issued, revoked, request, redemptions, requests>>
    BY <1>7 DEF Audit, world
  <2> HIDE DEF row
  <2>3. gateLog' \in Seq(Row)
    <3>1. gateLog \in Seq(Row) /\ row \in Row
      BY <2>1
    <3> HIDE DEF Row, GateTypeInv, GateTypeOK
    <3>2. QED
      BY <2>2, <3>1
  <2>4. decision' \in [Caller -> Decisions]
    BY <2>2 DEF Decisions
  <2>5. QED
    BY <1>1, <2>2, <2>3, <2>4
<1>8. CASE UNCHANGED gateVars
  BY <1>1, <1>8 DEF gateVars, world
<1>9. QED
  BY <1>2, <1>3, <1>4, <1>5, <1>6, <1>7, <1>8 DEF GateNext, CallerStep, Others, vars

ProfileErrorKind ==
  {"NoStages", "EmptyStageName", "DuplicateStageName", "DuplicateState",
   "IllegalStageOrder", "GateReferencesUndeclaredStage", "GateNotOnDeclaredEdge"}

\* What fails validation is told one of the errors.
LEMMA ValidationReports ==
  ASSUME NEW p \in Profile
  PROVE  Validation(p) \in ProfileErrorKind \cup {"none"}
<1> DEFINE errors == <<IF p.stages = <<>> THEN {"NoStages"} ELSE {},
                       StageErrors(p.stages), OrderErrors(p.stages), GateErrors(p)>>
           failing == {i \in DOMAIN errors : errors[i] # {}}
           first == CHOOSE i \in failing : \A j \in failing : i <= j
<1>1. StageErrors(p.stages) \subseteq ProfileErrorKind
  BY DEF StageErrors, ProfileErrorKind
<1>2. OrderErrors(p.stages) \subseteq ProfileErrorKind /\ GateErrors(p) \subseteq ProfileErrorKind
  BY DEF OrderErrors, GateErrors, GateError, ProfileErrorKind
<1>3. DOMAIN errors = 1..4 /\ \A i \in 1..4 : errors[i] \subseteq ProfileErrorKind
  BY <1>1, <1>2 DEF ProfileErrorKind
<1>4. Validation(p) = IF failing = {} THEN "none" ELSE CHOOSE e \in errors[first] : TRUE
  BY DEF Validation
<1> HIDE DEF errors
<1>5. ASSUME failing # {}
      PROVE  (CHOOSE e \in errors[first] : TRUE) \in ProfileErrorKind
  <2>1. failing \in SUBSET Nat
    BY <1>3
  <2>2. \E i \in failing : \A j \in failing : i <= j
    BY <1>5, <2>1, LeastNatural
  <2>3. first \in failing
    BY <2>2
  <2>4. first \in 1..4 /\ errors[first] # {}
    BY <1>3, <2>3
  <2>5. (CHOOSE e \in errors[first] : TRUE) \in errors[first]
    BY <2>4
  <2>6. QED
    BY <1>3, <2>4, <2>5
<1>6. QED
  BY <1>4, <1>5

\* Type correctness of the workflow.
THEOREM WorkflowTypeCorrect == WorkflowSpec => []WorkflowTypeOK
<1> DEFINE TypeInv == GateTypeInv /\ ProfileTypeOK
<1>1. ASSUME WorkflowInit
      PROVE  TypeInv
  <2>1. TypeOK
    BY <1>1 DEF WorkflowInit, GateInit, Init, TypeOK
  <2>2. NoRequest \in [token : Token \cup {NoToken}, task : TaskId]
    <3>1. (CHOOSE t \in TaskId : TRUE) \in TaskId
      BY GateAssumption
    <3>2. QED
      BY <3>1 DEF NoRequest
  <2>3. GateTypeInv
    BY <1>1, <2>1, <2>2, GateAssumption
       DEF WorkflowInit, GateInit, GateTypeInv, GateTypeOK, Decisions
  <2>4. ProfileTypeOK
    BY <1>1 DEF WorkflowInit, ProfileInit, ProfileTypeOK, Profile
  <2>5. QED
    BY <2>3, <2>4
<1>2. TypeInv /\ [WorkflowNext]_workflowVars => TypeInv'
  <2> SUFFICES ASSUME TypeInv, [WorkflowNext]_workflowVars
               PROVE  TypeInv'
    OBVIOUS
  <2>1. GateTypeInv'
    <3>1. [GateNext]_vars
      BY DEF WorkflowNext, GatesAlone, ProfileAlone, DigestAlone, workflowVars
    <3>2. QED
      BY <3>1, GateTypeKept
  <2>2. ProfileTypeOK'
    <3>1. CASE \E p \in Profiles : LoadProfile(p)
      <4>1. PICK p \in Profiles : LoadProfile(p)
        BY <3>1
      <4>2. p \in Profile
        BY ProfileAssumption
      <4>3. profileError' \in ProfileErrorKind \cup {"none"} /\ profile' \in Profile
        BY <4>1, <4>2, ValidationReports DEF LoadProfile, ProfileTypeOK
      <4>4. QED
        BY <4>3 DEF ProfileTypeOK, ProfileErrorKind
    <3>2. CASE UNCHANGED profileVars
      BY <3>2 DEF ProfileTypeOK, profileVars
    <3>3. QED
      BY <3>1, <3>2 DEF WorkflowNext, GatesAlone, ProfileAlone, DigestAlone, workflowVars
  <2>3. QED
    BY <2>1, <2>2
<1>3. DigestInv => DigestTypeOK
  <2> SUFFICES ASSUME NEW req \in Request, digest = DigestOf(req)
               PROVE  /\ digest.request \in Request
                      /\ digest.richness \in DOMAIN VisualCount /\ digest.visuals \in 0..2
                      /\ digest.admitted \in Seq(SUBSET Topic)
    BY DEF DigestInv, DigestTypeOK
  <2> DEFINE list == Coherent(req.candidates, req.inPlay)
  <2>1. Richness(req) \in Forms
    BY FormsFade
  <2>2. list \in Seq(SUBSET Topic)
    BY CoherentKeeps DEF Request
  <2>3. /\ digest.request = req /\ digest.richness = Richness(req)
        /\ digest.visuals = VisualCount[Richness(req)]
        /\ digest.admitted = Budgeted(Richness(req), list)
    BY DEF DigestOf, Admitted
  <2> HIDE DEF list
  <2>4. \A form \in Forms : Budgeted(form, list) \in Seq(SUBSET Topic)
    <3>1. Len(list) > 2 => SubSeq(list, 1, 2) \in Seq(SUBSET Topic)
      BY <2>2
    <3>2. QED
      BY <2>2, <3>1 DEF Budgeted, Forms
  <2>5. QED
    BY <2>1, <2>3, <2>4 DEF VisualCount, Forms
<1>4. TypeInv /\ DigestInv => WorkflowTypeOK
  BY <1>3 DEF WorkflowTypeOK, GateTypeInv
<1>5. QED
  BY <1>1, <1>2, <1>4, DigestKept, PTL DEF WorkflowSpec
=============================================================================
