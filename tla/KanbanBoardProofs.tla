------------------------- MODULE KanbanBoardProofs -------------------------
(***************************************************************************)
(* Proofs about KanbanBoard, for any number of tasks, workers and moves.   *)
(***************************************************************************)
EXTENDS KanbanBoard, TLAPS

\* A successful move is legal, and a successful move into Ready finds every
\* dependency Done: the guard of transition_inner, as the proofs below use it.
LEMMA MoveGuard ==
  ASSUME NEW t \in TaskId, NEW to \in TaskState, TypeOK, TransitionErrors(t, to) = {}
  PROVE  /\ state[t] \in TaskState
         /\ IsLegalTransition(state[t], to)
         /\ to = "Ready" => \A d \in dependsOn[t] : d \in TaskId /\ state[d] = "Done"
<1>1. t \in Existing /\ IsLegalTransition(state[t], to)
  BY DEF TransitionErrors
<1>2. ASSUME to = "Ready"
      PROVE  \A d \in dependsOn[t] : d \in TaskId /\ state[d] = "Done"
  <2>1. DependencyErrors(t) = {}
    BY <1>1, <1>2 DEF TransitionErrors
  <2>2. {d \in dependsOn[t] : d \notin Existing \/ state[d] # "Done"} = {}
    BY <2>1 DEF DependencyErrors
  <2>3. QED
    BY <2>2 DEF Existing
<1>3. QED
  BY <1>1, <1>2 DEF Existing, TypeOK

\* The same for a successful block: only a Running task is blocked.
LEMMA BlockGuard ==
  ASSUME NEW t \in TaskId, BlockErrors(t) = {}
  PROVE  state[t] = "Running"
BY DEF BlockErrors, IsLegalTransition, LegalMoves

-----------------------------------------------------------------------------
\* No call breaks the shape of a row.
LEMMA TypeKept ==
  ASSUME TypeOK, [BoardStep]_boardVars
  PROVE  TypeOK'
<1> USE DEF TypeOK
<1>1. ASSUME NEW t \in TaskId, NEW a \in Actor,
             NEW deps \in SUBSET (TaskId \cup DanglingId), Create(t, a, deps)
      PROVE  TypeOK'
  BY <1>1 DEF Create, TaskState
<1>2. ASSUME NEW t \in TaskId, NEW to \in TaskState, Transition(t, to)
      PROVE  TypeOK'
  <2>1. [from |-> state[t], to |-> to] \in StateChange
    BY <1>2, MoveGuard DEF Transition, StateChange
  <2>2. history' \in [TaskId -> Seq(StateChange)]
    BY <1>2, <2>1 DEF Transition, Record
  <2>3. QED
    BY <1>2, <2>2 DEF Transition
<1>3. ASSUME NEW t \in TaskId, NEW a \in Actor, Claim(t, a)
      PROVE  TypeOK'
  BY <1>3 DEF Claim
<1>4. ASSUME NEW t \in TaskId, NEW r \in Reason, Block(t, r)
      PROVE  TypeOK'
  <2>1. [from |-> state[t], to |-> "Blocked"] \in StateChange
    BY <1>4, BlockGuard DEF Block, StateChange, TaskState
  <2>2. history' \in [TaskId -> Seq(StateChange)]
    BY <1>4, <2>1 DEF Block, Record
  <2>3. QED
    BY <1>4, <2>2 DEF Block, TaskState
<1>5. CASE UNCHANGED boardVars
  BY <1>5 DEF boardVars
<1>6. QED
  BY <1>1, <1>2, <1>3, <1>4, <1>5 DEF BoardStep

\* Every row keeps the shape of the schema, whatever is called in whatever order.
THEOREM TypeCorrect == Spec => []TypeOK
<1>1. Init => TypeOK
  BY DEF Init, TypeOK
<1>2. TypeOK /\ [BoardStep]_boardVars => TypeOK'
  BY TypeKept
<1>3. QED
  BY <1>1, <1>2, PTL DEF Spec

-----------------------------------------------------------------------------
\* What a step does to the columns, whatever else it does: one task appears in
\* the Backlog, one task makes one guarded legal move, or no column changes.
LEMMA ColumnsMove ==
  ASSUME TypeOK, [BoardStep]_boardVars
  PROVE  \/ \E t \in TaskId, deps \in SUBSET (TaskId \cup DanglingId) :
              /\ state[t] = Absent
              /\ deps \subseteq Existing \cup DanglingId
              /\ state' = [state EXCEPT ![t] = "Backlog"]
              /\ dependsOn' = [dependsOn EXCEPT ![t] = deps]
         \/ \E t \in TaskId, to \in TaskState :
              /\ state[t] \in TaskState
              /\ IsLegalTransition(state[t], to)
              /\ to = "Ready" => \A d \in dependsOn[t] : d \in TaskId /\ state[d] = "Done"
              /\ state' = [state EXCEPT ![t] = to]
              /\ dependsOn' = dependsOn
         \/ state' = state /\ dependsOn' = dependsOn
<1>1. ASSUME NEW t \in TaskId, NEW a \in Actor,
             NEW deps \in SUBSET (TaskId \cup DanglingId), Create(t, a, deps)
      PROVE  /\ state[t] = Absent
             /\ deps \subseteq Existing \cup DanglingId
             /\ state' = [state EXCEPT ![t] = "Backlog"]
             /\ dependsOn' = [dependsOn EXCEPT ![t] = deps]
  BY <1>1 DEF Create
<1>2. ASSUME NEW t \in TaskId, NEW to \in TaskState, Transition(t, to)
      PROVE  /\ state[t] \in TaskState
             /\ IsLegalTransition(state[t], to)
             /\ to = "Ready" => \A d \in dependsOn[t] : d \in TaskId /\ state[d] = "Done"
             /\ state' = [state EXCEPT ![t] = to]
             /\ dependsOn' = dependsOn
  BY <1>2, MoveGuard DEF Transition
<1>3. ASSUME NEW t \in TaskId, NEW a \in Actor, Claim(t, a)
      PROVE  state' = state /\ dependsOn' = dependsOn
  BY <1>3 DEF Claim
<1>4. ASSUME NEW t \in TaskId, NEW r \in Reason, Block(t, r)
      PROVE  /\ "Blocked" \in TaskState
             /\ state[t] \in TaskState
             /\ IsLegalTransition(state[t], "Blocked")
             /\ state' = [state EXCEPT ![t] = "Blocked"]
             /\ dependsOn' = dependsOn
  BY <1>4, BlockGuard DEF Block, IsLegalTransition, LegalMoves, TaskState
<1>5. CASE UNCHANGED boardVars
  BY <1>5 DEF boardVars
<1>6. CASE BoardStep
  <2>1. PICK t \in TaskId :
          \/ \E a \in Actor, deps \in SUBSET (TaskId \cup DanglingId) : Create(t, a, deps)
          \/ \E to \in TaskState : Transition(t, to)
          \/ \E a \in Actor : Claim(t, a)
          \/ \E r \in Reason : Block(t, r)
    BY <1>6 DEF BoardStep
  <2>2. CASE \E a \in Actor, deps \in SUBSET (TaskId \cup DanglingId) : Create(t, a, deps)
    BY <2>2, <1>1
  <2>3. CASE \E to \in TaskState : Transition(t, to)
    BY <2>3, <1>2
  <2>4. CASE \E a \in Actor : Claim(t, a)
    BY <2>4, <1>3
  <2>5. CASE \E r \in Reason : Block(t, r)
    <3>1. PICK r \in Reason : Block(t, r)
      BY <2>5
    <3>2. QED
      BY <3>1, <1>4
  <2>6. QED
    BY <2>1, <2>2, <2>3, <2>4, <2>5
<1>7. QED
  BY <1>5, <1>6

-----------------------------------------------------------------------------
\* No task is past the gate before its dependencies are finished, in any
\* reachable state: DependencyGate is inductive on top of the type invariant,
\* because Ready is entered from Todo only and nothing leaves Done but for
\* Archived.
THEOREM GateHolds == Spec => []DependencyGate
<1>1. Init => DependencyGate
  BY BoardAssumption DEF Init, DependencyGate, Started, TaskState
<1>2. TypeOK /\ DependencyGate /\ [BoardStep]_boardVars => DependencyGate'
  <2> SUFFICES ASSUME TypeOK, DependencyGate, [BoardStep]_boardVars,
                      NEW u \in TaskId, state'[u] \in Started,
                      NEW d \in dependsOn'[u]
               PROVE  d \in TaskId /\ state'[d] \in Finished
    BY DEF DependencyGate
  <2> USE DEF Started, Finished, TypeOK
  <2>1. ASSUME NEW t \in TaskId, NEW deps \in SUBSET (TaskId \cup DanglingId),
               state[t] = Absent,
               state' = [state EXCEPT ![t] = "Backlog"],
               dependsOn' = [dependsOn EXCEPT ![t] = deps]
        PROVE  d \in TaskId /\ state'[d] \in Finished
    <3>1. u # t
      BY <2>1
    <3>2. d \in TaskId /\ state[d] \in Finished
      BY <2>1, <3>1 DEF DependencyGate
    <3>3. d # t
      BY <2>1, <3>2, BoardAssumption DEF TaskState
    <3>4. QED
      BY <2>1, <3>2, <3>3
  <2>2. ASSUME NEW t \in TaskId, NEW to \in TaskState,
               state[t] \in TaskState,
               IsLegalTransition(state[t], to),
               to = "Ready" => \A e \in dependsOn[t] : e \in TaskId /\ state[e] = "Done",
               state' = [state EXCEPT ![t] = to],
               dependsOn' = dependsOn
        PROVE  d \in TaskId /\ state'[d] \in Finished
    <3>1. d \in TaskId /\ state[d] \in Finished
      <4>1. CASE u = t /\ to = "Ready"
        BY <2>2, <4>1
      <4>2. CASE ~(u = t /\ to = "Ready")
        <5>1. state[u] \in Started
          BY <2>2, <4>2 DEF IsLegalTransition, LegalMoves
        <5>2. QED
          BY <2>2, <5>1 DEF DependencyGate
      <4>3. QED
        BY <4>1, <4>2
    <3>2. d = t => to \in Finished
      BY <2>2, <3>1 DEF IsLegalTransition, LegalMoves
    <3>3. QED
      BY <2>2, <3>1, <3>2
  <2>3. CASE state' = state /\ dependsOn' = dependsOn
    BY <2>3 DEF DependencyGate
  <2>4. QED
    BY <2>1, <2>2, <2>3, ColumnsMove
<1>3. QED
  BY <1>1, <1>2, TypeCorrect, PTL DEF Spec

-----------------------------------------------------------------------------
\* One move of task t with its history row keeps the trail unbroken.
LEMMA RecordExtendsTrail ==
  ASSUME NEW t \in TaskId, NEW to \in TaskState, TypeOK, HistoryIsTrail,
         state[t] \in TaskState,
         IsLegalTransition(state[t], to),
         state' = [state EXCEPT ![t] = to],
         Record(t, to)
  PROVE  HistoryIsTrail'
<1> DEFINE row == [from |-> state[t], to |-> to]
<1>1. /\ history[t] \in Seq(StateChange)
      /\ history' = [history EXCEPT ![t] = Append(history[t], row)]
      /\ row \in StateChange
  BY DEF Record, TypeOK, StateChange
<1>2. ASSUME NEW u \in TaskId, u # t
      PROVE  history'[u] = history[u] /\ state'[u] = state[u]
  BY <1>1, <1>2 DEF TypeOK
<1>3. /\ history'[t] = Append(history[t], row)
      /\ state'[t] = to
      /\ state[t] # Absent
  BY <1>1, BoardAssumption DEF TypeOK
<1>4. SUFFICES ASSUME NEW u \in TaskId, NEW g, g = history'[u]
               PROVE  /\ \A i \in 1..Len(g) : <<g[i].from, g[i].to>> \in LegalMoves
                      /\ \A i \in 1..Len(g) : g[i].from = IF i = 1 THEN "Backlog" ELSE g[i-1].to
                      /\ g = <<>> => state'[u] \in {Absent, "Backlog"}
                      /\ g # <<>> => state'[u] = g[Len(g)].to
  BY DEF HistoryIsTrail
<1>5. CASE u # t
  BY <1>2, <1>4, <1>5 DEF HistoryIsTrail
<1>6. CASE u = t
  <2> DEFINE h == history[t]
  <2>1. /\ h \in Seq(StateChange)
        /\ g = Append(h, row)
        /\ Len(h) \in Nat
        /\ Len(g) = Len(h) + 1
        /\ \A i \in 1..Len(h) : g[i] = h[i]
        /\ g[Len(g)] = row
        /\ g # <<>>
    <3>1. h \in Seq(StateChange) /\ row \in StateChange /\ g = Append(h, row)
      BY <1>1, <1>3, <1>4, <1>6
    <3> HIDE DEF h, row
    <3>2. QED
      BY <3>1
  <2>2. /\ \A i \in 1..Len(h) : <<h[i].from, h[i].to>> \in LegalMoves
        /\ \A i \in 1..Len(h) : h[i].from = IF i = 1 THEN "Backlog" ELSE h[i-1].to
        /\ h = <<>> => state[t] \in {Absent, "Backlog"}
        /\ h # <<>> => state[t] = h[Len(h)].to
    BY DEF HistoryIsTrail
  <2>3. <<row.from, row.to>> \in LegalMoves
    BY DEF IsLegalTransition
  <2>4. row.from = IF Len(g) = 1 THEN "Backlog" ELSE g[Len(g)-1].to
    <3>1. CASE h = <<>>
      BY <1>3, <2>1, <2>2, <3>1
    <3>2. CASE h # <<>>
      <4>1. Len(h) \in 1..Len(h) /\ Len(g) - 1 = Len(h) /\ Len(g) # 1
        BY <2>1, <3>2
      <4>2. QED
        BY <2>1, <2>2, <3>2, <4>1
    <3>3. QED
      BY <3>1, <3>2
  <2>5. ASSUME NEW i \in 1..Len(g), i # Len(g)
        PROVE  i \in 1..Len(h) /\ (i # 1 => i-1 \in 1..Len(h))
    BY <2>1, <2>5
  <2>6. ASSUME NEW i \in 1..Len(g)
        PROVE  <<g[i].from, g[i].to>> \in LegalMoves
    BY <2>1, <2>2, <2>3, <2>5, <2>6
  <2>7. ASSUME NEW i \in 1..Len(g)
        PROVE  g[i].from = IF i = 1 THEN "Backlog" ELSE g[i-1].to
    <3>1. CASE i = Len(g)
      BY <2>1, <2>4, <3>1
    <3>2. CASE i # Len(g)
      BY <2>1, <2>2, <2>5, <3>2
    <3>3. QED
      BY <3>1, <3>2
  <2>8. g # <<>> /\ state'[u] = g[Len(g)].to
    BY <1>3, <1>6, <2>1
  <2>9. QED
    BY <2>6, <2>7, <2>8
<1>7. QED
  BY <1>5, <1>6

\* No call leaves a gap in a trail.
LEMMA TrailKept ==
  ASSUME TypeOK, HistoryIsTrail, [BoardStep]_boardVars
  PROVE  HistoryIsTrail'
<1>1. ASSUME NEW t \in TaskId, NEW a \in Actor,
             NEW deps \in SUBSET (TaskId \cup DanglingId), Create(t, a, deps)
      PROVE  HistoryIsTrail'
  <2>1. history' = history /\ state[t] = Absent /\ state' = [state EXCEPT ![t] = "Backlog"]
    BY <1>1 DEF Create
  <2>2. history[t] = <<>>
    <3>1. SUFFICES ASSUME history[t] # <<>> PROVE FALSE
      OBVIOUS
    <3>2. Len(history[t]) \in 1..Len(history[t]) /\ history[t] \in Seq(StateChange)
      BY <3>1 DEF TypeOK
    <3>3. history[t][Len(history[t])] \in StateChange
      BY <3>2
    <3>4. state[t] \in TaskState
      BY <3>1, <3>3 DEF HistoryIsTrail, StateChange
    <3>5. QED
      BY <2>1, <3>4, BoardAssumption
  <2>3. QED
    BY <2>1, <2>2 DEF HistoryIsTrail, TypeOK
<1>2. ASSUME NEW t \in TaskId, NEW to \in TaskState, Transition(t, to)
      PROVE  HistoryIsTrail'
  BY <1>2, MoveGuard, RecordExtendsTrail DEF Transition
<1>3. ASSUME NEW t \in TaskId, NEW a \in Actor, Claim(t, a)
      PROVE  HistoryIsTrail'
  BY <1>3 DEF Claim, HistoryIsTrail
<1>4. ASSUME NEW t \in TaskId, NEW r \in Reason, Block(t, r)
      PROVE  HistoryIsTrail'
  <2>1. /\ "Blocked" \in TaskState
        /\ state[t] \in TaskState
        /\ IsLegalTransition(state[t], "Blocked")
    BY <1>4, BlockGuard DEF Block, TaskState, IsLegalTransition, LegalMoves
  <2>2. QED
    BY <1>4, <2>1, RecordExtendsTrail DEF Block
<1>5. CASE UNCHANGED boardVars
  BY <1>5 DEF boardVars, HistoryIsTrail
<1>6. QED
  BY <1>1, <1>2, <1>3, <1>4, <1>5 DEF BoardStep

\* The history table and the state column never disagree.
THEOREM TrailHolds == Spec => []HistoryIsTrail
<1>1. Init => HistoryIsTrail
  BY DEF Init, HistoryIsTrail
<1>2. TypeOK /\ HistoryIsTrail /\ [BoardStep]_boardVars => HistoryIsTrail'
  BY TrailKept
<1>3. QED
  BY <1>1, <1>2, TypeCorrect, PTL DEF Spec

-----------------------------------------------------------------------------
\* A uuid without a row has no holder either: needed because create() writes the
\* actor column whatever it held, and only a fresh row makes that harmless.
FreshRowsUnheld == \A t \in TaskId : state[t] = Absent => assignee[t] = Nobody

LEMMA FreshRows == Spec => []FreshRowsUnheld
<1>1. Init => FreshRowsUnheld
  BY DEF Init, FreshRowsUnheld
<1>2. TypeOK /\ FreshRowsUnheld /\ [BoardStep]_boardVars => FreshRowsUnheld'
  <2> SUFFICES ASSUME TypeOK, FreshRowsUnheld, [BoardStep]_boardVars
               PROVE  FreshRowsUnheld'
    OBVIOUS
  <2> USE BoardAssumption DEF FreshRowsUnheld, TypeOK
  <2>1. ASSUME NEW t \in TaskId, NEW a \in Actor,
               NEW deps \in SUBSET (TaskId \cup DanglingId), Create(t, a, deps)
        PROVE  FreshRowsUnheld'
    BY <2>1 DEF Create, TaskState
  <2>2. ASSUME NEW t \in TaskId, NEW to \in TaskState, Transition(t, to)
        PROVE  FreshRowsUnheld'
    BY <2>2 DEF Transition
  <2>3. ASSUME NEW t \in TaskId, NEW a \in Actor, Claim(t, a)
        PROVE  FreshRowsUnheld'
    BY <2>3 DEF Claim, ClaimErrors, TaskState
  <2>4. ASSUME NEW t \in TaskId, NEW r \in Reason, Block(t, r)
        PROVE  FreshRowsUnheld'
    BY <2>4 DEF Block, TaskState
  <2>5. CASE UNCHANGED boardVars
    BY <2>5 DEF boardVars
  <2>6. QED
    BY <2>1, <2>2, <2>3, <2>4, <2>5 DEF BoardStep
<1>3. QED
  BY <1>1, <1>2, TypeCorrect, PTL DEF Spec

\* No step hands a held task to another holder, and only a move lets it go.
THEOREM ClaimsExclusive == Spec => ClaimHeldUntilMove
<1> DEFINE Held == \A t \in TaskId :
                     assignee[t] # Nobody =>
                       \/ assignee'[t] = assignee[t]
                       \/ assignee'[t] = Nobody /\ state'[t] # state[t]
<1>1. TypeOK /\ FreshRowsUnheld /\ [BoardStep]_boardVars => [Held]_boardVars
  <2> SUFFICES ASSUME TypeOK, FreshRowsUnheld, BoardStep PROVE Held
    OBVIOUS
  <2>1. ASSUME NEW u \in TaskId, NEW a \in Actor,
               NEW deps \in SUBSET (TaskId \cup DanglingId), Create(u, a, deps)
        PROVE  Held
    BY <2>1 DEF Create, FreshRowsUnheld, TypeOK
  <2>2. ASSUME NEW u \in TaskId, NEW to \in TaskState, Transition(u, to)
        PROVE  Held
    <3>1. state[u] # to
      BY <2>2, MoveGuard DEF Transition, IsLegalTransition, LegalMoves
    <3>2. QED
      BY <2>2, <3>1 DEF Transition, TypeOK
  <2>3. ASSUME NEW u \in TaskId, NEW a \in Actor, Claim(u, a)
        PROVE  Held
    BY <2>3 DEF Claim, ClaimErrors, TypeOK
  <2>4. ASSUME NEW u \in TaskId, NEW r \in Reason, Block(u, r)
        PROVE  Held
    BY <2>4 DEF Block
  <2>5. QED
    BY <2>1, <2>2, <2>3, <2>4 DEF BoardStep
<1>2. QED
  BY <1>1, TypeCorrect, FreshRows, PTL DEF Spec, ClaimHeldUntilMove

\* Archiving a dependency (or naming one that never existed) strands its dependents.
THEOREM Stranding == Spec => StrandedStaysStranded
<1> DEFINE Stuck == \A t \in TaskId :
              /\ state[t] \in {"Backlog", "Todo"}
              /\ \E d \in dependsOn[t] : d \in DanglingId \/ state[d] = "Archived"
              => state'[t] \in {"Backlog", "Todo"}
<1>1. TypeOK /\ [BoardStep]_boardVars => [Stuck]_boardVars
  <2> SUFFICES ASSUME TypeOK, [BoardStep]_boardVars, NEW t \in TaskId,
                      state[t] \in {"Backlog", "Todo"},
                      NEW d \in dependsOn[t], d \in DanglingId \/ state[d] = "Archived"
               PROVE  state'[t] \in {"Backlog", "Todo"}
    OBVIOUS
  <2>1. ~(d \in TaskId /\ state[d] = "Done")
    BY BoardAssumption
  <2>2. QED
    BY <2>1, ColumnsMove DEF TypeOK, IsLegalTransition, LegalMoves
<1>2. QED
  BY <1>1, TypeCorrect, PTL DEF Spec, StrandedStaysStranded

\* The board implements the abstract lifecycle: initial states map to initial
\* states, and every operation maps to Appear, to Move or to no step at all.
THEOREM BoardImplementsLifecycle == Spec => ImplementsLifecycle
<1>1. Init => Lifecycle!Init
  BY DEF Init, Lifecycle!Init
<1>2. TypeOK /\ [BoardStep]_boardVars => [Lifecycle!Next]_(Lifecycle!vars)
  <2> SUFFICES ASSUME TypeOK, [BoardStep]_boardVars
               PROVE  Lifecycle!Next \/ UNCHANGED Lifecycle!vars
    OBVIOUS
  <2>1. ASSUME NEW t \in TaskId, NEW deps \in SUBSET (TaskId \cup DanglingId),
               state[t] = Absent, deps \subseteq Existing \cup DanglingId,
               state' = [state EXCEPT ![t] = "Backlog"],
               dependsOn' = [dependsOn EXCEPT ![t] = deps]
        PROVE  Lifecycle!Next
    BY <2>1 DEF Lifecycle!Next, Lifecycle!Appear, Lifecycle!Existing, Existing
  <2>2. ASSUME NEW t \in TaskId, NEW to \in TaskState,
               state[t] \in TaskState,
               IsLegalTransition(state[t], to),
               to = "Ready" => \A d \in dependsOn[t] : d \in TaskId /\ state[d] = "Done",
               state' = [state EXCEPT ![t] = to],
               dependsOn' = dependsOn
        PROVE  Lifecycle!Next
    BY <2>2 DEF Lifecycle!Next, Lifecycle!Move, Lifecycle!Satisfied, Lifecycle!TaskState,
                TaskState, Lifecycle!IsLegalTransition, Lifecycle!LegalMoves,
                IsLegalTransition, LegalMoves
  <2>3. CASE state' = state /\ dependsOn' = dependsOn
    BY <2>3 DEF Lifecycle!vars
  <2>4. QED
    BY <2>1, <2>2, <2>3, ColumnsMove
<1>3. QED
  BY <1>1, <1>2, TypeCorrect, PTL DEF Spec, ImplementsLifecycle, Lifecycle!Spec
=============================================================================
