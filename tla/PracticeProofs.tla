--------------------------- MODULE PracticeProofs ---------------------------
(***************************************************************************)
(* Proofs about Practice: hunts, for any number of executions and modules, *)
(* whatever work they do, any epoch budget and any host; what is selected  *)
(* for probing, for any concepts, policies and maps; and the staircase of  *)
(* probes, for any number of probes made and graded.                       *)
(***************************************************************************)
EXTENDS Practice, FiniteSetTheorems, WellFoundedInduction, TLAPS

WorksInRun(m) == m.form = "fits" /\ m.start = 0

\* What execute may return for a module that fits and does nothing in its start
\* function: how it ends, or that it was out of time or fuel.
Returns(m) ==
  CASE m.ends = "true byte" -> {"Ok true byte", "Timeout"}
    [] m.ends = "no true byte" -> {"Ok no true byte", "Timeout"}
    [] m.ends = "trap" -> {"Trap", "Timeout"}
    [] OTHER -> {"Timeout"}

\* An execution that came back with what its module may return; until then it has
\* not done anything in a start function that is empty.
ExecutionOK(h) ==
  pc[h] # "idle" =>
    /\ module[h] \in Module
    /\ pc[h] = "returned" /\ WorksInRun(module[h]) => result[h] \in Returns(module[h])

HuntInv ==
  /\ pc \in [Execution -> {"idle", "compile", "limits", "start", "run", "returned"}]
  /\ module \in [Execution -> Module \cup {NoModule}]
  /\ done \in [Execution -> Nat]
  /\ result \in [Execution -> Result \cup {"none"}]
  /\ verdicts \in [Module -> SUBSET Verdict]
  /\ \A h \in Execution : ExecutionOK(h)
  /\ VerdictIsUnhurried

\* A verdict on what such a module returns is the one it would get unhurried.
LEMMA VerdictOfReturn ==
  ASSUME NEW m \in Module, WorksInRun(m), NEW returned \in Returns(m)
  PROVE  /\ VerdictOn(returned) \subseteq Unhurried(m)
         /\ m.ends = "out of fuel" => VerdictOn(returned) = {}
         /\ VerdictOn(returned) = {"Broke"} => m.ends \in {"no true byte", "trap"}
<1>1. m.ends \in {"true byte", "no true byte", "trap", "out of fuel"}
  BY SandboxAssumption DEF AnyModule, Ending
<1>2. CASE m.ends = "true byte"
  BY <1>2 DEF Returns, VerdictOn, Unhurried
<1>3. CASE m.ends = "no true byte"
  BY <1>3 DEF Returns, VerdictOn, Unhurried
<1>4. CASE m.ends = "trap"
  BY <1>4 DEF Returns, VerdictOn, Unhurried
<1>5. CASE m.ends = "out of fuel"
  BY <1>5 DEF Returns, VerdictOn, Unhurried
<1>6. QED
  BY <1>1, <1>2, <1>3, <1>4, <1>5

LEMMA ExecuteStepKept ==
  ASSUME HuntInv, NEW h \in Execution, ExecuteStep(h), UNCHANGED huntVars
  PROVE  HuntInv'
<1>1. module[h] \in Module /\ pc[h] # "idle" /\ pc[h] # "returned"
  BY DEF ExecuteStep, CompileModule, SetDeadline, Instantiate, DoWork, Interrupt, Finish, AtCheck,
         HuntInv, ExecutionOK
<1>2. /\ module[h].form \in Form /\ module[h].start \in Nat /\ module[h].run \in Nat
      /\ module[h].ends \in Ending /\ done[h] \in Nat
  BY <1>1, SandboxAssumption DEF AnyModule, HuntInv
<1>3. ASSUME NEW what \in Result, Return(h, what),
             WorksInRun(module[h]) => what \in Returns(module[h])
      PROVE  HuntInv'
  BY <1>1, <1>3 DEF Return, Goto, HuntInv, ExecutionOK, huntVars, VerdictIsUnhurried
<1>4. ASSUME NEW p \in {"limits", "start", "run"}, Goto(h, p) \/ (UNCHANGED pc /\ p = "run"),
             UNCHANGED <<module, result>>, done' \in [Execution -> Nat]
      PROVE  HuntInv'
  BY <1>1, <1>4 DEF Goto, HuntInv, ExecutionOK, huntVars, VerdictIsUnhurried
<1>5. CASE CompileModule(h)
  BY <1>3, <1>4, <1>5 DEF CompileModule, WorksInRun, Result, HuntInv
<1>6. CASE SetDeadline(h)
  BY <1>4, <1>6 DEF SetDeadline, HuntInv
<1>7. CASE Instantiate(h)
  <2>1. CASE module[h].form = "misfit" /\ Return(h, "Trap")
    BY <1>3, <2>1 DEF WorksInRun, Result
  <2>2. CASE Goto(h, "run") /\ done' = [done EXCEPT ![h] = 0] /\ UNCHANGED <<module, left, result>>
    <3>1. done' \in [Execution -> Nat]
      BY <2>2 DEF HuntInv
    <3>2. QED
      BY <1>4, <2>2, <3>1
  <2>3. QED
    BY <1>7, <2>1, <2>2 DEF Instantiate
<1>8. CASE DoWork(h)
  <2>1. done' \in [Execution -> Nat]
    BY <1>2, <1>8 DEF DoWork, HuntInv
  <2>2. QED
    BY <1>4, <1>8, <2>1 DEF DoWork
<1>9. CASE Interrupt(h)
  <2>1. CASE pc[h] = "start"
    <3>1. ~WorksInRun(module[h])
      BY <1>2, <1>9, <2>1 DEF Interrupt, AtCheck, Work, WorksInRun
    <3>2. QED
      BY <1>3, <1>9, <2>1, <3>1 DEF Interrupt, Result
  <2>2. CASE pc[h] # "start"
    <3>1. "Timeout" \in Returns(module[h])
      BY <1>2 DEF Returns, Ending
    <3>2. QED
      BY <1>3, <1>9, <2>2, <3>1 DEF Interrupt, Result
  <2>3. QED
    BY <2>1, <2>2
<1>10. CASE Finish(h)
  <2>1. CASE module[h].ends = "true byte"
    BY <1>3, <1>10, <2>1 DEF Finish, Returns, Result
  <2>2. CASE module[h].ends = "no true byte"
    BY <1>3, <1>10, <2>2 DEF Finish, Returns, Result
  <2>3. CASE module[h].ends = "trap"
    BY <1>3, <1>10, <2>3 DEF Finish, Returns, Result
  <2>4. CASE module[h].ends = "out of fuel"
    BY <1>3, <1>10, <2>4 DEF Finish, Returns, Result
  <2>5. QED
    BY <1>2, <2>1, <2>2, <2>3, <2>4 DEF Ending
<1>11. QED
  BY <1>5, <1>6, <1>7, <1>8, <1>9, <1>10 DEF ExecuteStep

\* The verdict of one hunt joins the others.
LEMMA JudgeKept ==
  ASSUME HuntInv, NEW h \in Execution, Judge(h)
  PROVE  HuntInv'
<1> DEFINE verdict == VerdictOn(result[h])
           m == module[h]
<1>1. /\ pc[h] = "returned" /\ m \in Module
      /\ WorksInRun(m) => result[h] \in Returns(m)
      /\ pc' = [pc EXCEPT ![h] = "idle"] /\ module' = [module EXCEPT ![h] = NoModule]
      /\ result' = [result EXCEPT ![h] = "none"] /\ done' = done
      /\ verdicts' = [verdicts EXCEPT ![m] = @ \cup verdict]
      /\ defects' = IF verdict = {"Broke"} THEN defects \cup {m} ELSE defects
  BY DEF Judge, Goto, HuntInv, ExecutionOK
<1>2. verdict \subseteq Verdict
  BY DEF VerdictOn, Verdict
<1>3. ASSUME NEW n \in Module, n = m, WorksInRun(n)
      PROVE  /\ verdict \subseteq Unhurried(n)
             /\ n.ends = "out of fuel" => verdict = {}
             /\ verdict = {"Broke"} => n.ends \in {"no true byte", "trap"}
  <2>1. result[h] \in Returns(n)
    <3>1. WorksInRun(m)
      BY <1>3 DEF WorksInRun
    <3>2. result[h] \in Returns(m)
      BY <1>1, <3>1
    <3>3. Returns(n) = Returns(m)
      BY <1>3 DEF Returns
    <3>4. QED
      BY <3>2, <3>3
  <2>2. QED
    BY <1>3, <2>1, VerdictOfReturn
<1> HIDE DEF verdict, m
<1>4. /\ verdicts' \in [Module -> SUBSET Verdict]
      /\ verdicts'[m] = verdicts[m] \cup verdict
      /\ \A n \in Module : n # m => verdicts'[n] = verdicts[n]
  BY <1>1, <1>2 DEF HuntInv
<1>5. VerdictIsUnhurried'
  <2> SUFFICES ASSUME NEW n \in Module, WorksInRun(n)
               PROVE  /\ verdicts'[n] \subseteq Unhurried(n)
                      /\ n.ends = "out of fuel" => verdicts'[n] = {}
                      /\ n \in defects' => n.ends \in {"no true byte", "trap"}
    BY DEF VerdictIsUnhurried, WorksInRun
  <2>1. /\ verdicts[n] \subseteq Unhurried(n)
        /\ n.ends = "out of fuel" => verdicts[n] = {}
        /\ n \in defects => n.ends \in {"no true byte", "trap"}
    BY DEF HuntInv, VerdictIsUnhurried, WorksInRun
  <2>2. CASE n = m
    <3>1. /\ verdicts'[n] = verdicts[n] \cup verdict
          /\ n \in defects' => n \in defects \/ verdict = {"Broke"}
      BY <1>1, <1>4, <2>2
    <3>2. /\ verdict \subseteq Unhurried(n)
          /\ n.ends = "out of fuel" => verdict = {}
          /\ verdict = {"Broke"} => n.ends \in {"no true byte", "trap"}
      BY <1>3, <2>2
    <3>3. QED
      BY <2>1, <3>1, <3>2
  <2>3. CASE n # m
    <3>1. verdicts'[n] = verdicts[n] /\ (n \in defects' => n \in defects)
      BY <1>1, <1>4, <2>3
    <3>2. QED
      BY <2>1, <3>1
  <2>4. QED
    BY <2>2, <2>3
<1>6. \A e \in Execution : ExecutionOK(e)'
  BY <1>1 DEF HuntInv, ExecutionOK
<1>7. QED
  BY <1>1, <1>4, <1>5, <1>6 DEF HuntInv

LEMMA HuntKept ==
  ASSUME HuntInv, [PracticeNext]_practiceVars
  PROVE  HuntInv'
<1>1. ASSUME NEW h \in Execution, NEW m \in Module, Hunt(h, m) \/ BreakItAgain(h, m)
      PROVE  HuntInv'
  <2>1. Execute(h, m)
    BY <1>1 DEF Hunt, BreakItAgain
  <2>2. /\ pc' = [pc EXCEPT ![h] = "compile"] /\ module' = [module EXCEPT ![h] = m]
        /\ UNCHANGED <<done, result, verdicts, defects>>
    BY <2>1 DEF Execute, Goto
  <2>3. QED
    BY <2>2 DEF HuntInv, ExecutionOK, VerdictIsUnhurried
<1>2. CASE UNCHANGED <<pc, module, done, result, verdicts, defects>>
  BY <1>2 DEF HuntInv, ExecutionOK, VerdictIsUnhurried
<1>3. CASE HuntNext
  BY <1>1, <1>2, <1>3, ExecuteStepKept, JudgeKept DEF HuntNext, HuntStep, Tick, huntVars
<1>4. CASE SelectionAlone \/ LadderAlone \/ UNCHANGED practiceVars
  BY <1>2, <1>4 DEF SelectionAlone, LadderAlone, practiceVars, vars, sandboxVars, huntVars
<1>5. QED
  BY <1>3, <1>4 DEF PracticeNext, HuntsAlone

\* A test that fits and keeps its work in run is judged by its assertion or not at
\* all, however slow the host was and whatever else it executed.
THEOREM LoadMakesNoVerdict == FairPracticeSpec => []VerdictIsUnhurried
<1>1. PracticeInit => HuntInv
  BY DEF PracticeInit, HuntInit, SandboxInit, HuntInv, ExecutionOK, VerdictIsUnhurried
<1>2. HuntInv /\ [PracticeNext]_practiceVars => HuntInv'
  BY HuntKept
<1>3. HuntInv => VerdictIsUnhurried
  BY DEF HuntInv
<1>4. QED
  BY <1>1, <1>2, <1>3, PTL DEF FairPracticeSpec
-----------------------------------------------------------------------------
(* The staircase. *)

\* One rung up or down, and no further than the ends of the ladder.
LEMMA UpAndDown ==
  ASSUME NEW r \in Rung
  PROVE  /\ Up(r) = IF r = Top THEN Top ELSE r + 1
         /\ Down(r) = IF r = 0 THEN 0 ELSE r - 1
BY DEF Up, Down, Min, Max, Rung, Top

\* What grade makes of the streak.
LEMMA StreakGoesOn ==
  ASSUME NEW s \in -Top..Top
  PROVE  /\ Min({Max({s, 0}) + 1, Top}) = IF s <= 0 THEN 1 ELSE IF s = Top THEN Top ELSE s + 1
         /\ Max({Min({s, 0}) - 1, -Top}) = IF s >= 0 THEN -1 ELSE IF s = -Top THEN -Top ELSE s - 1
<1>1. Max({s, 0}) = IF s <= 0 THEN 0 ELSE s
  BY DEF Max, Top
<1>2. Min({s, 0}) = IF s >= 0 THEN 0 ELSE s
  BY DEF Min, Top
<1>3. Min({Max({s, 0}) + 1, Top}) = IF s <= 0 THEN 1 ELSE IF s = Top THEN Top ELSE s + 1
  <2>1. CASE s <= 0
    BY <1>1, <2>1 DEF Min, Top
  <2>2. CASE s > 0
    BY <1>1, <2>2 DEF Min, Top
  <2>3. QED
    BY <2>1, <2>2 DEF Top
<1>4. Max({Min({s, 0}) - 1, -Top}) = IF s >= 0 THEN -1 ELSE IF s = -Top THEN -Top ELSE s - 1
  <2>1. CASE s >= 0
    BY <1>2, <2>1 DEF Max, Top
  <2>2. CASE s < 0
    BY <1>2, <2>2 DEF Max, Top
  <2>3. QED
    BY <2>1, <2>2 DEF Top
<1>5. QED
  BY <1>3, <1>4

\* Probes are of rungs the ladder has, and the streak bounds the rung that is shown from
\* below and from above.
LadderInv ==
  /\ rung \in Rung
  /\ prepared \subseteq Probe
  /\ streak \in -Top..Top
  /\ StaircaseFollows

LEMMA RunKept ==
  ASSUME LadderInv, NEW probe \in prepared, NEW passes \in BOOLEAN, Run(probe, passes)
  PROVE  LadderInv'
<1>1. probe.rung \in Rung
  BY DEF LadderInv, Probe
<1>2. /\ rung' = IF passes THEN Up(probe.rung) ELSE Down(probe.rung)
      /\ prepared' \subseteq Probe
  BY DEF Run, LadderInv
<1>3. CASE probe.rung # rung
  <2>1. streak' = 0
    BY <1>3 DEF Run
  <2>2. QED
    BY <1>1, <1>2, <2>1, UpAndDown DEF LadderInv, StaircaseFollows, Rung, Top
<1>4. CASE probe.rung = rung /\ passes
  <2>1. streak' = IF streak <= 0 THEN 1 ELSE IF streak = Top THEN Top ELSE streak + 1
    BY <1>4, StreakGoesOn DEF Run, LadderInv
  <2>2. rung' = IF rung = Top THEN Top ELSE rung + 1
    BY <1>1, <1>2, <1>4, UpAndDown
  <2>3. QED
    BY <1>2, <2>1, <2>2 DEF LadderInv, StaircaseFollows, Rung, Top
<1>5. CASE probe.rung = rung /\ ~passes
  <2>1. streak' = IF streak >= 0 THEN -1 ELSE IF streak = -Top THEN -Top ELSE streak - 1
    BY <1>5, StreakGoesOn DEF Run, LadderInv
  <2>2. rung' = IF rung = 0 THEN 0 ELSE rung - 1
    BY <1>1, <1>2, <1>5, UpAndDown
  <2>3. QED
    BY <1>2, <2>1, <2>2 DEF LadderInv, StaircaseFollows, Rung, Top
<1>6. QED
  BY <1>3, <1>4, <1>5

LEMMA LadderKept ==
  ASSUME LadderInv, [PracticeNext]_practiceVars
  PROVE  LadderInv'
<1>1. ASSUME NEW c \in Concept, NEW scaffolded \in BOOLEAN, NEW anomalous \in BOOLEAN,
             Prepare(c, scaffolded, anomalous)
      PROVE  LadderInv'
  BY <1>1 DEF Prepare, LadderInv, StaircaseFollows, Probe
<1>2. ASSUME NEW probe \in prepared, Forget(probe)
      PROVE  LadderInv'
  BY <1>2 DEF Forget, LadderInv, StaircaseFollows
<1>3. CASE LadderAlone
  BY <1>1, <1>2, <1>3, RunKept DEF LadderAlone, LadderStep
<1>4. CASE UNCHANGED ladderVars
  BY <1>4 DEF ladderVars, LadderInv, StaircaseFollows
<1>5. CASE HuntsAlone \/ SelectionAlone \/ UNCHANGED practiceVars
  BY <1>4, <1>5 DEF HuntsAlone, SelectionAlone, SelectProbes, practiceVars, probeVars
<1>6. QED
  BY <1>3, <1>5 DEF PracticeNext

\* The staircase follows the reader (CG-18): wherever it started, however many probes
\* are open, and whichever of them is graded late, at a rung that is not shown any more.
THEOREM StaircaseIsFollowed == FairPracticeSpec => []StaircaseFollows
<1>1. PracticeInit => LadderInv
  BY DEF PracticeInit, ProbeInit, LadderInv, StaircaseFollows, Rung, Top
<1>2. LadderInv /\ [PracticeNext]_practiceVars => LadderInv'
  BY LadderKept
<1>3. LadderInv => StaircaseFollows
  BY DEF LadderInv
<1>4. QED
  BY <1>1, <1>2, <1>3, PTL DEF FairPracticeSpec
-----------------------------------------------------------------------------
(* The selection of concepts to probe. *)

\* A nonempty set of natural numbers has a least element.
LEMMA LeastNatural ==
  ASSUME NEW T \in SUBSET Nat, T # {}
  PROVE  \E n \in T : \A m \in T : n <= m
<1>1. \A x, y \in Nat : x < y => <<x, y>> \in OpToRel(<, Nat)
  BY DEF OpToRel
<1>2. PICK n \in T : \A m \in T : <<m, n>> \notin OpToRel(<, Nat)
  <2>1. \E n \in T : \A m \in T : <<m, n>> \notin OpToRel(<, Nat)
    BY NatLessThanWellFounded, WFMin
  <2>2. QED
    BY <2>1
<1>3. ASSUME NEW m \in T
      PROVE  n <= m
  <2>1. n \in Nat /\ m \in Nat
    OBVIOUS
  <2>2. ~(m < n)
    BY <1>1, <1>2, <2>1
  <2>3. QED
    BY <2>1, <2>2
<1>4. QED
  BY <1>3

\* Counting the positions in S up to i, every count up to the number of them is reached
\* at one of them.
LEMMA NthExists ==
  ASSUME NEW N \in Nat, NEW S \in SUBSET (1..N), NEW n \in 1..Cardinality(S)
  PROVE  \E i \in S : Cardinality(S \cap 1..i) = n
<1> DEFINE rank(i) == Cardinality(S \cap 1..i)
           T == {i \in 0..N : n <= rank(i)}
<1>1. IsFiniteSet(S) /\ Cardinality(S) \in Nat /\ n \in Nat /\ n >= 1
  <2>1. IsFiniteSet(1..N)
    BY FS_Interval
  <2>2. IsFiniteSet(S)
    BY <2>1, FS_Subset
  <2>3. Cardinality(S) \in Nat
    BY <2>2, FS_CardinalityType
  <2>4. QED
    BY <2>2, <2>3
<1>2. \A i \in 0..N : IsFiniteSet(S \cap 1..i) /\ rank(i) \in Nat
  BY <1>1, FS_Subset, FS_CardinalityType
<1>3. N \in T
  <2>1. S \cap 1..N = S
    OBVIOUS
  <2>2. QED
    BY <1>1, <2>1
<1>4. PICK i \in T : \A j \in T : i <= j
  <2>1. T \in SUBSET Nat /\ T # {}
    BY <1>3
  <2> HIDE DEF T
  <2>2. QED
    BY <2>1, LeastNatural
<1>5. i # 0
  <2>1. S \cap 1..0 = {}
    OBVIOUS
  <2>2. rank(0) = 0
    BY <2>1, FS_EmptySet
  <2>3. QED
    BY <1>1, <2>2
<1>6. i - 1 \in 0..N /\ i \in 1..N /\ rank(i - 1) < n
  <2>1. i - 1 \in 0..N /\ i \in 1..N /\ ~(i <= i - 1)
    BY <1>5
  <2>2. i - 1 \notin T
    BY <1>4, <2>1
  <2>3. QED
    BY <1>1, <1>2, <2>1, <2>2
<1>7. /\ i \in S => rank(i) = rank(i - 1) + 1
      /\ i \notin S => rank(i) = rank(i - 1)
  <2>1. 1..i = 1..(i - 1) \cup {i} /\ i \notin 1..(i - 1)
    BY <1>6
  <2>2. /\ i \in S => S \cap 1..i = (S \cap 1..(i - 1)) \cup {i}
        /\ i \notin S => S \cap 1..i = S \cap 1..(i - 1)
        /\ i \notin S \cap 1..(i - 1)
    BY <2>1
  <2>3. Cardinality((S \cap 1..(i - 1)) \cup {i}) = rank(i - 1) + 1
    BY <1>2, <1>6, <2>2, FS_AddElement
  <2>4. QED
    BY <2>2, <2>3
<1>8. i \in S /\ rank(i) = n
  <2>1. n <= rank(i) /\ rank(i - 1) \in Nat
    BY <1>2, <1>6
  <2> HIDE DEF rank
  <2>2. QED
    BY <1>1, <1>6, <1>7, <2>1
<1>9. QED
  BY <1>8

\* Where the concepts of a set stand in the order of ids, and how many of them up to i.
Places(S) == {i \in DOMAIN ById : ById[i] \in S}
Rank(S, i) == Cardinality(Places(S) \cap 1..i)

LEMMA PlacesOfSet ==
  ASSUME NEW S \in SUBSET Concept
  PROVE  /\ Len(ById) \in Nat /\ Places(S) \in SUBSET (1..Len(ById)) /\ Places(S) \subseteq DOMAIN ById
         /\ IsFiniteSet(Places(S)) /\ Cardinality(Places(S)) \in Nat
         /\ \A c \in S : \E i \in Places(S) : ById[i] = c
         /\ \A i, j \in Places(S) : ById[i] = ById[j] => i = j
<1>1. Len(ById) \in Nat /\ DOMAIN ById = 1..Len(ById)
  BY ProbeAssumption
<1>2. Places(S) \in SUBSET (1..Len(ById)) /\ Places(S) \subseteq DOMAIN ById
  BY <1>1 DEF Places
<1>3. IsFiniteSet(Places(S))
  <2>1. IsFiniteSet(1..Len(ById))
    BY <1>1, FS_Interval
  <2>2. QED
    BY <1>2, <2>1, FS_Subset
<1>4. Cardinality(Places(S)) \in Nat
  BY <1>3, FS_CardinalityType
<1>5. \A c \in S : \E i \in Places(S) : ById[i] = c
  BY ProbeAssumption DEF Places, Range
<1>6. \A i, j \in Places(S) : ById[i] = ById[j] => i = j
  BY ProbeAssumption DEF Places, IsInjective
<1>7. QED
  BY <1>1, <1>2, <1>3, <1>4, <1>5, <1>6

\* Who is later in the order has the higher rank, and a rank does not go up when
\* others leave the set.
LEMMA RankIsStrict ==
  ASSUME NEW S \in SUBSET Concept, NEW i \in Places(S)
  PROVE  /\ Rank(S, i) \in 1..Cardinality(Places(S))
         /\ \A j \in Places(S) : i < j => Rank(S, i) < Rank(S, j)
         /\ \A D \in SUBSET S : Rank(D, i) \in Nat /\ Rank(D, i) <= Rank(S, i)
<1>1. ASSUME NEW T \in SUBSET Concept, NEW j \in Nat
      PROVE  IsFiniteSet(Places(T) \cap 1..j) /\ Rank(T, j) \in Nat
  <2>1. IsFiniteSet(Places(T) \cap 1..j)
    BY PlacesOfSet, FS_Intersection
  <2>2. QED
    BY <2>1, FS_CardinalityType DEF Rank
<1>2. i \in Nat /\ i \in Places(S) \cap 1..i /\ IsFiniteSet(Places(S)) /\ Cardinality(Places(S)) \in Nat
  <2>1. i \in 1..Len(ById)
    BY PlacesOfSet
  <2>2. i \in 1..i
    BY <2>1
  <2>3. QED
    BY <2>1, <2>2, PlacesOfSet
<1>3. Rank(S, i) \in 1..Cardinality(Places(S))
  <2>1. Rank(S, i) \in Nat /\ IsFiniteSet(Places(S) \cap 1..i)
    BY <1>1, <1>2
  <2>2. Rank(S, i) # 0
    BY <1>2, <2>1, FS_EmptySet DEF Rank
  <2>3. Rank(S, i) <= Cardinality(Places(S))
    BY <1>2, FS_Subset DEF Rank
  <2>4. QED
    BY <1>2, <2>1, <2>2, <2>3
<1>4. ASSUME NEW j \in Places(S), i < j
      PROVE  Rank(S, i) < Rank(S, j)
  <2>1. j \in 1..Len(ById) /\ j \in Nat
    BY PlacesOfSet
  <2>2. (Places(S) \cap 1..i) \cup {j} \subseteq Places(S) \cap 1..j /\ j \notin Places(S) \cap 1..i
    BY <1>2, <1>4, <2>1
  <2>3. /\ IsFiniteSet(Places(S) \cap 1..i) /\ Rank(S, i) \in Nat
        /\ IsFiniteSet(Places(S) \cap 1..j) /\ Rank(S, j) \in Nat
    <3>1. S \in SUBSET Concept /\ i \in Nat /\ j \in Nat
      BY <1>2, <2>1
    <3>2. QED
      BY <1>1, <3>1
  <2>4. Cardinality((Places(S) \cap 1..i) \cup {j}) = Rank(S, i) + 1
    BY <2>2, <2>3, FS_AddElement DEF Rank
  <2>5. Cardinality((Places(S) \cap 1..i) \cup {j}) <= Rank(S, j)
    BY <2>2, <2>3, FS_Subset DEF Rank
  <2>6. QED
    BY <2>3, <2>4, <2>5
<1>5. ASSUME NEW D \in SUBSET S
      PROVE  Rank(D, i) \in Nat /\ Rank(D, i) <= Rank(S, i)
  <2>1. Places(D) \cap 1..i \in SUBSET (Places(S) \cap 1..i)
    BY DEF Places
  <2>2. QED
    BY <1>1, <1>2, <2>1, FS_Subset DEF Rank
<1>6. QED
  BY <1>3, <1>4, <1>5

\* The list of a set: each of its concepts once, at its rank.
LEMMA OrderedList ==
  ASSUME NEW S \in SUBSET Concept
  PROVE  /\ InOrder(S) \in Seq(Concept) /\ Len(InOrder(S)) = Cardinality(Places(S))
         /\ \A n \in 1..Cardinality(Places(S)) :
              \E i \in Places(S) : Rank(S, i) = n /\ InOrder(S)[n] = ById[i]
         /\ \A i \in Places(S) : InOrder(S)[Rank(S, i)] = ById[i]
<1> DEFINE N == Cardinality(Places(S))
           Nth(n) == CHOOSE i \in Places(S) : Rank(S, i) = n
<1>1. /\ Len(ById) \in Nat /\ Places(S) \in SUBSET (1..Len(ById)) /\ Places(S) \subseteq DOMAIN ById
      /\ N \in Nat
  BY PlacesOfSet
<1>2. InOrder(S) = [n \in 1..N |-> ById[Nth(n)]]
  BY DEF InOrder, Places, Rank
<1>3. \A n \in 1..N : Nth(n) \in Places(S) /\ Rank(S, Nth(n)) = n
  <2>1. \A n \in 1..N : \E i \in Places(S) : Rank(S, i) = n
    BY <1>1, NthExists DEF Rank
  <2>2. QED
    BY <2>1
<1> HIDE DEF N, Nth
<1>4. \A n \in 1..N : ById[Nth(n)] \in Concept
  BY <1>1, <1>3, ProbeAssumption
<1>5. InOrder(S) \in Seq(Concept) /\ Len(InOrder(S)) = N
  BY <1>1, <1>2, <1>4
<1>6. \A n \in 1..N : \E i \in Places(S) : Rank(S, i) = n /\ InOrder(S)[n] = ById[i]
  BY <1>2, <1>3
<1>7. ASSUME NEW i \in Places(S)
      PROVE  InOrder(S)[Rank(S, i)] = ById[i]
  <2>1. Rank(S, i) \in 1..N
    BY RankIsStrict DEF N
  <2>2. PICK j \in Places(S) : Rank(S, j) = Rank(S, i) /\ InOrder(S)[Rank(S, i)] = ById[j]
    BY <1>6, <2>1
  <2>3. i \in Nat /\ j \in Nat
    BY <1>1
  <2>4. ~(i < j) /\ ~(j < i)
    <3>1. Rank(S, i) \in Nat /\ Rank(S, j) \in Nat
      BY <1>1, <2>1, <2>2
    <3>2. i < j => Rank(S, i) < Rank(S, j)
      BY RankIsStrict
    <3>3. j < i => Rank(S, j) < Rank(S, i)
      BY RankIsStrict
    <3>4. QED
      BY <2>2, <3>1, <3>2, <3>3
  <2>5. i = j
    BY <2>3, <2>4
  <2>6. QED
    BY <2>2, <2>5
<1>8. QED
  BY <1>5, <1>6, <1>7 DEF N

\* The beginning of a list.
LEMMA FirstOfList ==
  ASSUME NEW X, NEW list \in Seq(X), NEW k \in Nat
  PROVE  /\ First(k, list) \in Seq(X)
         /\ \A n \in Nat : n \in DOMAIN First(k, list) <=> n \in 1..Len(list) /\ n <= k
         /\ DOMAIN First(k, list) \subseteq Nat
         /\ \A n \in DOMAIN First(k, list) : First(k, list)[n] = list[n]
<1> DEFINE m == Min({k, Len(list)})
<1>1. m = IF k <= Len(list) THEN k ELSE Len(list)
  BY DEF Min
<1>2. m \in 0..Len(list)
  BY <1>1
<1>3. First(k, list) = SubSeq(list, 1, m)
  BY DEF First
<1> HIDE DEF m
<1>4. SubSeq(list, 1, m) \in Seq(X) /\ DOMAIN SubSeq(list, 1, m) = 1..m
      /\ \A n \in 1..m : SubSeq(list, 1, m)[n] = list[n]
  BY <1>2
<1>5. \A n \in Nat : n \in 1..m <=> n \in 1..Len(list) /\ n <= k
  BY <1>1, <1>2
<1>6. QED
  BY <1>3, <1>4, <1>5

\* What the beginning of an ordered list names: those whose rank is no more than k.
LEMMA FirstInOrder ==
  ASSUME NEW S \in SUBSET Concept, NEW k \in Nat
  PROVE  /\ First(k, InOrder(S)) \in Seq(Concept)
         /\ \A c : c \in Range(First(k, InOrder(S))) <=>
                     \E i \in Places(S) : ById[i] = c /\ Rank(S, i) <= k
         /\ IsInjective(First(k, InOrder(S)))
<1> DEFINE list == InOrder(S)
           short == First(k, list)
<1>1. list \in Seq(Concept) /\ Len(list) = Cardinality(Places(S)) /\ Len(list) \in Nat
  BY OrderedList, PlacesOfSet
<1>2. \A n \in 1..Len(list) : \E i \in Places(S) : Rank(S, i) = n /\ list[n] = ById[i]
  BY <1>1, OrderedList
<1>3. \A i \in Places(S) : Rank(S, i) \in 1..Len(list) /\ list[Rank(S, i)] = ById[i]
  BY <1>1, OrderedList, RankIsStrict
<1>4. /\ short \in Seq(Concept) /\ DOMAIN short \subseteq Nat
      /\ \A n \in Nat : n \in DOMAIN short <=> n \in 1..Len(list) /\ n <= k
      /\ \A n \in DOMAIN short : short[n] = list[n]
  <2> HIDE DEF list
  <2>1. QED
    BY <1>1, FirstOfList
<1> HIDE DEF list, short
<1>5. ASSUME NEW c, c \in Range(short)
      PROVE  \E i \in Places(S) : ById[i] = c /\ Rank(S, i) <= k
  <2>1. PICK n \in DOMAIN short : short[n] = c
    BY <1>5 DEF Range
  <2>2. n \in 1..Len(list) /\ n <= k /\ list[n] = c
    BY <1>4, <2>1
  <2>3. QED
    BY <1>2, <2>2
<1>6. ASSUME NEW i \in Places(S), Rank(S, i) <= k
      PROVE  ById[i] \in Range(short)
  <2>1. Rank(S, i) \in Nat /\ Rank(S, i) \in DOMAIN short
    BY <1>1, <1>3, <1>4, <1>6
  <2>2. QED
    BY <1>3, <1>4, <2>1 DEF Range
<1>7. IsInjective(short)
  <2> SUFFICES ASSUME NEW n \in DOMAIN short, NEW m \in DOMAIN short, short[n] = short[m]
               PROVE  n = m
    BY DEF IsInjective
  <2>1. n \in 1..Len(list) /\ m \in 1..Len(list) /\ list[n] = list[m]
    BY <1>4
  <2>2. PICK i \in Places(S) : Rank(S, i) = n /\ list[n] = ById[i]
    BY <1>2, <2>1
  <2>3. PICK j \in Places(S) : Rank(S, j) = m /\ list[m] = ById[j]
    BY <1>2, <2>1
  <2>4. i = j
    BY <2>1, <2>2, <2>3, PlacesOfSet
  <2>5. QED
    BY <2>2, <2>3, <2>4
<1>8. QED
  BY <1>4, <1>5, <1>6, <1>7 DEF short, list

\* Beyond the end of the order there is nothing to cut off.
LEMMA AllInOrder ==
  ASSUME NEW S \in SUBSET Concept
  PROVE  /\ InOrder(S) \in Seq(Concept) /\ Range(InOrder(S)) = S
         /\ IsInjective(InOrder(S))
<1> DEFINE list == InOrder(S)
           n == Cardinality(Places(S))
<1>1. list \in Seq(Concept) /\ Len(list) = n /\ n \in Nat
  BY OrderedList, PlacesOfSet
<1>2. First(n, list) = list
  <2> HIDE DEF list, n
  <2>1. Min({n, Len(list)}) = n
    BY <1>1 DEF Min
  <2>2. SubSeq(list, 1, Len(list)) = list
    BY <1>1
  <2>3. QED
    BY <1>1, <2>1, <2>2 DEF First
<1>3. /\ \A c : c \in Range(list) <=> \E i \in Places(S) : ById[i] = c /\ Rank(S, i) <= n
      /\ IsInjective(list)
  BY <1>1, <1>2, FirstInOrder
<1>4. \A i \in Places(S) : Rank(S, i) <= n
  <2>1. \A i \in Places(S) : Rank(S, i) \in 1..n
    BY RankIsStrict
  <2>2. QED
    BY <1>1, <2>1
<1>5. Range(list) = S
  <2>1. \A c \in S : \E i \in Places(S) : ById[i] = c
    BY PlacesOfSet
  <2>2. \A i \in Places(S) : ById[i] \in S
    BY DEF Places
  <2> HIDE DEF list, n
  <2>3. QED
    BY <1>3, <1>4, <2>1, <2>2
<1>6. QED
  BY <1>1, <1>3, <1>5 DEF list

\* A sample takes concepts of the set only, at least one where there is one, and one
\* that stays in the set keeps its place in the sample when others leave.
LEMMA SampleHolds ==
  ASSUME NEW S \in SUBSET Concept, NEW k \in Nat
  PROVE  /\ Range(First(k, InOrder(S))) \subseteq S
         /\ S # {} /\ k # 0 => Range(First(k, InOrder(S))) # {}
         /\ \A D \in SUBSET S :
              Range(First(k, InOrder(S))) \cap D \subseteq Range(First(k, InOrder(D)))
<1>1. \A c : c \in Range(First(k, InOrder(S))) <=> \E i \in Places(S) : ById[i] = c /\ Rank(S, i) <= k
  BY FirstInOrder
<1>2. Range(First(k, InOrder(S))) \subseteq S
  BY <1>1 DEF Places
<1>3. ASSUME S # {}, k # 0
      PROVE  Range(First(k, InOrder(S))) # {}
  <2>1. PICK c \in S : TRUE
    BY <1>3
  <2>2. PICK j \in Places(S) : ById[j] = c
    BY PlacesOfSet
  <2>3. Rank(S, j) \in 1..Cardinality(Places(S)) /\ Cardinality(Places(S)) \in Nat
    BY RankIsStrict, PlacesOfSet
  <2>4. 1 \in 1..Cardinality(Places(S))
    BY <2>3
  <2>5. PICK i \in Places(S) : Rank(S, i) = 1
    BY <2>4, OrderedList
  <2>6. ById[i] \in Range(First(k, InOrder(S)))
    BY <1>1, <1>3, <2>5
  <2>7. QED
    BY <2>6
<1>4. ASSUME NEW D \in SUBSET S, NEW c \in Range(First(k, InOrder(S))) \cap D
      PROVE  c \in Range(First(k, InOrder(D)))
  <2>1. PICK i \in Places(S) : ById[i] = c /\ Rank(S, i) <= k
    BY <1>1
  <2>2. i \in Places(D)
    BY <2>1 DEF Places
  <2>3. Rank(D, i) \in Nat /\ Rank(D, i) <= Rank(S, i) /\ Rank(S, i) \in Nat
    <3>1. Rank(S, i) \in 1..Cardinality(Places(S)) /\ Cardinality(Places(S)) \in Nat
      BY RankIsStrict, PlacesOfSet
    <3>2. Rank(D, i) \in Nat /\ Rank(D, i) <= Rank(S, i)
      BY RankIsStrict
    <3>3. QED
      BY <3>1, <3>2
  <2>4. Rank(D, i) <= k
    BY <2>1, <2>3
  <2>5. D \in SUBSET Concept
    OBVIOUS
  <2>6. QED
    BY <2>1, <2>2, <2>4, <2>5, FirstInOrder
<1>5. QED
  BY <1>2, <1>3, <1>4

\* Two lists that have nothing in common, one after the other.
LEMMA ListsJoined ==
  ASSUME NEW X, NEW a \in Seq(X), NEW b \in Seq(X), IsInjective(a), IsInjective(b),
         Range(a) \cap Range(b) = {}
  PROVE  /\ a \o b \in Seq(X) /\ Range(a \o b) = Range(a) \cup Range(b)
         /\ IsInjective(a \o b)
<1> DEFINE s == a \o b
<1>1. /\ s \in Seq(X) /\ Len(a) \in Nat /\ Len(b) \in Nat /\ Len(s) = Len(a) + Len(b)
      /\ DOMAIN s = 1..(Len(a) + Len(b)) /\ DOMAIN a = 1..Len(a) /\ DOMAIN b = 1..Len(b)
  OBVIOUS
<1>2. \A i \in 1..(Len(a) + Len(b)) : s[i] = IF i <= Len(a) THEN a[i] ELSE b[i - Len(a)]
  OBVIOUS
<1> HIDE DEF s
<1>3. ASSUME NEW i \in DOMAIN s
      PROVE  \/ i \in DOMAIN a /\ s[i] = a[i]
             \/ i - Len(a) \in DOMAIN b /\ s[i] = b[i - Len(a)] /\ i \in Nat
  BY <1>1, <1>2
<1>4. \A i \in DOMAIN a : i \in DOMAIN s /\ s[i] = a[i]
  BY <1>1, <1>2
<1>5. \A j \in DOMAIN b : j + Len(a) \in DOMAIN s /\ s[j + Len(a)] = b[j]
  <2> SUFFICES ASSUME NEW j \in DOMAIN b
               PROVE  j + Len(a) \in DOMAIN s /\ s[j + Len(a)] = b[j]
    OBVIOUS
  <2>1. j + Len(a) \in 1..(Len(a) + Len(b)) /\ ~(j + Len(a) <= Len(a)) /\ j + Len(a) - Len(a) = j
    BY <1>1
  <2>2. QED
    BY <1>1, <1>2, <2>1
<1>6. Range(s) = Range(a) \cup Range(b)
  BY <1>3, <1>4, <1>5 DEF Range
<1>7. IsInjective(s)
  <2> SUFFICES ASSUME NEW i \in DOMAIN s, NEW j \in DOMAIN s, s[i] = s[j]
               PROVE  i = j
    BY DEF IsInjective
  <2>1. CASE i \in DOMAIN a /\ s[i] = a[i] /\ j \in DOMAIN a /\ s[j] = a[j]
    BY <2>1 DEF IsInjective
  <2>2. CASE /\ i - Len(a) \in DOMAIN b /\ s[i] = b[i - Len(a)] /\ i \in Nat
             /\ j - Len(a) \in DOMAIN b /\ s[j] = b[j - Len(a)] /\ j \in Nat
    <3>1. i - Len(a) = j - Len(a)
      BY <2>2 DEF IsInjective
    <3>2. QED
      BY <1>1, <2>2, <3>1
  <2>3. CASE i \in DOMAIN a /\ s[i] = a[i] /\ j - Len(a) \in DOMAIN b /\ s[j] = b[j - Len(a)]
    BY <2>3 DEF Range
  <2>4. CASE j \in DOMAIN a /\ s[j] = a[j] /\ i - Len(a) \in DOMAIN b /\ s[i] = b[i - Len(a)]
    BY <2>4 DEF Range
  <2>5. QED
    BY <1>3, <2>1, <2>2, <2>3, <2>4
<1>8. QED
  BY <1>1, <1>6, <1>7 DEF s

\* What select_probes does with a mode the policy may have.
Valid(mode) == mode.kind = "sampled" => mode.k # 0

LEMMA SelectionsHold ==
  ASSUME NEW mode \in Mode, Valid(mode), NEW S \in SUBSET Concept
  PROVE  /\ Select(mode, S) \in Seq(Concept) /\ Range(Select(mode, S)) \subseteq S
         /\ S # {} => Range(Select(mode, S)) # {}
         /\ IsInjective(Select(mode, S))
         /\ mode.kind = "strict" => S \subseteq Range(Select(mode, S))
         /\ mode.kind = "hybrid" => S \cap Critical \subseteq Range(Select(mode, S))
         /\ \A D \in SUBSET S : Range(Select(mode, S)) \cap D \subseteq Range(Select(mode, D))
<1>1. CASE mode.kind = "strict"
  <2>1. \A T \in SUBSET Concept : Select(mode, T) = InOrder(T)
    BY <1>1 DEF Select
  <2>2. \A T \in SUBSET Concept :
          InOrder(T) \in Seq(Concept) /\ Range(InOrder(T)) = T /\ IsInjective(InOrder(T))
    BY AllInOrder
  <2>3. \A D \in SUBSET S : D \in SUBSET Concept
    OBVIOUS
  <2>4. QED
    BY <1>1, <2>1, <2>2, <2>3
<1>2. CASE mode.kind = "sampled"
  <2>1. mode.k \in Nat \ {0}
    BY <1>2 DEF Mode, Valid
  <2>2. \A T \in SUBSET Concept : Select(mode, T) = First(mode.k, InOrder(T))
    BY <1>2 DEF Select
  <2> DEFINE k == mode.k
  <2>3. \A T \in SUBSET Concept : Select(mode, T) = First(k, InOrder(T)) /\ k \in Nat /\ k # 0
    BY <2>1, <2>2
  <2> HIDE DEF k
  <2>4. Select(mode, S) \in Seq(Concept) /\ IsInjective(Select(mode, S))
    BY <2>3, FirstInOrder
  <2>5. /\ Range(Select(mode, S)) \subseteq S
        /\ S # {} => Range(Select(mode, S)) # {}
        /\ \A D \in SUBSET S : Range(Select(mode, S)) \cap D \subseteq Range(First(k, InOrder(D)))
    BY <2>3, SampleHolds
  <2>6. \A D \in SUBSET S : D \in SUBSET Concept
    OBVIOUS
  <2>7. QED
    BY <1>2, <2>3, <2>4, <2>5, <2>6
<1>3. CASE mode.kind = "hybrid"
  <2> DEFINE Sure(T) == InOrder(T \cap Critical)
             Maybe(T) == First(HybridSample, InOrder(T \ Critical))
  <2>1. \A T \in SUBSET Concept : Select(mode, T) = Sure(T) \o Maybe(T)
    BY <1>3 DEF Select
  <2>2. ASSUME NEW T \in SUBSET Concept
        PROVE  /\ Select(mode, T) \in Seq(Concept) /\ IsInjective(Select(mode, T))
               /\ Range(Select(mode, T)) = (T \cap Critical) \cup Range(Maybe(T))
               /\ Range(Maybe(T)) \subseteq T \ Critical
               /\ T \ Critical # {} => Range(Maybe(T)) # {}
    <3>1. T \cap Critical \in SUBSET Concept /\ T \ Critical \in SUBSET Concept
          /\ HybridSample \in Nat /\ HybridSample # 0
      BY ProbeAssumption
    <3>2. Sure(T) \in Seq(Concept) /\ Range(Sure(T)) = T \cap Critical /\ IsInjective(Sure(T))
      BY <3>1, AllInOrder
    <3>3. Maybe(T) \in Seq(Concept) /\ IsInjective(Maybe(T))
      BY <3>1, FirstInOrder
    <3>4. /\ Range(Maybe(T)) \subseteq T \ Critical
          /\ T \ Critical # {} => Range(Maybe(T)) # {}
      BY <3>1, SampleHolds
    <3>5. Select(mode, T) = Sure(T) \o Maybe(T)
      BY <2>1
    <3> HIDE DEF Sure, Maybe
    <3>6. Range(Sure(T)) \cap Range(Maybe(T)) = {}
      BY <3>2, <3>4
    <3>7. /\ Sure(T) \o Maybe(T) \in Seq(Concept) /\ IsInjective(Sure(T) \o Maybe(T))
          /\ Range(Sure(T) \o Maybe(T)) = Range(Sure(T)) \cup Range(Maybe(T))
      BY <3>2, <3>3, <3>6, ListsJoined
    <3>8. QED
      BY <3>2, <3>4, <3>5, <3>7
  <2>3. ASSUME NEW D \in SUBSET S
        PROVE  Range(Maybe(S)) \cap D \subseteq Range(Maybe(D))
    <3>1. S \ Critical \in SUBSET Concept /\ D \ Critical \in SUBSET (S \ Critical)
          /\ HybridSample \in Nat
      BY ProbeAssumption
    <3>2. Range(Maybe(S)) \cap (D \ Critical) \subseteq Range(Maybe(D))
      BY <3>1, SampleHolds
    <3>3. Range(Maybe(S)) \subseteq S \ Critical
      BY <2>2
    <3> HIDE DEF Maybe
    <3>4. QED
      BY <3>2, <3>3
  <2> HIDE DEF Sure, Maybe
  <2>4. \A D \in SUBSET S : D \in SUBSET Concept
    OBVIOUS
  <2>5. \A D \in SUBSET S : Range(Select(mode, S)) \cap D \subseteq Range(Select(mode, D))
    <3> SUFFICES ASSUME NEW D \in SUBSET S
                 PROVE  Range(Select(mode, S)) \cap D \subseteq Range(Select(mode, D))
      OBVIOUS
    <3>1. /\ Range(Select(mode, S)) = (S \cap Critical) \cup Range(Maybe(S))
          /\ Range(Select(mode, D)) = (D \cap Critical) \cup Range(Maybe(D))
      BY <2>2, <2>4
    <3>2. QED
      BY <2>3, <3>1
  <2>6. /\ Range(Select(mode, S)) \subseteq S /\ S \cap Critical \subseteq Range(Select(mode, S))
        /\ S # {} => Range(Select(mode, S)) # {}
    <3>1. /\ Range(Select(mode, S)) = (S \cap Critical) \cup Range(Maybe(S))
          /\ Range(Maybe(S)) \subseteq S \ Critical
          /\ S \ Critical # {} => Range(Maybe(S)) # {}
      BY <2>2
    <3>2. QED
      BY <3>1
  <2>7. Select(mode, S) \in Seq(Concept) /\ IsInjective(Select(mode, S))
    BY <2>2
  <2>8. QED
    BY <1>3, <2>5, <2>6, <2>7
<1>4. mode.kind \in {"strict", "sampled", "hybrid"}
  BY DEF Mode
<1>5. QED
  BY <1>1, <1>2, <1>3, <1>4
-----------------------------------------------------------------------------
(* What was selected, and the map and the policy it was selected from. *)

\* The error of the first check that fails is one of the checks' own, and where there is
\* none, no check fails.
LEMMA ErrorsOfValidate ==
  ASSUME NEW d
  PROVE  /\ Validate(d) \in {"none", "QuotaOutOfRange", "AggregateLockViolated", "MissingOwner",
                             "RedundantAssignmentPhase2", "NonPositive"}
         /\ Validate(d) = "none" => ~(d.mode.kind = "sampled" /\ d.mode.k = 0)
<1> DEFINE checks ==
             <<[fails |-> d.quota # "fraction", error |-> "QuotaOutOfRange"],
               [fails |-> ~d.aggregateOnly, error |-> "AggregateLockViolated"],
               [fails |-> d.owner = "blank", error |-> "MissingOwner"],
               [fails |-> d.assignment = "redundant", error |-> "RedundantAssignmentPhase2"],
               [fails |-> d.depth = 0 \/ d.cadence = 0, error |-> "NonPositive"],
               [fails |-> d.mode.kind = "sampled" /\ d.mode.k = 0, error |-> "NonPositive"]>>
           failing == {i \in DOMAIN checks : checks[i].fails}
           errors == {"QuotaOutOfRange", "AggregateLockViolated", "MissingOwner",
                      "RedundantAssignmentPhase2", "NonPositive"}
<1>1. Validate(d) = IF failing = {} THEN "none"
                    ELSE checks[CHOOSE i \in failing : \A j \in failing : i <= j].error
  BY Zenon DEF Validate
<1>2. DOMAIN checks = 1..6 /\ \A i \in 1..6 : checks[i].error \in errors
  <2>1. DOMAIN checks = 1..6
    OBVIOUS
  <2>2. \A i \in 1..6 : i = 1 \/ i = 2 \/ i = 3 \/ i = 4 \/ i = 5 \/ i = 6
    OBVIOUS
  <2>3. /\ checks[1].error = "QuotaOutOfRange" /\ checks[2].error = "AggregateLockViolated"
        /\ checks[3].error = "MissingOwner" /\ checks[4].error = "RedundantAssignmentPhase2"
        /\ checks[5].error = "NonPositive" /\ checks[6].error = "NonPositive"
    OBVIOUS
  <2> HIDE DEF checks
  <2>4. QED
    BY <2>1, <2>2, <2>3
<1>3. checks[6].fails = (d.mode.kind = "sampled" /\ d.mode.k = 0)
  OBVIOUS
<1> HIDE DEF checks
<1>4. failing # {} => Validate(d) \in errors
  <2> SUFFICES ASSUME failing # {}
               PROVE  Validate(d) \in errors
    OBVIOUS
  <2>1. failing \in SUBSET Nat /\ failing \subseteq 1..6
    BY <1>2
  <2> HIDE DEF failing, errors
  <2>2. \E i \in failing : \A j \in failing : i <= j
    BY <2>1, LeastNatural
  <2>3. (CHOOSE i \in failing : \A j \in failing : i <= j) \in failing
    BY <2>2
  <2>4. QED
    BY <1>1, <1>2, <2>1, <2>3
<1>5. 6 \in DOMAIN checks
  BY <1>2
<1>6. failing = {} => ~checks[6].fails
  BY <1>5
<1> HIDE DEF failing
<1>7. "none" \notin errors
  OBVIOUS
<1>8. Validate(d) = "none" => ~(d.mode.kind = "sampled" /\ d.mode.k = 0)
  BY <1>3, <1>4, <1>6, <1>7
<1>9. Validate(d) \in errors \cup {"none"}
  BY <1>1, <1>4
<1>10. QED
  BY <1>8, <1>9

LEMMA ErrorsOfLoad ==
  ASSUME NEW d
  PROVE  FromJson(d) \in {"none", "Parse", "QuotaOutOfRange", "AggregateLockViolated",
                         "MissingOwner", "RedundantAssignmentPhase2", "NonPositive"}
BY ErrorsOfValidate DEF FromJson

\* A policy that is let through has no empty sample.
LEMMA PoliciesAreValid ==
  ASSUME NEW d \in Documents, FromJson(d) = "none"
  PROVE  d.mode \in Mode /\ Valid(d.mode)
<1>1. d.mode \in Mode
  BY MasteryAssumption DEF Document
<1>2. Validate(d) = "none"
  BY DEF FromJson
<1>3. QED
  BY <1>1, <1>2, ErrorsOfValidate DEF Valid

\* A link about to be inserted is of a concept that was found, and concepts stay.
CoverageInv ==
  /\ CoverageTypeOK
  /\ \A l \in Linker : linking[l] # NoLink => linking[l].concept \in concepts

\* The policy in force was let through; what was selected last is what its mode makes of
\* the concepts that were dark.
SelectionInv ==
  /\ CoverageInv /\ MasteryTypeOK
  /\ mastery # NoPolicy => mastery.mode \in Mode /\ Valid(mastery.mode)
  /\ selection # NoSelection =>
       /\ selection.mode \in Mode /\ Valid(selection.mode) /\ selection.seen \in SUBSET Concept
       /\ selection = [mode |-> selection.mode, seen |-> selection.seen,
                       list |-> Select(selection.mode, selection.seen)]

LEMMA CoverageKept ==
  ASSUME CoverageInv, [CoverageNext]_coverageVars
  PROVE  CoverageInv'
<1>1. /\ concepts \subseteq Concept
      /\ references \subseteq Link /\ \A r \in references : r.to \in Ref /\ r.concept \in concepts
      /\ held \in [Concept -> [Person -> {"never", "living", "decayed"}]]
      /\ \A c \in Concept, p \in Person : held[c][p] # "never" => c \in concepts
      /\ linking \in [Linker -> Link \cup {NoLink}]
      /\ \A l \in Linker : linking[l] # NoLink => linking[l].concept \in concepts
  BY DEF CoverageInv, CoverageTypeOK
<1>2. ASSUME NEW l \in Linker, NEW c \in Concept, AddConcept(l, c)
      PROVE  CoverageInv'
  BY <1>1, <1>2 DEF AddConcept, CoverageInv, CoverageTypeOK
<1>3. ASSUME NEW l \in Linker, NEW link \in Link, EnsureExists(l, link)
      PROVE  CoverageInv'
  BY <1>1, <1>3 DEF EnsureExists, CoverageInv, CoverageTypeOK
<1>4. ASSUME NEW l \in Linker, LinkFails(l)
      PROVE  CoverageInv'
  BY <1>1, <1>4 DEF LinkFails, CoverageInv, CoverageTypeOK
<1>5. ASSUME NEW l \in Linker, NEW c \in Concept, NEW p \in Person, Decay(l, c, p)
      PROVE  CoverageInv'
  BY <1>1, <1>5 DEF Decay, CoverageInv, CoverageTypeOK
<1>6. ASSUME NEW l \in Linker, InsertLink(l)
      PROVE  CoverageInv'
  <2> DEFINE link == linking[l]
  <2>1. /\ link \in Link /\ link.concept \in concepts /\ concepts' = concepts
        /\ linking' = [linking EXCEPT ![l] = NoLink]
    BY <1>1, <1>6 DEF InsertLink, Idle
  <2>2. link.concept \in Concept /\ (link.to \notin Ref => link.to \in Person)
    BY <2>1 DEF Link
  <2>3. CASE link.to \in Ref
    <3>1. references' = references \cup {link} /\ held' = held
      BY <1>6, <2>3 DEF InsertLink
    <3> HIDE DEF link
    <3>2. QED
      BY <1>1, <2>1, <2>3, <3>1 DEF CoverageInv, CoverageTypeOK
  <2>4. CASE link.to \notin Ref
    <3>1. references' = references /\ held' = [held EXCEPT ![link.concept][link.to] = "living"]
      BY <1>6, <2>4 DEF InsertLink
    <3> HIDE DEF link
    <3>2. QED
      BY <1>1, <2>1, <2>2, <2>4, <3>1 DEF CoverageInv, CoverageTypeOK
  <2>5. QED
    BY <2>3, <2>4
<1>7. CASE UNCHANGED coverageVars
  BY <1>1, <1>7 DEF coverageVars, CoverageInv, CoverageTypeOK
<1>8. QED
  BY <1>2, <1>3, <1>4, <1>5, <1>6, <1>7 DEF CoverageNext, LinkerStep

LEMMA DarkIsOfConcepts ==
  ASSUME CoverageInv
  PROVE  Dark \in SUBSET Concept
BY DEF CoverageInv, CoverageTypeOK, Dark

LEMMA SelectionKept ==
  ASSUME SelectionInv, [PracticeNext]_practiceVars
  PROVE  SelectionInv'
<1>1. CASE UNCHANGED <<selection, masteryVars>> /\ [CoverageNext]_coverageVars
  <2>1. CoverageInv'
    BY <1>1, CoverageKept DEF SelectionInv
  <2>2. QED
    BY <1>1, <2>1 DEF SelectionInv, masteryVars, MasteryTypeOK
<1>2. ASSUME NEW d \in Documents, Load(d), UNCHANGED <<coverageVars, selection>>
      PROVE  SelectionInv'
  <2>1. CoverageInv'
    BY <1>2 DEF SelectionInv, coverageVars, CoverageInv, CoverageTypeOK
  <2>2. FromJson(d) = "none" => d.mode \in Mode /\ Valid(d.mode)
    BY PoliciesAreValid
  <2>3. MasteryTypeOK'
    <3>1. FromJson(d) \in {"none", "Parse", "QuotaOutOfRange", "AggregateLockViolated",
                           "MissingOwner", "RedundantAssignmentPhase2", "NonPositive"}
      BY ErrorsOfLoad
    <3>2. QED
      BY <1>2, <3>1 DEF Load, SelectionInv, MasteryTypeOK
  <2>4. mastery' # NoPolicy => mastery'.mode \in Mode /\ Valid(mastery'.mode)
    BY <1>2, <2>2 DEF Load, SelectionInv
  <2>5. QED
    BY <1>2, <2>1, <2>3, <2>4 DEF SelectionInv
<1>3. ASSUME NEW calibration \in Calibrations, SelectProbes(calibration),
             UNCHANGED <<coverageVars, masteryVars>>
      PROVE  SelectionInv'
  <2>1. CoverageInv' /\ MasteryTypeOK'
    BY <1>3 DEF SelectionInv, coverageVars, CoverageInv, CoverageTypeOK, masteryVars, MasteryTypeOK
  <2>2. /\ selection' = [mode |-> mastery.mode, seen |-> Dark, list |-> Select(mastery.mode, Dark)]
        /\ mastery # NoPolicy /\ mastery' = mastery
    BY <1>3 DEF SelectProbes, masteryVars
  <2>3. mastery.mode \in Mode /\ Valid(mastery.mode) /\ Dark \in SUBSET Concept
    BY <2>2, DarkIsOfConcepts DEF SelectionInv
  <2>4. selection'.mode = mastery.mode /\ selection'.seen = Dark
    BY <2>2
  <2>5. selection' = [mode |-> selection'.mode, seen |-> selection'.seen,
                      list |-> Select(selection'.mode, selection'.seen)]
    BY <2>2, <2>4
  <2>6. QED
    BY <2>1, <2>2, <2>3, <2>4, <2>5 DEF SelectionInv
<1>4. CASE HuntsAlone \/ LadderAlone \/ UNCHANGED practiceVars
  <2>1. UNCHANGED <<selection, masteryVars, coverageVars>>
    BY <1>4 DEF HuntsAlone, LadderAlone, LadderStep, Prepare, Forget, Run, practiceVars, probeVars
  <2>2. QED
    BY <1>1, <2>1
<1>5. CASE SelectionAlone
  <2>1. CASE CoverageNext /\ UNCHANGED <<masteryVars, probeVars>>
    BY <1>1, <2>1 DEF probeVars
  <2>2. CASE (\E d \in Documents : Load(d)) /\ UNCHANGED <<coverageVars, probeVars>>
    BY <1>2, <2>2 DEF probeVars
  <2>3. CASE (\E calibration \in Calibrations : SelectProbes(calibration))
             /\ UNCHANGED <<coverageVars, masteryVars>>
    BY <1>3, <2>3
  <2>4. QED
    BY <1>5, <2>1, <2>2, <2>3 DEF SelectionAlone
<1>6. QED
  BY <1>4, <1>5 DEF PracticeNext

LEMMA SelectionStays == FairPracticeSpec => []SelectionInv
<1>1. PracticeInit => SelectionInv
  <2> SUFFICES ASSUME PracticeInit
               PROVE  SelectionInv
    OBVIOUS
  <2>1. mastery = NoPolicy /\ refusal = "none" /\ selection = NoSelection
    BY DEF PracticeInit, MasteryInit, ProbeInit
  <2>2. CoverageInv
    BY DEF PracticeInit, CoverageInit, CoverageInv, CoverageTypeOK
  <2>3. QED
    BY <2>1, <2>2 DEF SelectionInv, MasteryTypeOK
<1>2. SelectionInv /\ [PracticeNext]_practiceVars => SelectionInv'
  BY SelectionKept
<1>3. QED
  BY <1>1, <1>2, PTL DEF FairPracticeSpec

\* What to probe (CG-19), under every policy that is let through and whatever becomes of
\* the map afterwards: something is named while anything is dark, nothing that a strict
\* or hybrid policy wants is left out, and who is still dark keeps the place.
THEOREM SelectionsDoHold == FairPracticeSpec => []SelectionHolds
<1>1. SelectionInv => SelectionHolds
  <2> SUFFICES ASSUME SelectionInv, selection # NoSelection
               PROVE  SelectionHolds
    BY DEF SelectionHolds
  <2> DEFINE mode == selection.mode
             seen == selection.seen
  <2>1. /\ mode \in Mode /\ Valid(mode) /\ seen \in SUBSET Concept
        /\ selection.list = Select(mode, seen)
    BY DEF SelectionInv
  <2>2. Dark \subseteq seen => Dark \in SUBSET seen
    OBVIOUS
  <2> HIDE DEF mode, seen
  <2>3. /\ Range(Select(mode, seen)) \subseteq seen
        /\ seen # {} => Range(Select(mode, seen)) # {}
        /\ IsInjective(Select(mode, seen))
        /\ mode.kind = "strict" => seen \subseteq Range(Select(mode, seen))
        /\ mode.kind = "hybrid" => seen \cap Critical \subseteq Range(Select(mode, seen))
        /\ Dark \subseteq seen =>
             Range(Select(mode, seen)) \cap Dark \subseteq Range(Select(mode, Dark))
    BY <2>1, <2>2, SelectionsHold
  <2>4. QED
    BY <2>1, <2>3 DEF SelectionHolds, mode, seen
<1>2. QED
  BY <1>1, SelectionStays, PTL
-----------------------------------------------------------------------------
(* Types. *)

LEMMA ExecuteStepTyped ==
  ASSUME HuntTypeOK, DOMAIN result = Execution, NEW h \in Execution, ExecuteStep(h), UNCHANGED huntVars
  PROVE  HuntTypeOK'
<1>1. /\ pc \in [Execution -> {"idle", "compile", "limits", "start", "run", "returned"}]
      /\ module \in [Execution -> Module \cup {NoModule}]
      /\ \A e \in Execution : pc[e] = "idle" <=> module[e] = NoModule
      /\ done \in [Execution -> Nat]
      /\ left \in [Execution -> 0..(Ticks + 1)]
      /\ \A e \in Execution : result[e] \in IF pc[e] = "returned" THEN Result ELSE {"none"}
  BY DEF HuntTypeOK
<1>2. pc[h] \in {"compile", "limits", "start", "run"}
  BY DEF ExecuteStep, CompileModule, SetDeadline, Instantiate, DoWork, Interrupt, Finish, AtCheck
<1>3. module[h] \in Module /\ module[h].ends \in Ending /\ Ticks \in Nat
  BY <1>1, <1>2, SandboxAssumption DEF AnyModule
<1>4. ASSUME NEW place \in {"limits", "start", "run", "returned"}, pc' = [pc EXCEPT ![h] = place],
             done' \in [Execution -> Nat], left' \in [Execution -> 0..(Ticks + 1)], module' = module,
             \A e \in Execution : e # h => result'[e] = result[e],
             result'[h] \in IF place = "returned" THEN Result ELSE {"none"}
      PROVE  HuntTypeOK'
  <2>1. /\ pc' \in [Execution -> {"idle", "compile", "limits", "start", "run", "returned"}]
        /\ pc'[h] = place /\ \A e \in Execution : e # h => pc'[e] = pc[e]
    BY <1>1, <1>4
  <2>2. \A e \in Execution : pc'[e] = "idle" <=> module'[e] = NoModule
    BY <1>1, <1>2, <1>4, <2>1
  <2>3. \A e \in Execution : result'[e] \in IF pc'[e] = "returned" THEN Result ELSE {"none"}
    BY <1>1, <1>4, <2>1
  <2>4. UNCHANGED <<survived, depth, verdicts, defects>>
    BY DEF huntVars
  <2>5. QED
    BY <1>1, <1>4, <2>1, <2>2, <2>3, <2>4 DEF HuntTypeOK
<1>5. ASSUME NEW what \in Result, Return(h, what)
      PROVE  HuntTypeOK'
  <2>1. /\ pc' = [pc EXCEPT ![h] = "returned"] /\ module' = module
        /\ done' \in [Execution -> Nat] /\ left' \in [Execution -> 0..(Ticks + 1)]
    BY <1>1, <1>3, <1>5 DEF Return, Goto
  <2>2. result' = [result EXCEPT ![h] = what]
    BY <1>5 DEF Return
  <2>3. result'[h] = what /\ \A e \in Execution : e # h => result'[e] = result[e]
    BY <2>2
  <2>4. QED
    BY <1>4, <1>5, <2>1, <2>3
<1>6. ASSUME NEW place \in {"limits", "start", "run"}, Goto(h, place),
             done' \in [Execution -> Nat], left' \in [Execution -> 0..(Ticks + 1)],
             UNCHANGED <<module, result>>
      PROVE  HuntTypeOK'
  <2>1. result'[h] = "none"
    BY <1>1, <1>2, <1>6
  <2>2. QED
    BY <1>4, <1>6, <2>1 DEF Goto
<1>7. CASE CompileModule(h)
  BY <1>1, <1>5, <1>6, <1>7 DEF CompileModule, Result
<1>8. CASE SetDeadline(h)
  <2>1. left' \in [Execution -> 0..(Ticks + 1)]
    BY <1>1, <1>3, <1>8 DEF SetDeadline
  <2>2. QED
    BY <1>1, <1>6, <1>8, <2>1 DEF SetDeadline
<1>9. CASE Instantiate(h)
  <2>1. CASE Return(h, "Trap")
    BY <1>5, <2>1 DEF Result
  <2>2. CASE Goto(h, "run") /\ done' = [done EXCEPT ![h] = 0] /\ UNCHANGED <<module, left, result>>
    BY <1>1, <1>6, <2>2
  <2>3. QED
    BY <1>9, <2>1, <2>2 DEF Instantiate
<1>10. CASE DoWork(h)
  <2>1. done' \in [Execution -> Nat] /\ UNCHANGED <<pc, module, left, result>>
    BY <1>1, <1>10 DEF DoWork
  <2>2. QED
    BY <1>1, <2>1 DEF HuntTypeOK, huntVars
<1>11. CASE Interrupt(h)
  BY <1>5, <1>11 DEF Interrupt, Result
<1>12. CASE Finish(h)
  BY <1>3, <1>5, <1>12 DEF Finish, Result, Ending
<1>13. QED
  BY <1>7, <1>8, <1>9, <1>10, <1>11, <1>12 DEF ExecuteStep

LEMMA HuntTyped ==
  ASSUME HuntTypeOK, DOMAIN result = Execution, [PracticeNext]_practiceVars
  PROVE  HuntTypeOK'
<1>1. /\ pc \in [Execution -> {"idle", "compile", "limits", "start", "run", "returned"}]
      /\ module \in [Execution -> Module \cup {NoModule}]
      /\ \A e \in Execution : pc[e] = "idle" <=> module[e] = NoModule
      /\ done \in [Execution -> Nat]
      /\ left \in [Execution -> 0..(Ticks + 1)]
      /\ \A e \in Execution : result[e] \in IF pc[e] = "returned" THEN Result ELSE {"none"}
      /\ survived \in [Execution -> BOOLEAN]
      /\ depth \in [Execution -> 0..MaxLadderDepth]
      /\ verdicts \in [Module -> SUBSET Verdict]
      /\ defects \subseteq Module
      /\ Ticks \in Nat /\ MaxLadderDepth \in Nat
  BY SandboxAssumption, HuntAssumption DEF HuntTypeOK
<1>2. ASSUME NEW h \in Execution, NEW m \in Module, Hunt(h, m) \/ BreakItAgain(h, m)
      PROVE  HuntTypeOK'
  <2>1. /\ pc[h] = "idle" /\ pc' = [pc EXCEPT ![h] = "compile"] /\ module' = [module EXCEPT ![h] = m]
        /\ survived' = [survived EXCEPT ![h] = FALSE]
        /\ UNCHANGED <<done, left, result, verdicts, defects>>
    BY <1>2 DEF Hunt, BreakItAgain, Execute, Goto
  <2>2. m # NoModule
    BY SandboxAssumption
  <2>3. depth' \in [Execution -> 0..MaxLadderDepth]
    <3>1. CASE depth' = [depth EXCEPT ![h] = 0]
      BY <1>1, <3>1
    <3>2. CASE depth[h] < MaxLadderDepth /\ depth' = [depth EXCEPT ![h] = @ + 1]
      BY <1>1, <3>2
    <3>3. QED
      BY <1>2, <3>1, <3>2 DEF Hunt, BreakItAgain
  <2>4. \A e \in Execution : result'[e] \in IF pc'[e] = "returned" THEN Result ELSE {"none"}
    BY <1>1, <2>1
  <2>5. survived' \in [Execution -> BOOLEAN]
    BY <1>1, <2>1
  <2>6. QED
    BY <1>1, <2>1, <2>2, <2>3, <2>4, <2>5 DEF HuntTypeOK
<1>3. ASSUME NEW h \in Execution, Judge(h)
      PROVE  HuntTypeOK'
  <2> DEFINE verdict == VerdictOn(result[h])
             good == verdict = {"Survived"}
             m == module[h]
  <2>1. /\ pc[h] = "returned" /\ pc' = [pc EXCEPT ![h] = "idle"]
        /\ module' = [module EXCEPT ![h] = NoModule] /\ result' = [result EXCEPT ![h] = "none"]
        /\ UNCHANGED <<done, left, depth>>
        /\ survived' = [survived EXCEPT ![h] = good]
        /\ verdicts' = [verdicts EXCEPT ![m] = @ \cup verdict]
        /\ defects' = IF verdict = {"Broke"} THEN defects \cup {m} ELSE defects
    BY <1>3 DEF Judge, Goto
  <2>2. m \in Module /\ verdict \subseteq Verdict
    BY <1>1, <2>1 DEF VerdictOn, Verdict
  <2>3. good \in BOOLEAN
    OBVIOUS
  <2> HIDE DEF verdict, good, m
  <2>4. survived' \in [Execution -> BOOLEAN]
    BY <1>1, <2>1, <2>3
  <2>5. verdicts' \in [Module -> SUBSET Verdict] /\ defects' \subseteq Module
    BY <1>1, <2>1, <2>2
  <2>6. \A e \in Execution : result'[e] \in IF pc'[e] = "returned" THEN Result ELSE {"none"}
    BY <1>1, <2>1
  <2>7. QED
    BY <1>1, <2>1, <2>4, <2>5, <2>6 DEF HuntTypeOK
<1>4. CASE UNCHANGED vars
  BY <1>1, <1>4 DEF vars, sandboxVars, huntVars, HuntTypeOK
<1>5. CASE Tick /\ UNCHANGED huntVars
  <2>1. /\ left' = [e \in Execution |-> IF left[e] > 0 THEN left[e] - 1 ELSE 0]
        /\ UNCHANGED <<pc, module, done, result, survived, depth, verdicts, defects>>
    BY <1>5 DEF Tick, huntVars
  <2>2. left' \in [Execution -> 0..(Ticks + 1)]
    BY <1>1, <2>1
  <2>3. QED
    BY <1>1, <2>1, <2>2 DEF HuntTypeOK
<1>6. CASE HuntNext
  BY <1>2, <1>3, <1>5, <1>6, ExecuteStepTyped DEF HuntNext, HuntStep
<1>7. QED
  BY <1>4, <1>6 DEF PracticeNext, HuntsAlone, SelectionAlone, LadderAlone, practiceVars

\* What the ladder keeps: concepts credited are those of the probes kept for the suite.
KeepingOK ==
  /\ mastered = Range(crystallised)
  /\ crystallised \in Seq(Concept) /\ signals \in Seq(Concept)

LEMMA KeepingKept ==
  ASSUME KeepingOK, prepared \subseteq Probe, [PracticeNext]_practiceVars
  PROVE  KeepingOK'
<1>1. ASSUME NEW s \in Seq(Concept), NEW c \in Concept
      PROVE  Append(s, c) \in Seq(Concept) /\ Range(Append(s, c)) = Range(s) \cup {c}
  <2>1. /\ Append(s, c) \in Seq(Concept) /\ Len(s) \in Nat /\ DOMAIN s = 1..Len(s)
        /\ DOMAIN Append(s, c) = 1..(Len(s) + 1) /\ Append(s, c)[Len(s) + 1] = c
        /\ \A i \in 1..Len(s) : Append(s, c)[i] = s[i]
    OBVIOUS
  <2>2. 1..(Len(s) + 1) = 1..Len(s) \cup {Len(s) + 1}
    BY <2>1
  <2> DEFINE t == Append(s, c)
  <2> HIDE DEF t
  <2>3. DOMAIN t = DOMAIN s \cup {Len(s) + 1} /\ t[Len(s) + 1] = c /\ \A i \in DOMAIN s : t[i] = s[i]
    BY <2>1, <2>2 DEF t
  <2>4. Range(t) = Range(s) \cup {c}
    BY <2>3 DEF Range
  <2>5. QED
    BY <2>1, <2>4 DEF t
<1>2. ASSUME NEW probe \in prepared, NEW passes \in BOOLEAN, Run(probe, passes)
      PROVE  KeepingOK'
  <2> DEFINE c == probe.concept
             credits == passes /\ ~probe.scaffolded
  <2>1. c \in Concept
    BY DEF Probe
  <2>2. /\ mastered' = IF credits THEN mastered \cup {c} ELSE mastered
        /\ crystallised' = IF credits THEN Append(crystallised, c) ELSE crystallised
        /\ signals' = Append(signals, c) \/ signals' = signals
    BY <1>2 DEF Run
  <2> HIDE DEF c, credits
  <2>3. QED
    BY <1>1, <2>1, <2>2 DEF KeepingOK
<1>3. CASE UNCHANGED <<mastered, crystallised, signals>>
  BY <1>3 DEF KeepingOK
<1>4. CASE LadderAlone
  BY <1>2, <1>3, <1>4 DEF LadderAlone, LadderStep, Prepare, Forget
<1>5. CASE HuntsAlone \/ SelectionAlone \/ UNCHANGED practiceVars
  BY <1>3, <1>5 DEF HuntsAlone, SelectionAlone, SelectProbes, practiceVars, probeVars, ladderVars
<1>6. QED
  BY <1>4, <1>5 DEF PracticeNext

\* Hunts, map, policy and probes hold what they are declared to hold: among it, a module
\* for every execution under way and no result before it has returned, links of
\* registered concepts only, and credit for no concept without a probe kept for it.
THEOREM PracticeTypeCorrect == FairPracticeSpec => []PracticeTypeOK
<1>1. PracticeInit => HuntInv /\ LadderInv
  BY DEF PracticeInit, HuntInit, SandboxInit, HuntInv, ExecutionOK, VerdictIsUnhurried,
         ProbeInit, LadderInv, StaircaseFollows, Rung, Top
<1>2. PracticeInit => HuntTypeOK
  BY SandboxAssumption, HuntAssumption
  DEF PracticeInit, HuntInit, SandboxInit, HuntTypeOK
<1>3. PracticeInit => KeepingOK
  BY DEF PracticeInit, ProbeInit, KeepingOK, Range
<1>4. HuntTypeOK /\ HuntInv /\ LadderInv /\ KeepingOK /\ [PracticeNext]_practiceVars
        => (HuntTypeOK /\ HuntInv /\ LadderInv /\ KeepingOK)'
  <2> SUFFICES ASSUME HuntTypeOK, HuntInv, LadderInv, KeepingOK, [PracticeNext]_practiceVars
               PROVE  HuntTypeOK' /\ HuntInv' /\ LadderInv' /\ KeepingOK'
    OBVIOUS
  <2>1. DOMAIN result = Execution
    BY DEF HuntInv
  <2>2. prepared \subseteq Probe
    BY DEF LadderInv
  <2>3. QED
    BY <2>1, <2>2, HuntTyped, HuntKept, LadderKept, KeepingKept
<1>5. HuntTypeOK /\ LadderInv /\ KeepingOK /\ SelectionInv => PracticeTypeOK
  <2> SUFFICES ASSUME HuntTypeOK, LadderInv, KeepingOK, SelectionInv
               PROVE  PracticeTypeOK
    OBVIOUS
  <2>1. selection \in {NoSelection} \cup [mode : Mode, seen : SUBSET Concept, list : Seq(Concept)]
    <3> SUFFICES ASSUME selection # NoSelection
                 PROVE  selection \in [mode : Mode, seen : SUBSET Concept, list : Seq(Concept)]
      OBVIOUS
    <3> DEFINE mode == selection.mode
               seen == selection.seen
               list == Select(mode, seen)
    <3>1. /\ mode \in Mode /\ Valid(mode) /\ seen \in SUBSET Concept
          /\ selection = [mode |-> mode, seen |-> seen, list |-> list]
      BY DEF SelectionInv
    <3> HIDE DEF mode, seen
    <3>2. list \in Seq(Concept)
      BY <3>1, SelectionsHold
    <3> HIDE DEF list
    <3>3. QED
      BY <3>1, <3>2
  <2>2. ProbeTypeOK
    BY <2>1 DEF LadderInv, KeepingOK, ProbeTypeOK
  <2>3. QED
    BY <2>2 DEF SelectionInv, CoverageInv, PracticeTypeOK
<1>6. QED
  BY <1>1, <1>2, <1>3, <1>4, <1>5, SelectionStays, PTL DEF FairPracticeSpec
=============================================================================
