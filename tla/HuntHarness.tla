---------------------------- MODULE HuntHarness ----------------------------
(***************************************************************************)
(* The hunt harness (crates/plugin-hunt-harness/src/lib.rs) on the         *)
(* sandbox: a human's test module is run against the output of the agent.  *)
(* The harness turns what the sandbox returns into a verdict, opens a      *)
(* defect when the work broke, and offers a harder test when it survived.  *)
(* Several hunts run at once.                                              *)
(*                                                                         *)
(* A hunt of one module is a hunt against one output; that one module      *)
(* meets another output is another module here.  The concepts a test       *)
(* exercises are left out.                                                 *)
(***************************************************************************)
EXTENDS Sandbox

CONSTANT MaxLadderDepth \* max_ladder_depth, of escalate

ASSUME HuntAssumption == MaxLadderDepth \in Nat

VARIABLES
  survived, \* whether the last hunt of each hunter survived
  depth,    \* how often each hunter was asked to break it again
  verdicts, \* history variable: the verdicts given, per module
  defects   \* modules whose DefectRecord was opened

huntVars == <<survived, depth, verdicts, defects>>
vars == <<sandboxVars, huntVars>>

Verdict == {"Survived", "Broke"}

HuntInit ==
  /\ SandboxInit
  /\ survived = [h \in Execution |-> FALSE]
  /\ depth = [h \in Execution |-> 0]
  /\ verdicts = [m \in Module |-> {}]
  /\ defects = {}

-----------------------------------------------------------------------------
\* HuntHarness::run calls execute.
Execute(h, m) ==
  /\ pc[h] = "idle"
  /\ module' = [module EXCEPT ![h] = m]
  /\ Goto(h, "compile")
  /\ survived' = [survived EXCEPT ![h] = FALSE]
  /\ UNCHANGED <<done, left, result, verdicts, defects>>

\* A first hunt.
Hunt(h, m) ==
  /\ Execute(h, m)
  /\ depth' = [depth EXCEPT ![h] = 0]

\* Mutant: a test that timed out counts as broken.
VerdictOn_TimeoutBreaks(returned) ==
  CASE returned = "Ok true byte" -> {"Survived"}
    [] returned \in {"Ok no true byte", "Trap", "Timeout"} -> {"Broke"}
    [] OTHER -> {}

\* No verdict is the HuntError of a test that could not be executed.
VerdictOn(returned) ==
  CASE returned = "Ok true byte" -> {"Survived"}
    [] returned \in {"Ok no true byte", "Trap"} -> {"Broke"}
    [] OTHER -> {}

\* The rest of run: the verdict, and a defect if the work broke.
Judge(h) ==
  /\ pc[h] = "returned"
  /\ LET verdict == VerdictOn(result[h]) IN
     /\ survived' = [survived EXCEPT ![h] = verdict = {"Survived"}]
     /\ verdicts' = [verdicts EXCEPT ![module[h]] = @ \cup verdict]
     /\ defects' = IF verdict = {"Broke"} THEN defects \cup {module[h]} ELSE defects
  /\ Goto(h, "idle")
  /\ module' = [module EXCEPT ![h] = NoModule]
  /\ result' = [result EXCEPT ![h] = "none"]
  /\ UNCHANGED <<done, left, depth>>

\* Mutant: the cap of the ladder is not looked at.
BreakItAgain_NoCap(h, m) ==
  /\ survived[h]
  /\ Execute(h, m)
  /\ depth' = [depth EXCEPT ![h] = @ + 1]

\* escalate, and the hunter takes the offer with another test.
BreakItAgain(h, m) ==
  /\ survived[h]
  /\ depth[h] < MaxLadderDepth
  /\ Execute(h, m)
  /\ depth' = [depth EXCEPT ![h] = @ + 1]

HuntStep(h) == (ExecuteStep(h) /\ UNCHANGED huntVars) \/ Judge(h)

HuntNext ==
  \/ \E h \in Execution :
       \/ HuntStep(h)
       \/ \E m \in Module : Hunt(h, m) \/ BreakItAgain(h, m)
  \/ Tick /\ UNCHANGED huntVars

HuntSpec == HuntInit /\ [][HuntNext]_vars
-----------------------------------------------------------------------------
(* Properties. *)

HuntTypeOK ==
  /\ pc \in [Execution -> {"idle", "compile", "limits", "start", "run", "returned"}]
  /\ module \in [Execution -> Module \cup {NoModule}]
  /\ \A e \in Execution : pc[e] = "idle" <=> module[e] = NoModule
  /\ done \in [Execution -> Nat]
  /\ left \in [Execution -> 0..(Ticks + 1)]
  /\ \A e \in Execution : result[e] \in IF pc[e] = "returned" THEN Result ELSE {"none"}
  /\ survived \in [Execution -> BOOLEAN]
  /\ depth \in [Execution -> 0..MaxLadderDepth]
  /\ verdicts \in [Module -> SUBSET Verdict]
  /\ defects \subseteq Module

\* What a test says when it has the host to itself: its assertion holds or fails.
Unhurried(m) == IF m.ends = "true byte" THEN {"Survived"} ELSE {"Broke"}

\* Load never makes a verdict (CG-4): a test that fits and keeps its work in run is
\* judged by its assertion or not at all, however slow the host was and whatever
\* else was executed, and a defect stands for an assertion that failed.
VerdictIsUnhurried ==
  \A m \in Module :
    m.form = "fits" /\ m.start = 0 =>
      /\ verdicts[m] \subseteq Unhurried(m)
      /\ m.ends = "out of fuel" => verdicts[m] = {}
      /\ m \in defects => m.ends \in {"no true byte", "trap"}

\* Every execution comes back, however the epoch moves: also one whose module would
\* loop, out of fuel or out of time.
ExecutionsReturn == \A h \in Execution : pc[h] # "idle" ~> pc[h] = "idle"
=============================================================================
