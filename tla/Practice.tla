------------------------------ MODULE Practice ------------------------------
(***************************************************************************)
(* How what a person understands is tried: hunts on the sandbox, and the   *)
(* probes that are the fallback for what is still dark on the coverage     *)
(* map.  The hunt harness, the selection of concepts from the map, and the *)
(* ladder of graded probes share no state, so their steps commute: a       *)
(* behaviour is looked at with only one of them moving.                    *)
(***************************************************************************)
EXTENDS HuntHarness, ProbeLadder

VARIABLE part \* which of them moves

practiceVars == <<vars, coverageVars, masteryVars, probeVars, part>>

PracticeInit ==
  /\ HuntInit /\ CoverageInit /\ MasteryInit /\ ProbeInit
  /\ part \in {"hunts", "selection", "ladder"}
  /\ part # "ladder" => rung = 0

HuntsAlone ==
  /\ part = "hunts"
  /\ HuntNext
  /\ UNCHANGED <<coverageVars, masteryVars, probeVars, part>>

\* The map changes, the owner loads a policy, the host asks what to probe.
SelectionAlone ==
  /\ part = "selection"
  /\ \/ CoverageNext /\ UNCHANGED <<masteryVars, probeVars>>
     \/ /\ \E d \in Documents : Load(d)
        /\ UNCHANGED <<coverageVars, probeVars>>
     \/ /\ \E calibration \in Calibrations : SelectProbes(calibration)
        /\ UNCHANGED <<coverageVars, masteryVars>>
  /\ UNCHANGED <<vars, part>>

LadderAlone ==
  /\ part = "ladder"
  /\ LadderStep
  /\ UNCHANGED <<vars, coverageVars, masteryVars, part>>

PracticeNext == HuntsAlone \/ SelectionAlone \/ LadderAlone

\* An execution goes on while it may, on whatever share of the host.  The epoch need
\* not move, and nobody has to hunt, to probe or to be probed.
FairPracticeSpec ==
  /\ PracticeInit /\ [][PracticeNext]_practiceVars
  /\ \A h \in Execution : WF_vars(HuntStep(h))
-----------------------------------------------------------------------------
\* The variables of every part have their types.
PracticeTypeOK == HuntTypeOK /\ CoverageTypeOK /\ MasteryTypeOK /\ ProbeTypeOK
=============================================================================
