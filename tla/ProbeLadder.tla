---------------------------- MODULE ProbeLadder ----------------------------
(***************************************************************************)
(* The probe ladder (crates/plugin-probe-ladder/src/lib.rs), the fallback  *)
(* for concepts still dark on the coverage map: which of them are probed   *)
(* under the mastery policy, and the staircase of graded probes.  What is  *)
(* selected is a list made at one moment; the map and the policy go on     *)
(* while it is worked through.  A probe carries the rung it was made for   *)
(* and may be answered after others.                                       *)
(*                                                                         *)
(* The caller is external: it asks with the dark concepts of the map and   *)
(* makes probes at the rung the ladder shows.  Predicted and actual output *)
(* are compared byte by byte, which is kept as whether they agree.         *)
(***************************************************************************)
EXTENDS CoverageMap, MasteryPolicy, Integers, Sequences, FiniteSetsExt, Functions

CONSTANTS
  ById,         \* the concepts in the order of their ids
  Critical,     \* concepts the host passes as high-criticality
  HybridSample, \* sample_k of the host's hybrid mode; the policy has no such field
  Calibrations, \* scores of the reader, in percent
  NoSelection,  \* nothing was selected yet
  MaxGraded,    \* bound: probes graded
  MaxPrepared   \* bound: probes made and not answered yet

FadeThreshold == 85 \* FADE_THRESHOLD 0.85, in percent

ASSUME ProbeAssumption ==
  /\ ById \in Seq(Concept) /\ Range(ById) = Concept /\ IsInjective(ById)
  /\ Critical \subseteq Concept
  /\ HybridSample \in Nat \ {0}
  /\ Calibrations \subseteq 0..100
  /\ MaxGraded \in Nat /\ MaxPrepared \in Nat

Top == 4
Rung == 0..Top

Probe == [concept : Concept, rung : Rung, scaffolded : BOOLEAN, anomalous : BOOLEAN]

VARIABLES
  selection,    \* what select_probes returned, the mode, and the dark concepts it was given
  rung,         \* the rung of the ladder
  prepared,     \* probes made and not answered
  mastered,     \* concepts credited
  crystallised, \* passed probes for the regression suite
  signals,      \* concepts with a design-defect signal
  streak        \* history variable: passes in a row, or misses as a negative number

ladderVars == <<rung, prepared, mastered, crystallised, signals, streak>>
probeVars == <<selection, ladderVars>>

ProbeInit ==
  /\ selection = NoSelection
  /\ rung \in Rung \* new and starting_at
  /\ prepared = {} /\ mastered = {}
  /\ crystallised = <<>> /\ signals = <<>>
  /\ streak = 0

-----------------------------------------------------------------------------
\* The concepts of a set in the order of their ids: the n-th stands where as many were
\* found as n says.
InOrder(S) ==
  LET at == {i \in DOMAIN ById : ById[i] \in S}
  IN  [n \in 1..Cardinality(at) |-> ById[CHOOSE i \in at : Cardinality(at \cap 1..i) = n]]

\* The first k of a list, or all there are.
First(k, list) == SubSeq(list, 1, Min({k, Len(list)}))

\* The selection of select_probes.
Select(mode, dark) ==
  CASE mode.kind = "strict" -> InOrder(dark)
    [] mode.kind = "sampled" -> First(mode.k, InOrder(dark))
    [] mode.kind = "hybrid" ->
         InOrder(dark \cap Critical) \o First(HybridSample, InOrder(dark \ Critical))

\* select_probes; at or above the threshold it is Faded and selects nothing.
SelectProbes(calibration) ==
  /\ mastery # NoPolicy
  /\ calibration < FadeThreshold
  /\ selection' = [mode |-> mastery.mode, seen |-> Dark, list |-> Select(mastery.mode, Dark)]
  /\ UNCHANGED ladderVars

\* The caller makes a probe at the rung it is shown.
Prepare(concept, scaffolded, anomalous) ==
  /\ Cardinality(prepared) < MaxPrepared
  /\ prepared' = prepared \cup
       {[concept |-> concept, rung |-> rung, scaffolded |-> scaffolded, anomalous |-> anomalous]}
  /\ UNCHANGED <<selection, rung, mastered, crystallised, signals, streak>>

\* A probe is never answered.
Forget(probe) ==
  /\ prepared' = prepared \ {probe}
  /\ UNCHANGED <<selection, rung, mastered, crystallised, signals, streak>>

\* Mutant: the last rung cannot be reached.
Up_OffByOne(r) == Min({r + 1, Top - 1})

Up(r) == Min({r + 1, Top})
Down(r) == Max({r - 1, 0})

\* Ladder::run and grade.  A stale probe sets the ladder to its own rung's neighbour.
Run(probe, passes) ==
  /\ probe \in prepared
  /\ Len(crystallised) + Len(signals) < MaxGraded
  /\ prepared' = prepared \ {probe}
  /\ rung' = IF passes THEN Up(probe.rung) ELSE Down(probe.rung)
  /\ LET credits == passes /\ ~probe.scaffolded IN
       /\ mastered' = IF credits THEN mastered \cup {probe.concept} ELSE mastered
       /\ crystallised' = IF credits THEN Append(crystallised, probe.concept) ELSE crystallised
  /\ signals' = IF ~passes /\ probe.anomalous THEN Append(signals, probe.concept) ELSE signals
  /\ streak' = IF probe.rung # rung THEN 0
               ELSE IF passes THEN Min({Max({streak, 0}) + 1, Top})
               ELSE Max({Min({streak, 0}) - 1, -Top})
  /\ UNCHANGED selection

\* The ladder of one reader, which reads neither the map nor the policy.
LadderStep ==
  \/ \E c \in Concept, scaffolded, anomalous \in BOOLEAN : Prepare(c, scaffolded, anomalous)
  \/ \E probe \in prepared : Forget(probe) \/ \E passes \in BOOLEAN : Run(probe, passes)
-----------------------------------------------------------------------------
(* Properties. *)

ProbeTypeOK ==
  /\ selection \in {NoSelection}
       \cup [mode : Mode, seen : SUBSET Concept, list : Seq(Concept)]
  /\ rung \in Rung
  /\ prepared \subseteq Probe
  /\ mastered = Range(crystallised)
  /\ crystallised \in Seq(Concept) /\ signals \in Seq(Concept)
  /\ streak \in -Top..Top

\* A list of concepts to probe is right when it is made and does not go stale by
\* concepts leaving the dark while it is worked through (CG-19): as long as something
\* was dark it names something, strict and hybrid policies leave out no (critical)
\* concept, and one that is still dark keeps its place when others leave the dark.
SelectionHolds ==
  selection # NoSelection =>
    LET chosen == Range(selection.list)
        seen == selection.seen
        mode == selection.mode
    IN  /\ chosen \subseteq seen
        /\ seen # {} => chosen # {}
        /\ IsInjective(selection.list)
        /\ mode.kind = "strict" => seen \subseteq chosen
        /\ mode.kind = "hybrid" => seen \cap Critical \subseteq chosen
        /\ Dark \subseteq seen => chosen \cap Dark \subseteq Range(Select(mode, Dark))

\* The staircase follows the reader and saturates at both ends (CG-18): wherever it
\* started and whatever stale probe moved it, so many passes in a row at the rung
\* that is shown have brought it at least so high, and misses at least so low.
StaircaseFollows ==
  /\ rung >= streak
  /\ rung <= Top + streak
=============================================================================
