--------------------------- MODULE MasteryPolicy ---------------------------
(***************************************************************************)
(* The mastery policy (crates/plugin-mastery-policy/src/lib.rs): a         *)
(* document is parsed and validated, and the policy in it is used from     *)
(* then on; one that is refused changes nothing.  A document is what the   *)
(* checks tell apart: on which side of its bounds the quota is, whether    *)
(* the owner has a name, and the counts.  The withdrawal cadence, the      *)
(* roles and the tags are parsed and not validated.                        *)
(***************************************************************************)
EXTENDS Naturals

CONSTANTS
  Documents, \* policy documents the project owner may come with
  NoPolicy   \* nothing was loaded

Mode == [kind : {"strict", "hybrid"}] \cup [kind : {"sampled"}, k : Nat]

Document ==
  [quota : {"negative", "fraction", "above one", "not finite"},
   aggregateOnly : BOOLEAN, owner : {"named", "blank"},
   assignment : {"single", "divided", "redundant"},
   depth : Nat, cadence : Nat, mode : Mode]

ASSUME MasteryAssumption == Documents \subseteq Document /\ NoPolicy \notin Document

VARIABLES
  mastery, \* the policy in force
  refusal  \* the PolicyError of the last document, or none

masteryVars == <<mastery, refusal>>

MasteryInit == mastery = NoPolicy /\ refusal = "none"
-----------------------------------------------------------------------------
\* Mutant: a sample of nothing is let through.
Validate_EmptySample(d) ==
  IF d.quota # "fraction" THEN "QuotaOutOfRange"
  ELSE IF d.owner = "blank" THEN "MissingOwner"
  ELSE IF d.assignment = "redundant" THEN "RedundantAssignmentPhase2"
  ELSE IF d.depth = 0 \/ d.cadence = 0 THEN "NonPositive"
  ELSE "none"

\* validate: the first check that fails.
Validate(d) ==
  LET checks ==
        <<[fails |-> d.quota # "fraction", error |-> "QuotaOutOfRange"],
          [fails |-> ~d.aggregateOnly, error |-> "AggregateLockViolated"],
          [fails |-> d.owner = "blank", error |-> "MissingOwner"],
          [fails |-> d.assignment = "redundant", error |-> "RedundantAssignmentPhase2"],
          [fails |-> d.depth = 0 \/ d.cadence = 0, error |-> "NonPositive"],
          [fails |-> d.mode.kind = "sampled" /\ d.mode.k = 0, error |-> "NonPositive"]>>
      failing == {i \in DOMAIN checks : checks[i].fails}
  IN  IF failing = {} THEN "none"
      ELSE checks[CHOOSE i \in failing : \A j \in failing : i <= j].error

\* from_json: the lock on team views is enforced by the parser, before validate, and JSON
\* has no number that is not finite.
FromJson(d) == IF d.aggregateOnly /\ d.quota # "not finite" THEN Validate(d) ELSE "Parse"

Load(d) ==
  /\ refusal' = FromJson(d)
  /\ mastery' = IF FromJson(d) = "none" THEN d ELSE mastery

MasteryTypeOK ==
  /\ mastery \in Documents \cup {NoPolicy}
  /\ refusal \in {"none", "Parse", "QuotaOutOfRange", "AggregateLockViolated", "MissingOwner",
                  "RedundantAssignmentPhase2", "NonPositive"}
=============================================================================
