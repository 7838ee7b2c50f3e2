--------------------------- MODULE GatedWorkflow ---------------------------
(***************************************************************************)
(* The way to a guarded move: a profile says where the gates are, a digest *)
(* is generated for the reader, and the gate engine issues and redeems     *)
(* tokens.  The engine is given stages and a digest and reads neither the  *)
(* profile nor the generator, and is modelled for any of them; so a        *)
(* behaviour is looked at with only one of the three moving.               *)
(***************************************************************************)
EXTENDS GateEngine, WorkflowProfile, DigestGenerator

VARIABLE part \* which of them moves

workflowVars == <<vars, profileVars, digestVars, part>>

WorkflowInit ==
  /\ GateInit /\ ProfileInit /\ DigestInit
  /\ part \in {"gates", "profile", "digest"}
  /\ part # "gates" => calm /\ logging

GatesAlone == part = "gates" /\ GateNext /\ UNCHANGED <<profileVars, digestVars, part>>

ProfileAlone ==
  /\ part = "profile"
  /\ \E p \in Profiles : LoadProfile(p)
  /\ UNCHANGED <<vars, digestVars, part>>

DigestAlone ==
  /\ part = "digest"
  /\ \E instruction \in {"text", "blank"}, inPlay \in SUBSET Topic, candidates \in Offers,
        score \in Scores, richer \in BOOLEAN :
       Generate([instruction |-> instruction, inPlay |-> inPlay, candidates |-> candidates,
                 score |-> score, richer |-> richer])
  /\ UNCHANGED <<vars, profileVars, part>>

WorkflowNext == GatesAlone \/ ProfileAlone \/ DigestAlone

WorkflowSpec == WorkflowInit /\ [][WorkflowNext]_workflowVars
-----------------------------------------------------------------------------
\* The variables of every part have their types.
WorkflowTypeOK == GateTypeOK /\ ProfileTypeOK /\ DigestTypeOK
=============================================================================
