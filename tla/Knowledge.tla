------------------------------ MODULE Knowledge ------------------------------
(***************************************************************************)
(* The stores that keep what was understood, decided and covered, used     *)
(* side by side by the threads of one host: insight artifacts and          *)
(* rationale records grow by superseding, one by marking the old, one by   *)
(* naming it in the new, and the coverage map refers to artifacts.  What   *)
(* one of them says about another is free text that neither checks, so the *)
(* stores share nothing but their callers, each of which is in one call at *)
(* a time.                                                                 *)
(***************************************************************************)
EXTENDS InsightStore, RationaleLedger, CoverageMap

ASSUME KnowledgeAssumption == Author = Worker /\ Linker = Worker

knowledgeVars == <<insightVars, rationaleVars, coverageVars>>

KnowledgeInit == InsightInit /\ RationaleInit /\ CoverageInit

InsightIdle(w) == step[w] = "idle"
RationaleIdle(w) == draft[w] = NoDraft

KnowledgeNext ==
  \E w \in Worker :
    \/ /\ RationaleIdle(w) /\ Idle(w)
       /\ WorkerStep(w)
       /\ UNCHANGED <<rationaleVars, coverageVars>>
    \/ /\ InsightIdle(w) /\ Idle(w)
       /\ AuthorStep(w)
       /\ UNCHANGED <<insightVars, coverageVars>>
    \/ /\ InsightIdle(w) /\ RationaleIdle(w)
       /\ LinkerStep(w)
       /\ UNCHANGED <<insightVars, rationaleVars>>

KnowledgeSpec == KnowledgeInit /\ [][KnowledgeNext]_knowledgeVars
-----------------------------------------------------------------------------
\* The stores are well typed; each thread is in a call of at most one of them.
KnowledgeTypeOK ==
  /\ InsightTypeOK /\ RationaleTypeOK /\ CoverageTypeOK
  /\ \A w \in Worker :
       \/ InsightIdle(w) /\ RationaleIdle(w)
       \/ InsightIdle(w) /\ Idle(w)
       \/ RationaleIdle(w) /\ Idle(w)
=============================================================================
