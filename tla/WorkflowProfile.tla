-------------------------- MODULE WorkflowProfile --------------------------
(***************************************************************************)
(* The workflow profile (crates/plugin-workflow-profile/src/lib.rs): an    *)
(* ordered list of stages, each with a name and the board state it stands  *)
(* for, and the gates between neighbouring stages.  from_json validates    *)
(* what it parsed; a profile that fails leaves the one in force.  Task     *)
(* profiles, the bounds of an agent in a stage, are passed through.        *)
(***************************************************************************)
EXTENDS KanbanStates, Naturals, Sequences, Functions

CONSTANTS
  StageName, \* names of stages
  Blank,     \* a name of nothing but blanks
  Profiles   \* bound: the profiles that are loaded

Stage == [name : StageName, state : TaskState]
Profile == [stages : Seq(Stage), gates : Seq(StageName \X StageName)]

ASSUME ProfileAssumption == Blank \in StageName /\ Profiles \subseteq Profile

VARIABLES
  profile,     \* the profile in force, or one without stages
  profileError \* of the last from_json, or none

profileVars == <<profile, profileError>>

ProfileInit == profile = [stages |-> <<>>, gates |-> <<>>] /\ profileError = "none"
-----------------------------------------------------------------------------
\* One pass over each stage and the ones after it; the first thing found is reported.
StageErrors(stages) ==
  LET Error(i, j) ==
        CASE i = j /\ stages[i].name = Blank -> "EmptyStageName"
          [] i < j /\ stages[i].name = stages[j].name -> "DuplicateStageName"
          [] i < j /\ stages[i].name # stages[j].name /\ stages[i].state = stages[j].state
               -> "DuplicateState"
          [] OTHER -> "none"
      Before(p, q) == p[1] < q[1] \/ (p[1] = q[1] /\ p[2] <= q[2])
      found == {p \in (DOMAIN stages) \X (DOMAIN stages) : Error(p[1], p[2]) # "none"}
  IN  {Error(p[1], p[2]) : p \in {q \in found : \A r \in found : Before(q, r)}}

\* The first of each pair of windows(2).
Edges(stages) == 1..(Len(stages) - 1)

OrderErrors(stages) ==
  {"IllegalStageOrder" : i \in {i \in Edges(stages) :
     ~IsLegalTransition(stages[i].state, stages[i + 1].state)}}

\* The state a declared stage stands for: the first of that name.
StateOf(stages, name) ==
  LET here == {i \in DOMAIN stages : stages[i].name = name}
  IN  stages[CHOOSE i \in here : \A j \in here : i <= j].state

\* Mutant: a gate may connect any two declared stages.
GateError_AnyStages(stages, gate) ==
  IF {gate[1], gate[2]} \subseteq {stages[i].name : i \in DOMAIN stages}
  THEN "none" ELSE "GateReferencesUndeclaredStage"

\* Both stages are declared, the second right after the first.
GateError(stages, gate) ==
  IF ~({gate[1], gate[2]} \subseteq {stages[i].name : i \in DOMAIN stages})
  THEN "GateReferencesUndeclaredStage"
  ELSE IF \E i \in Edges(stages) : stages[i].name = gate[1] /\ stages[i + 1].name = gate[2]
  THEN "none" ELSE "GateNotOnDeclaredEdge"

GateErrors(p) ==
  LET bad == {i \in DOMAIN p.gates : GateError(p.stages, p.gates[i]) # "none"}
  IN  {GateError(p.stages, p.gates[i]) : i \in {i \in bad : \A j \in bad : i <= j}}

\* validate: of the checks in their order, the first that finds something.
Validation(p) ==
  LET errors == <<IF p.stages = <<>> THEN {"NoStages"} ELSE {},
                  StageErrors(p.stages), OrderErrors(p.stages), GateErrors(p)>>
      failing == {i \in DOMAIN errors : errors[i] # {}}
  IN  IF failing = {} THEN "none"
      ELSE CHOOSE e \in errors[CHOOSE i \in failing : \A j \in failing : i <= j] : TRUE

\* from_json, and its caller goes on with the profile it had if it failed.
LoadProfile(p) ==
  /\ profileError' = Validation(p)
  /\ profile' = IF Validation(p) = "none" THEN p ELSE profile
-----------------------------------------------------------------------------
(* Properties. *)

ProfileTypeOK ==
  /\ profile \in Profile
  /\ profileError \in {"none", "NoStages", "EmptyStageName", "DuplicateStageName",
       "DuplicateState", "IllegalStageOrder", "GateReferencesUndeclaredStage",
       "GateNotOnDeclaredEdge"}

\* Every gate of a profile in force can open (CG-1): the states its stages stand for
\* are a legal move of the board, which is what issue_token asks before it hands out
\* a token, and no two edges of the declared path are the same move, so a token for
\* one gate is not a token for another.
GatesOpen ==
  /\ \A g \in Range(profile.gates) :
       IsLegalTransition(StateOf(profile.stages, g[1]), StateOf(profile.stages, g[2]))
  /\ \A g, h \in Range(profile.gates) :
       /\ StateOf(profile.stages, g[1]) = StateOf(profile.stages, h[1])
       /\ StateOf(profile.stages, g[2]) = StateOf(profile.stages, h[2])
       => g = h
=============================================================================
