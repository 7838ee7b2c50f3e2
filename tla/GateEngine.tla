----------------------------- MODULE GateEngine -----------------------------
(***************************************************************************)
(* The gate engine (crates/plugin-gate-engine/src/lib.rs): tokens are      *)
(* issued against a digest, and guarded_transition moves a task for        *)
(* whoever presents a token that fits.  It looks the task up, moves it and *)
(* records the decision in three separate calls; other callers of the same *)
(* board act in between.                                                   *)
(*                                                                         *)
(* A stamp is an HMAC over all fields of the token, so a token verifies    *)
(* exactly if it was issued with these fields and is not revoked: that is  *)
(* all the model keeps of it.  The blame notice is one more such field.    *)
(***************************************************************************)
EXTENDS KanbanBoard, FiniteSets

CONSTANTS
  Caller,       \* threads that ask for guarded transitions
  NoToken,      \* a request that presents no token
  Gate,         \* the <<from, to>> moves tokens are asked for
  MaxIssued,    \* bound: tokens ever issued
  MaxRequests   \* bound: requests ever made

ASSUME GateAssumption ==
  /\ Gate \subseteq TaskState \X TaskState
  /\ TaskId # {}
  /\ MaxIssued \in Nat /\ MaxRequests \in Nat

\* The digest is shown, or blank.
Token == [task : TaskId, from : {g[1] : g \in Gate}, to : {g[2] : g \in Gate},
          actor : Actor, digest : {"shown", "blank"}]

ASSUME NoToken \notin Token

VARIABLES
  calm,        \* guarded transitions do not overlap with any other call of the board
  logging,     \* the call logger works; otherwise record may fail
  issued,      \* tokens handed out by issue_token
  revoked,     \* those whose stamp was invalidated
  pc,          \* idle, or where a caller is in guarded_transition
  request,     \* the task it wants to move, and its token once that was checked
  decision,    \* what it is about to record, or was returned last
  gateLog,     \* the gate's rows in the call logger
  redemptions, \* history variable: the moves made, with the state they left
  requests     \* counts towards MaxRequests

world == <<calm, logging>>
gateVars == <<world, issued, revoked, pc, request, decision, gateLog, redemptions, requests>>
vars == <<boardVars, gateVars>>

Refusal == {"TokenRequired", "InvalidToken", "StageMismatch", "Kanban"}
NoRequest == [token |-> NoToken, task |-> CHOOSE t \in TaskId : TRUE]

GateInit ==
  /\ Init
  /\ calm \in BOOLEAN /\ logging \in BOOLEAN
  /\ issued = {} /\ revoked = {}
  /\ pc = [c \in Caller |-> "idle"]
  /\ request = [c \in Caller |-> NoRequest]
  /\ decision = [c \in Caller |-> "none"]
  /\ gateLog = <<>> /\ redemptions = <<>>
  /\ requests = 0

-----------------------------------------------------------------------------
\* issue_token: no token without a digest, none for an illegal move.
IssueToken(token) ==
  /\ token.digest = "shown"
  /\ IsLegalTransition(token.from, token.to)
  /\ issued' = issued \cup {token}
  /\ UNCHANGED <<boardVars, world, revoked, pc, request, decision, gateLog, redemptions, requests>>

\* SecurityModule::invalidate, for the stamp of a token.
Revoke(token) ==
  /\ revoked' = revoked \cup {token}
  /\ UNCHANGED <<boardVars, world, issued, pc, request, decision, gateLog, redemptions, requests>>

Verifies(token) == token \in issued \ revoked

\* Checks 1 to 3 of guarded_transition, which read nothing of the board.
Checked(token, t, to, actor) ==
  IF token = NoToken THEN "TokenRequired"
  ELSE IF token.to = to /\ token.task = t /\ token.actor = actor /\ Verifies(token)
       THEN "fits" ELSE "InvalidToken"

\* Go on to the next call, or to recording a refusal.
Decide(c, refused, why, next) ==
  /\ decision' = [decision EXCEPT ![c] = IF refused THEN why ELSE "none"]
  /\ pc' = [pc EXCEPT ![c] = IF refused THEN "audit" ELSE next]

\* In a calm world a call of the board waits for the guarded transition under way.
NobodyElse == calm => \A c \in Caller : pc[c] = "idle"

Present(c, token, t, to, actor) ==
  /\ pc[c] = "idle" /\ NobodyElse
  /\ requests < MaxRequests
  /\ requests' = requests + 1
  /\ LET checked == Checked(token, t, to, actor)
     IN  /\ Decide(c, checked # "fits", checked, "lookup")
         /\ request' = [request EXCEPT ![c] =
              [task |-> t, token |-> IF checked = "fits" THEN token ELSE NoToken]]
  /\ UNCHANGED <<boardVars, world, issued, revoked, gateLog, redemptions>>

\* Mutant: any task that is found may be moved.
Lookup_NoStage(c) ==
  /\ pc[c] = "lookup"
  /\ Decide(c, request[c].task \notin Existing, "Kanban", "transition")
  /\ UNCHANGED <<boardVars, world, issued, revoked, request, gateLog, redemptions, requests>>

\* 4. board.get, and the stage it was in at that moment; the board may also fail, as it
\* must for a task it does not have.
Lookup(c) ==
  /\ pc[c] = "lookup"
  /\ LET t == request[c].task IN
       \/ /\ t \in Existing
          /\ Decide(c, state[t] # request[c].token.from, "StageMismatch", "transition")
       \/ Decide(c, TRUE, "Kanban", "transition")
  /\ UNCHANGED <<boardVars, world, issued, revoked, request, gateLog, redemptions, requests>>

\* 5. board.transition; the board may also fail, as it must for a move with errors.
Apply(c) ==
  /\ pc[c] = "transition"
  /\ LET token == request[c].token IN
       \/ /\ Transition(token.task, token.to)
          /\ redemptions' = Append(redemptions, [token |-> token, left |-> state[token.task]])
          /\ decision' = [decision EXCEPT ![c] = "Moved"]
       \/ /\ decision' = [decision EXCEPT ![c] = "Kanban"]
          /\ UNCHANGED <<boardVars, redemptions>>
  /\ pc' = [pc EXCEPT ![c] = "audit"]
  /\ UNCHANGED <<world, issued, revoked, request, gateLog, requests>>

\* Mutant: a refusal of the board is recorded as a partial event.
Outcome_Partial(why) ==
  CASE why = "Moved" -> "Completed" [] why = "Kanban" -> "Partial" [] OTHER -> "Failed"

Outcome(why) == IF why = "Moved" THEN "Completed" ELSE "Failed"

\* Mutant: refusals before the board was asked go unrecorded.
Audit_BoardOnly(c) ==
  /\ pc[c] = "audit"
  /\ gateLog' = IF decision[c] \in {"Moved", "Kanban"}
                THEN Append(gateLog, [task |-> request[c].task, outcome |-> Outcome(decision[c])])
                ELSE gateLog
  /\ pc' = [pc EXCEPT ![c] = "idle"]
  /\ UNCHANGED <<boardVars, world, issued, revoked, request, decision, redemptions, requests>>

\* audit(..)?: the decision is recorded and returned, or the error is.
Audit(c) ==
  /\ pc[c] = "audit"
  /\ \/ /\ gateLog' = Append(gateLog, [task |-> request[c].task, outcome |-> Outcome(decision[c])])
        /\ UNCHANGED decision
     \/ /\ ~logging
        /\ decision' = [decision EXCEPT ![c] = "Audit"]
        /\ UNCHANGED gateLog
  /\ pc' = [pc EXCEPT ![c] = "idle"]
  /\ UNCHANGED <<boardVars, world, issued, revoked, request, redemptions, requests>>

CallerStep(c) ==
  \/ \E token \in Token \cup {NoToken}, t \in TaskId, to \in TaskState, a \in Actor :
       Present(c, token, t, to, a)
  \/ Lookup(c) \/ Apply(c) \/ Audit(c)

\* Everyone else who calls the board.
Others ==
  /\ NobodyElse
  /\ BoardStep
  /\ UNCHANGED gateVars

GateNext ==
  \/ \E token \in Token : IssueToken(token) /\ Cardinality(issued') <= MaxIssued
  \/ \E token \in issued : Revoke(token)
  \/ \E c \in Caller : CallerStep(c)
  \/ Others

GateSpec == GateInit /\ [][GateNext]_vars
-----------------------------------------------------------------------------
(* Properties. *)

Decisions == Refusal \cup {"none", "Moved", "Audit"}

GateTypeOK ==
  /\ TypeOK
  /\ calm \in BOOLEAN /\ logging \in BOOLEAN
  /\ issued \subseteq Token /\ revoked \subseteq Token
  /\ pc \in [Caller -> {"idle", "lookup", "transition", "audit"}]
  /\ request \in [Caller -> [token : Token \cup {NoToken}, task : TaskId]]
  /\ decision \in [Caller -> Decisions]
  /\ gateLog \in Seq([task : TaskId, outcome : {"Completed", "Failed"}])
  /\ redemptions \in Seq([token : Token, left : TaskState])
  /\ requests \in 0..MaxRequests

\* Nothing is decided off the record (CG-28): with a logger that works and nobody
\* in the middle of a request, the gate's rows are the requests made, and those
\* marked Completed are the moves made.
EveryDecisionIsLogged ==
  logging /\ (\A c \in Caller : pc[c] = "idle") =>
    /\ Len(gateLog) = requests
    /\ Cardinality({i \in DOMAIN gateLog : gateLog[i].outcome = "Completed"}) = Len(redemptions)

\* A token minted for an earlier stage moves nothing (lib.rs:302): the stage a
\* guarded move leaves is the one its token was issued from, as long as requests
\* and other calls of the board do not overlap.
LeavesTokenStage ==
  calm => \A i \in DOMAIN redemptions : redemptions[i].left = redemptions[i].token.from

\* lib.rs:302 says the lookup is there "so a token minted for an earlier state cannot
\* be replayed later".  Between lookup and transition the task can move on.
StaleTokensMoveNothing ==
  \A i \in DOMAIN redemptions : redemptions[i].left = redemptions[i].token.from
=============================================================================
