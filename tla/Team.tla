-------------------------------- MODULE Team --------------------------------
(***************************************************************************)
(* What a team knows, the work it passes around, and the sessions its      *)
(* people fly alone.  They share no state and no call of one goes through  *)
(* the other (the router is given a score, it does not read the ledger;    *)
(* the scheduler is given seeds and hands out events), so their steps      *)
(* commute: a behaviour is looked at with only one of them moving.         *)
(***************************************************************************)
EXTENDS CalibrationLedger, Teamwork, Withdrawal

VARIABLE part \* which of them moves

TeamworkAlone == part = "work" /\ TeamNext /\ UNCHANGED <<ledgerVars, withdrawalVars, part>>
LedgerAlone == part = "ledger" /\ LedgerNext /\ UNCHANGED <<teamVars, withdrawalVars, part>>
SchedulerAlone == part = "solo" /\ WithdrawalNext /\ UNCHANGED <<ledgerVars, teamVars, part>>

Init ==
  /\ LedgerInit /\ TeamInit /\ WithdrawalInit
  /\ \/ part = "work" /\ expansion = CHOOSE p \in Offered : Accepted(p)
     \/ part \in {"ledger", "solo"} /\ policy = CHOOSE p \in Policies : TRUE
  /\ part = "ledger" => expansion = CHOOSE p \in Offered : Accepted(p)
Next == TeamworkAlone \/ LedgerAlone \/ SchedulerAlone

Spec == Init /\ [][Next]_<<ledgerVars, teamVars, withdrawalVars, part>>
-----------------------------------------------------------------------------
\* The variables of every part have their types.
TypeOK == LedgerTypeOK /\ TeamTypeOK /\ WithdrawalTypeOK
=============================================================================
