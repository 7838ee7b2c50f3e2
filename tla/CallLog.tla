------------------------------ MODULE CallLog -------------------------------
(***************************************************************************)
(* SqliteCallLogger: the rows of call_logs in the order of their ids.  An  *)
(* outcome is written as a word and a detail and read back from them.      *)
(* Profile, model, usage, cost and time are left out.                      *)
(***************************************************************************)
EXTENDS Sequences

VARIABLE callLog \* the rows: the task, the word, the detail ("none" is SQL NULL)

\* CallOutcome, with the kind of the error for its text.
Completed == [kind |-> "Completed", reason |-> "none"]
Failed(reason) == [kind |-> "Failed", reason |-> reason]

Row(task, outcome) ==
  [task |-> task, outcome |-> outcome.kind, detail |-> outcome.reason]

\* record, when it succeeds: one INSERT.
RecordCall(task, outcome) == callLog' = Append(callLog, Row(task, outcome))

\* all_logs: a word that is no outcome fails the whole call.
AllLogs ==
  IF \A i \in DOMAIN callLog : callLog[i].outcome \in {"Completed", "Failed", "Partial"}
  THEN [i \in DOMAIN callLog |->
          [task |-> callLog[i].task,
           outcome |-> IF callLog[i].outcome = "Completed" THEN Completed
                       ELSE [kind |-> callLog[i].outcome, reason |-> callLog[i].detail]]]
  ELSE <<[task |-> "integrity error", outcome |-> Failed("none")]>>
=============================================================================
