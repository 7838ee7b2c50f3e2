------------------------------ MODULE Terminal ------------------------------
(***************************************************************************)
(* The human at the terminal (CliEscalation) and the answer that is fixed  *)
(* beforehand (ScriptedEscalation).  What a human types is a sequence of   *)
(* lines, trimmed and in lower case; it may end before it is read.         *)
(***************************************************************************)
EXTENDS Naturals, Sequences

\* The options handle_blocked offers, in the order in which they are numbered.
Options == <<"retry", "skip">>

\* Lines that are numbers, one below and one above the range of the options.
NumberOf == [line \in {"0", "1", "2", "3"} |->
               CASE line = "0" -> 0 [] line = "1" -> 1 [] line = "2" -> 2 [] line = "3" -> 3]

Line == {"s", "stop", "f", "free", "skip", "unreadable"} \cup DOMAIN NumberOf

\* Reading past the end of the input, or a line that cannot be read.
Closed(typed, i) == i > Len(typed) \/ typed[i] = "unreadable"

\* escalate: Stop, the id of an option, free text, or an error (Interrupted or
\* Io).  The word "skip" is free text: options are chosen by number only.
Answered(typed) ==
  IF Closed(typed, 1) THEN "error"
  ELSE IF typed[1] \in {"s", "stop"} THEN "Stop"
  ELSE IF typed[1] \in {"f", "free"} THEN IF Closed(typed, 2) THEN "error" ELSE "FreeText"
  ELSE IF typed[1] \in DOMAIN NumberOf /\ NumberOf[typed[1]] \in 1..Len(Options)
       THEN Options[NumberOf[typed[1]]]
  ELSE "FreeText"

\* ScriptedEscalation::stop, the handler main() takes when nobody is at the terminal.
Scripted == "Stop"
=============================================================================
