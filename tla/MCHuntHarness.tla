--------------------------- MODULE MCHuntHarness ---------------------------
(***************************************************************************)
(* Small instances of Practice, the hunt harness and the probe ladder, for *)
(* TLC.                                                                    *)
(***************************************************************************)
EXTENDS Practice, TLC

Fits(start, run, ends) == [form |-> "fits", start |-> start, run |-> run, ends |-> ends]

\* One of each kind, one with a start function, and one that traps before run.
SomeModules ==
  {Fits(0, 2, "true byte"), Fits(0, 1, "no true byte"), Fits(0, 2, "out of fuel"),
   Fits(1, 1, "true byte"), [Fits(0, 1, "trap") EXCEPT !.form = "misfit"],
   [Fits(0, 1, "trap") EXCEPT !.form = "garbage"]}

\* A policy that is accepted, in each mode, and one that each check refuses.
GoodDocument ==
  [quota |-> "fraction", aggregateOnly |-> TRUE, owner |-> "named", assignment |-> "single",
   depth |-> 1, cadence |-> 1, mode |-> [kind |-> "strict"]]
SomeDocuments ==
  {GoodDocument, [GoodDocument EXCEPT !.mode = [kind |-> "hybrid"]],
   [GoodDocument EXCEPT !.mode = [kind |-> "sampled", k |-> 1], !.assignment = "divided"],
   [GoodDocument EXCEPT !.mode = [kind |-> "sampled", k |-> 0]],
   [GoodDocument EXCEPT !.aggregateOnly = FALSE],
   [GoodDocument EXCEPT !.quota = "not finite"], [GoodDocument EXCEPT !.owner = "blank"],
   [GoodDocument EXCEPT !.assignment = "redundant"], [GoodDocument EXCEPT !.cadence = 0]}

\* The order of ids; with a sample of one, the critical concept is not in the sample.
ConceptsById == <<"c1", "c2">>

\* What InOrder does by counting is the filter of the ordered list.
ASSUME OrderAssumption ==
  \A S \in SUBSET Concept : InOrder(S) = SelectSeq(ById, LAMBDA c : c \in S)
=============================================================================
