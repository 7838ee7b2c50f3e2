------------------------- MODULE CalibrationLedger -------------------------
(***************************************************************************)
(* The calibration ledger (crates/plugin-calibration-ledger/src/lib.rs):   *)
(* graded answers per person and concept, the mastery they add up to by a  *)
(* Bayesian update, and one view over people: how many master a concept.   *)
(* That view takes the lock once for the list of pairs and once more for   *)
(* each of them; meanwhile answers are recorded, erased and pruned.        *)
(*                                                                         *)
(* Masteries are fixed-point numbers of four decimals, rounded down, where *)
(* the code has f64.  Over as many answers as MaxEvents allows, the two    *)
(* agree on who is at the threshold.  What a person predicted is left out: *)
(* it is stored and used by nothing.                                       *)
(***************************************************************************)
EXTENDS Naturals, Sequences, FiniteSets, SequencesExt

CONSTANTS
  Person,    \* actors
  Concept,
  NoView,    \* no call of team_concept_redundancy is under way
  MaxEvents  \* bound: rows in the ledger

ASSUME CalibrationAssumption == MaxEvents \in Nat

Pair == Person \X Concept
View == [todo : SUBSET Pair, counts : [Concept -> Nat]]

ASSUME NoViewAssumption == NoView \notin View

VARIABLES
  answers, \* was_correct of the rows of each pair, in order of id
  view,    \* a call of team_concept_redundancy: pairs to look at, counts so far
  ever,    \* history variable: pairs at the threshold at some time of that call
  always   \* history variable: pairs at the threshold all the time of that call

ledgerVars == <<answers, view, ever, always>>

-----------------------------------------------------------------------------
(* The Bayesian update. *)

Unit == 10000     \* certainty
Prior == 3000     \* p_l0
Threshold == 9500 \* REDUNDANCY_THRESHOLD

\* Mutant: the posterior is not normalised.
Update_NoDivision(p, correct) == IF correct THEN p * 9 ELSE p

\* BktParams::update: who knows slips once in ten answers, who does not guesses two
\* in ten, and one in ten learns from the answer.  The denominator is never zero.
Update(p, correct) ==
  LET known == p * (IF correct THEN 9 ELSE 1)
      unknown == (Unit - p) * (IF correct THEN 2 ELSE 8)
      posterior == (known * Unit) \div (known + unknown)
  IN posterior + (Unit - posterior) \div 10

\* Mutant: nobody is taken to know anything before the first answer.
Mastery_NoPrior(outcomes) == FoldLeft(Update, 0, outcomes)

\* mastery replays the outcomes.
Mastery(outcomes) == FoldLeft(Update, Prior, outcomes)

Redundant(rows) == {x \in Pair : Mastery(rows[x]) >= Threshold}
-----------------------------------------------------------------------------
LedgerInit ==
  /\ answers = [x \in Pair |-> <<>>]
  /\ view = NoView
  /\ ever = {} /\ always = {}

Rows == FoldFunction(LAMBDA outcomes, n : Len(outcomes) + n, 0, answers)

\* One statement on the table; the call under way, if any, is told by history.
Change(rows) ==
  /\ answers' = rows
  /\ ever' = IF view = NoView THEN {} ELSE ever \cup Redundant(rows)
  /\ always' = IF view = NoView THEN {} ELSE always \cap Redundant(rows)
  /\ UNCHANGED view

Record(x, correct) ==
  /\ Rows < MaxEvents
  /\ Change([answers EXCEPT ![x] = Append(@, correct)])

DeleteActor(p) ==
  /\ \E c \in Concept : answers[<<p, c>>] # <<>>
  /\ Change([x \in Pair |-> IF x[1] = p THEN <<>> ELSE answers[x]])

\* Events carry the time they were graded and come in in that order: what is older
\* than the cutoff is the beginning of each sequence.
Prune(kept) ==
  /\ \E x \in Pair : kept[x] < Len(answers[x])
  /\ \A x \in Pair : kept[x] <= Len(answers[x])
  /\ Change([x \in Pair |-> SubSeq(answers[x], Len(answers[x]) - kept[x] + 1, Len(answers[x]))])

\* SELECT DISTINCT actor, concept.
StartView ==
  /\ view = NoView
  /\ view' = [todo |-> {x \in Pair : answers[x] # <<>>}, counts |-> [c \in Concept |-> 0]]
  /\ ever' = Redundant(answers) /\ always' = Redundant(answers)
  /\ UNCHANGED answers

\* Mutant: everybody with an answer counts.
LookAt_AnyEvidence(x) ==
  /\ view # NoView
  /\ x \in view.todo
  /\ view' = [todo |-> view.todo \ {x}, counts |-> [view.counts EXCEPT ![x[2]] = @ + 1]]
  /\ UNCHANGED <<answers, ever, always>>

\* mastery of the next pair, under a lock of its own.
LookAt(x) ==
  /\ view # NoView
  /\ x \in view.todo
  /\ view' = [todo |-> view.todo \ {x},
              counts |-> IF x \in Redundant(answers)
                         THEN [view.counts EXCEPT ![x[2]] = @ + 1] ELSE view.counts]
  /\ UNCHANGED <<answers, ever, always>>

EndView ==
  /\ view # NoView
  /\ view.todo = {}
  /\ view' = NoView
  /\ ever' = {} /\ always' = {}
  /\ UNCHANGED answers

LedgerNext ==
  \/ \E x \in Pair : \E correct \in BOOLEAN : Record(x, correct)
  \/ \E p \in Person : DeleteActor(p)
  \/ \E kept \in [Pair -> 0..MaxEvents] : Prune(kept)
  \/ StartView \/ EndView
  \/ \E x \in Pair : LookAt(x)

LedgerSpec == LedgerInit /\ [][LedgerNext]_ledgerVars
-----------------------------------------------------------------------------
(* Properties. *)

LedgerTypeOK ==
  /\ answers \in [Pair -> Seq(BOOLEAN)]
  /\ \A x \in Pair : Mastery(answers[x]) \in 0..Unit
  /\ view \in View \cup {NoView}
  /\ ever \subseteq Pair /\ always \subseteq ever

\* The team view counts people as they were while it was taken, whatever is
\* recorded, erased or pruned between its looks: never somebody who was below the
\* threshold all the time (so nobody whose erasure was over before it began,
\* CG-22), and never without somebody who was at it all the time.
ViewIsOfItsTime ==
  view # NoView /\ view.todo = {} =>
    \A c \in Concept :
      /\ Cardinality({x \in always : x[2] = c}) <= view.counts[c]
      /\ view.counts[c] <= Cardinality({x \in ever : x[2] = c})

\* An answer never moves mastery the wrong way, though every answer, a wrong one
\* too, is also credited as learning: what anybody can come down to lies above the
\* level where that credit would outweigh a miss.
AnswersMoveMastery ==
  [][\A x \in Pair :
       /\ answers'[x] = Append(answers[x], TRUE) =>
            Mastery(answers'[x]) >= Mastery(answers[x])
       /\ answers'[x] = Append(answers[x], FALSE) =>
            Mastery(answers'[x]) <= Mastery(answers[x])]_ledgerVars
=============================================================================
