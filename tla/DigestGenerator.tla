-------------------------- MODULE DigestGenerator --------------------------
(***************************************************************************)
(* The digest generator (crates/plugin-digest-generator/src/lib.rs): the   *)
(* lesson shown before a gate's challenge.  How rich it is follows from    *)
(* the reader's calibration, in hundredths here, or from the reader's wish *)
(* for the richer form; enrichments must map to a concept in play, and are *)
(* cut to the budget of the form.  The provider fills in text nobody reads *)
(* back; its failure is the failure of the call.                           *)
(***************************************************************************)
EXTENDS Integers, Sequences, FiniteSets

CONSTANTS
  Topic,      \* concepts an enrichment may map to
  NotANumber, \* the score NaN
  Scores,     \* bound: scores a reader is given, in and out of 0..100
  Offers,     \* bound: lists of candidate enrichments, each the set of its concepts
  NoDigest    \* no digest was generated

Request ==
  [instruction : {"text", "blank"}, inPlay : SUBSET Topic, candidates : Seq(SUBSET Topic),
   score : Int \cup {NotANumber}, richer : BOOLEAN]

ASSUME DigestAssumption ==
  /\ NotANumber \notin Int
  /\ Scores \subseteq Int \cup {NotANumber}
  /\ Offers \subseteq Seq(SUBSET Topic)

VARIABLES
  digest,      \* the last Digest, with the request it was made for
  digestError  \* of the last generate, or none

digestVars == <<digest, digestError>>

DigestInit == digest = NoDigest /\ digestError = "none"
-----------------------------------------------------------------------------
\* Calibration::new; a score that is no number counts as the lowest.
Calibrated(score) ==
  IF score = NotANumber THEN 0 ELSE IF score < 0 THEN 0 ELSE IF score > 100 THEN 100 ELSE score

\* for_calibration.
ForCalibration(c) == IF c >= 66 THEN "Terse" ELSE IF c >= 33 THEN "Standard" ELSE "Rich"

Richness(request) ==
  IF request.richer THEN "Rich" ELSE ForCalibration(Calibrated(request.score))

VisualCount == [Rich |-> 2, Standard |-> 1, Terse |-> 0]

\* Of a list, what the form has room for.
Budgeted(richness, list) ==
  CASE richness = "Rich" -> list
    [] richness = "Standard" -> IF Len(list) > 2 THEN SubSeq(list, 1, 2) ELSE list
    [] richness = "Terse" -> <<>>

\* The enrichments that map to a concept in play, in their order: the n-th stands where
\* as many were found as n says.
Coherent(list, inPlay) ==
  LET mapped == {i \in DOMAIN list : list[i] \cap inPlay # {}}
  IN  [n \in 1..Cardinality(mapped) |->
        list[CHOOSE i \in mapped : Cardinality(mapped \cap 1..i) = n]]

\* Mutant: the list is cut before it is filtered.
Admitted_CutFirst(request) ==
  Coherent(Budgeted(Richness(request), request.candidates), request.inPlay)

\* The coherence filter, then the budget.
Admitted(request) ==
  Budgeted(Richness(request), Coherent(request.candidates, request.inPlay))

DigestOf(request) ==
  [request |-> request, richness |-> Richness(request), visuals |-> VisualCount[Richness(request)],
   admitted |-> Admitted(request)]

\* generate: without instruction there is no digest, nor without the provider's text.
Generate(request) ==
  \/ /\ request.instruction = "blank"
     /\ digestError' = "MissingInstruction"
     /\ UNCHANGED digest
  \/ /\ request.instruction = "text"
     /\ \/ digest' = DigestOf(request) /\ digestError' = "none"
        \/ digestError' = "Provider" /\ UNCHANGED digest
-----------------------------------------------------------------------------
(* Properties. *)

DigestTypeOK ==
  /\ digest = NoDigest \/
       /\ digest.request \in Request
       /\ digest.richness \in DOMAIN VisualCount /\ digest.visuals \in 0..2
       /\ digest.admitted \in Seq(SUBSET Topic)
  /\ digestError \in {"none", "MissingInstruction", "Provider"}

\* Fading and coherence together (CG-2, CG-3): a reader of a higher score is shown
\* the beginning of what the same request shows one of a lower score, never more; the
\* richer form has everything that maps to a concept in play, and a shorter form
\* leaves such an enrichment out only when it is full.
DigestFades ==
  digest # NoDigest =>
    LET asked == digest.request
        At(score) == DigestOf([asked EXCEPT !.score = score])
        Mapped == {i \in DOMAIN asked.candidates : asked.candidates[i] \cap asked.inPlay # {}}
    IN  /\ \A lo, hi \in Scores :
             Calibrated(lo) <= Calibrated(hi) =>
               /\ At(hi).visuals <= At(lo).visuals
               /\ Len(At(hi).admitted) <= Len(At(lo).admitted)
               /\ At(hi).admitted = SubSeq(At(lo).admitted, 1, Len(At(hi).admitted))
        /\ \A n \in DOMAIN digest.admitted : \E i \in Mapped : digest.admitted[n] = asked.candidates[i]
        /\ Len(DigestOf([asked EXCEPT !.richer = TRUE]).admitted) = Cardinality(Mapped)
        /\ digest.visuals = 1 =>
             Len(digest.admitted) = IF Cardinality(Mapped) > 2 THEN 2 ELSE Cardinality(Mapped)
=============================================================================
