---------------------------- MODULE MCGateEngine ----------------------------
(***************************************************************************)
(* Small instances of GateEngine, alone and within GatedWorkflow, for TLC. *)
(***************************************************************************)
EXTENDS GatedWorkflow, TLC

\* Todo is entered from Backlog, where its token is issued, and from Running and
\* Blocked; Ready is gated by its dependencies, too.
FirstGates == {<<"Backlog", "Todo">>, <<"Todo", "Ready">>}

\* Every list of up to three stages over names and states that make each check bite
\* alone and together, with a gate between any two names, twice the same, or none.
StageLists ==
  UNION {[1..n -> [name : {"a", "b", ""}, state : {"Running", "Blocked", "Done"}]] : n \in 0..3}
GateLists ==
  {<<>>} \cup {<<<<x, y>>>> : x, y \in {"a", "b", "undeclared"}}
         \cup {<<<<"a", "b">>, <<x, y>>>> : x, y \in {"a", "b"}}
ProfilesOf3 == [stages : StageLists, gates : GateLists]

\* Enrichments that map to one topic, to the other, to both, or to none.
OfferLists ==
  {<<>>, <<{}>>, <<{"c1"}, {"c2"}, {"c1", "c2"}, {}>>, <<{}, {"c2"}, {}, {"c1"}, {"c1"}>>,
   <<{"c1"}, {"c1"}, {"c1"}>>}

\* What Coherent does by counting is the filter of the list.
ASSUME FilterAssumption ==
  \A list \in OfferLists, inPlay \in SUBSET Topic :
    Coherent(list, inPlay) = SelectSeq(list, LAMBDA e : e \cap inPlay # {})

SomeScores == {-1, 0, 32, 33, 65, 66, 100, 101, NotANumber}

\* Actors and callers are interchangeable, whatever tokens and rows name them.
Symmetry == Permutations(Actor) \cup Permutations(Caller)
=============================================================================
