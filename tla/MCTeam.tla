------------------------------- MODULE MCTeam -------------------------------
(***************************************************************************)
(* Small instances of Team for TLC.                                        *)
(***************************************************************************)
EXTENDS Team, TLC

\* Three roles of the four, the canonical order and another one, rosters shorter and
\* longer than the roles, one with somebody listed twice, with and without humans, and a
\* cadence of zero.
TeamPolicies ==
  {[roles |-> <<"specifier", "developer", "tester">>, roster |-> <<"a1", "ann", "bob">>,
    humans |-> {"ann", "bob"}, cadence |-> 2,
    pinned |-> {<<"specifier", TRUE>>, <<"tester", FALSE>>}],
   [roles |-> <<"tester", "developer">>, roster |-> <<"ann", "a1", "bob", "a2">>,
    humans |-> {"ann", "bob"}, cadence |-> 0, pinned |-> {<<"tester", TRUE>>}],
   [roles |-> Role, roster |-> <<"a1", "a2", "a1">>, humans |-> {}, cadence |-> 1,
    pinned |-> {<<"tester", TRUE>>}]}

\* Policies that grow slowly, quickly, and not at all because they start at the cap; one
\* for each check of the scheduler.
ExpansionPolicies ==
  {[base |-> 2, factor |-> 150, cap |-> 7], [base |-> 1, factor |-> 300, cap |-> 50],
   [base |-> 3, factor |-> 101, cap |-> 3], [base |-> 1, factor |-> 150, cap |-> 5],
   [base |-> 0, factor |-> 200, cap |-> 5], [base |-> 1, factor |-> 100, cap |-> 5],
   [base |-> 3, factor |-> 200, cap |-> 2]}

\* Somebody new, somebody near the last index, somebody near the last date.
Seeds ==
  {<<[scope |-> "s1", last |-> 0, prior |-> 0]>>,
   <<[scope |-> "s1", last |-> 1, prior |-> 3], [scope |-> "s2", last |-> 0, prior |-> 0]>>,
   <<[scope |-> "s2", last |-> 28, prior |-> 1]>>}

TeamSymmetry == Permutations(Task) \cup Permutations(Person)
=============================================================================
