----------------------------- MODULE Withdrawal -----------------------------
(***************************************************************************)
(* The withdrawal scheduler (crates/plugin-withdrawal-scheduler/src/       *)
(* lib.rs): an expansion policy is checked once, sessions are planned from *)
(* what the ledger says of earlier practice, and each session is flown     *)
(* alone: begun, then completed or aborted by a human.  A flight is a      *)
(* value: whoever holds it may keep a copy of what it hands in.  Intervals *)
(* are whole days, truncated; the index saturates at the largest u32 and a *)
(* date at the last one chrono knows.  What plan returns in one list, seed *)
(* after seed, is kept seed by seed.                                       *)
(***************************************************************************)
EXTENDS Integers, Sequences, FiniteSets, FiniteSetsExt

CONSTANTS
  Scope,     \* a person and the task scope the agent withdraws from
  Offered,   \* expansion policies a host may come with, good ones and bad ones
  MaxIndex,  \* the largest session index, u32::MAX in the code
  MaxDate,   \* the last date, DateTime::MAX_UTC in the code
  SeedLists, \* bound: what plan is asked for
  MaxCount,  \* bound: sessions planned for a seed
  MaxFlown   \* bound: practice events, and flights held when another is begun

ExpansionPolicy == [base : Nat, factor : Nat, cap : Nat]
Seed == [scope : Scope, last : 0..MaxDate, prior : 0..MaxIndex]
Session == [scope : Scope, index : 0..MaxIndex, at : 0..MaxDate, days : Nat]
Flight == [scope : Scope, index : 0..MaxIndex, state : {"active", "completed", "aborted"}]

ASSUME WithdrawalAssumption ==
  /\ MaxIndex \in Nat /\ MaxDate \in Nat /\ MaxCount \in Nat /\ MaxFlown \in Nat
  /\ Offered \subseteq ExpansionPolicy
  /\ SeedLists \subseteq Seq(Seed)

VARIABLES
  expansion,   \* of the scheduler
  planned,     \* the sessions plan returned last, for each seed
  flights,     \* flights somebody holds
  practice     \* the practice events handed out for the ledger

withdrawalVars == <<expansion, planned, flights, practice>>
-----------------------------------------------------------------------------
\* One growth step, before the cap.
Grown(p, days) == (days * p.factor) \div 100

\* Mutant: a factor above 100 is taken for enough.
Accepted_FactorOnly(p) == p.base > 0 /\ p.factor > 100 /\ p.cap >= p.base

\* Scheduler::new.
Accepted(p) ==
  /\ p.base > 0 /\ p.factor > 100 /\ p.cap >= p.base
  /\ Grown(p, p.base) > p.base \/ p.base = p.cap

\* interval_days: the loop stops at the cap.
IntervalDays(p, n) ==
  LET grown[k \in 0..n] ==
        IF k = 0 THEN p.base
        ELSE IF grown[k - 1] >= p.cap THEN p.cap ELSE Grown(p, grown[k - 1])
  IN  Min({grown[n], p.cap})

Index(seed, k) == Min({seed.prior + k, MaxIndex})

\* plan, for one seed: every interval starts where the last one ended.
SessionsOf(p, seed, count) ==
  LET at[k \in 0..count] ==
        IF k = 0 THEN seed.last
        ELSE Min({at[k - 1] + IntervalDays(p, Index(seed, k - 1)), MaxDate})
  IN  [k \in 1..count |->
        [scope |-> seed.scope, index |-> Index(seed, k - 1), at |-> at[k],
         days |-> IntervalDays(p, Index(seed, k - 1))]]

WithdrawalInit ==
  /\ expansion \in {p \in Offered : Accepted(p)}
  /\ planned = <<>>
  /\ flights = {} /\ practice = <<>>

Plan(seeds, count) ==
  /\ planned' = [i \in DOMAIN seeds |-> SessionsOf(expansion, seeds[i], count)]
  /\ UNCHANGED <<expansion, flights, practice>>

Begin(session) ==
  /\ Cardinality(flights) < MaxFlown
  /\ flights' = flights \cup
       {[scope |-> session.scope, index |-> session.index, state |-> "active"]}
  /\ UNCHANGED <<expansion, planned, practice>>

\* complete and abort take the flight and return another; one that is not active is
\* refused.  A copy of it may be left behind.
End(flight, how) ==
  /\ flight.state = "active"
  /\ Len(practice) < MaxFlown
  /\ practice' = Append(practice, [scope |-> flight.scope, index |-> flight.index, outcome |-> how])
  /\ \E left \in {{}, {flight}} :
       flights' = (flights \ {flight}) \cup left \cup {[flight EXCEPT !.state = how]}
  /\ UNCHANGED <<expansion, planned>>

WithdrawalNext ==
  \/ \E seeds \in SeedLists, count \in 0..MaxCount : Plan(seeds, count)
  \/ \E i \in DOMAIN planned : \E k \in DOMAIN planned[i] : Begin(planned[i][k])
  \/ \E f \in flights : End(f, "completed")
  \/ \E f \in flights : End(f, "aborted")
-----------------------------------------------------------------------------
(* Properties. *)

WithdrawalTypeOK ==
  /\ expansion \in Offered
  /\ planned \in Seq(Seq(Session))
  /\ flights \subseteq Flight
  /\ practice \in Seq([scope : Scope, index : 0..MaxIndex, outcome : {"completed", "aborted"}])

\* Expanding intervals (CG-13): in every plan of every policy that was accepted,
\* each session of a seed comes later than the one before and after a longer
\* interval, until the cap, the last index or the last date is reached; and an
\* interval is never above the cap.  Truncation must not freeze the ladder.
Successive(a, b) ==
  /\ a.days <= b.days
  /\ a.index < MaxIndex => a.days < b.days \/ b.days = expansion.cap
  /\ a.at < b.at \/ b.at = MaxDate
SessionsExpand ==
  \A i \in DOMAIN planned : \A k \in DOMAIN planned[i] :
    /\ planned[i][k].days \in 1..expansion.cap
    /\ k > 1 => Successive(planned[i][k - 1], planned[i][k])
=============================================================================
