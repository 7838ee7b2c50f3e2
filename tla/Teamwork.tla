------------------------------ MODULE Teamwork ------------------------------
(***************************************************************************)
(* Work passed around a team (crates/plugin-rotation-scheduler, the agent  *)
(* messages of crates/core/src/agent.rs, crates/plugin-interest-router).   *)
(* The rotation gives the roles of a work item to people and writes one    *)
(* Delegation from each role to the next; agents delegate further, answer  *)
(* and fail; the router reads the messages sent so far, derives from their *)
(* numbers what a human might find interesting, and offers it.             *)
(*                                                                         *)
(* The callers are external: which messages the agents send, in what       *)
(* order, how often an answer comes, and when the router looks.            *)
(***************************************************************************)
EXTENDS Naturals, Sequences, FiniteSets, FiniteSetsExt, SequencesExt, Functions

CONSTANTS
  Task,        \* origin tasks
  Policies,    \* rotation policies a scheduler is built from
  MaxHops,     \* MAX_HOPS (16 in the code)
  NormalHops,  \* normal_max_hops of the baseline
  Word,        \* the numbers of a u64 and of a usize (2^64 in the code)
  MaxMessages, \* bound: messages sent
  NoOffer      \* nothing is offered for a task

Role == <<"specifier", "designer", "developer", "tester">>
Ordinal(role) == CHOOSE n \in 0..3 : Role[n + 1] = role

\* The eligible roles, the roster and the humans on it, and the overrides: the roles that
\* a human must fill, when an item is safety critical (TRUE) or when it is not.
IsPolicy(p) ==
  /\ DOMAIN p = {"roles", "roster", "humans", "cadence", "pinned"}
  /\ p.roster \in Seq(Range(p.roster)) /\ p.roles \in Seq(Range(Role))
  /\ IsInjective(p.roles)
  /\ p.humans \subseteq Range(p.roster)
  /\ p.pinned \subseteq Range(Role) \X BOOLEAN
  /\ p.cadence \in Nat

ASSUME TeamworkAssumption ==
  /\ \A p \in Policies : IsPolicy(p)
  /\ {MaxHops, NormalHops, MaxMessages} \subseteq Nat /\ MaxHops > 3
  /\ Word \in Nat \ {0}
  /\ IsFiniteSet(Task)

Message == [kind : {"delegation", "result", "error"}, task : Task, hops : 0..(MaxHops - 1)]

VARIABLES
  policy,   \* the policy the scheduler was built from
  assigned, \* tasks whose roles were given out
  sent,     \* how many of each message were sent
  known,    \* tasks the baseline has observed
  offer,    \* the signals of the problem offered for each task
  open,     \* history variable: delegations still without a result
  doubled   \* history variable: tasks of which a result came twice

teamVars == <<policy, assigned, sent, known, offer, open, doubled>>

TeamInit ==
  /\ policy \in Policies
  /\ assigned = {}
  /\ sent = [m \in Message |-> 0]
  /\ known = {}
  /\ offer = [t \in Task |-> NoOffer]
  /\ open = [t \in Task |-> 0]
  /\ doubled = {}
-----------------------------------------------------------------------------
(* RotationScheduler::assign. *)

\* Mutant: the cadence is a modulus.
Base_Modulo(cycle) == cycle % Max({policy.cadence, 1})

\* The rotation moves by one when as many cycles as the cadence have passed.
Base(cycle) == cycle \div Max({policy.cadence, 1})

FirstHuman == policy.roster[CHOOSE i \in DOMAIN policy.roster :
  /\ policy.roster[i] \in policy.humans
  /\ \A j \in 1..(i - 1) : policy.roster[j] \notin policy.humans]

\* requires_human.
Pinned(role, critical) == <<role, critical>> \in policy.pinned

\* The sum wraps at the end of the numbers; a debug build panics there instead.
ActorFor(role, critical, cycle) ==
  IF Pinned(role, critical) THEN FirstHuman
  ELSE policy.roster[(((Base(cycle) + Ordinal(role)) % Word) % Len(policy.roster)) + 1]

\* NoRoles, EmptyRoster and NoHumanAvailable.
Assignable(critical) ==
  /\ policy.roles # <<>> /\ policy.roster # <<>>
  /\ (\E role \in Range(policy.roles) : Pinned(role, critical)) => policy.humans # {}
-----------------------------------------------------------------------------
(* InterestRouter::derive_signals. *)

Count(kind, t) ==
  MapThenSumSet(LAMBDA m : sent[m], {m \in Message : m.kind = kind /\ m.task = t})

HopsOf(kind, t) == {m.hops : m \in {n \in Message : n.kind = kind /\ n.task = t /\ sent[n] > 0}}

ErrorDepth(t) == IF HopsOf("error", t) = {} THEN 0 ELSE Max(HopsOf("error", t))

\* Mutant: an error settles a delegation too.
Unresolved_ErrorsSettle(t) ==
  Max({0, Count("delegation", t) - Count("result", t) - Count("error", t)})

\* Delegations and results are counted, not matched.
Unresolved(t) ==
  IF Count("delegation", t) > Count("result", t)
  THEN Count("delegation", t) - Count("result", t) ELSE 0

\* Something was sent of a task that the baseline does not know, or from too deep.
Novel(t) ==
  LET hops == UNION {HopsOf(kind, t) : kind \in {"delegation", "result", "error"}}
  IN hops # {} /\ (t \notin known \/ Max(hops) > NormalHops)

RetryClusterThreshold == 3

\* The weight of each kind of signal; none is raised where it is zero.
Weight(kind, t) ==
  CASE kind = "RetryFailureCluster" ->
         IF Count("error", t) >= RetryClusterThreshold THEN Count("error", t) ELSE 0
    [] kind = "NoveltyVsBaseline" -> IF Novel(t) THEN 1 ELSE 0
    [] kind = "CrossModuleAnomaly" -> IF ErrorDepth(t) > 1 THEN ErrorDepth(t) ELSE 0
    [] kind = "ContractBoundaryAmbiguity" -> Unresolved(t)

SignalKind == {"RetryFailureCluster", "NoveltyVsBaseline", "CrossModuleAnomaly",
               "ContractBoundaryAmbiguity"}

Signals(t) == {<<kind, Weight(kind, t)>> : kind \in {k \in SignalKind : Weight(k, t) > 0}}
-----------------------------------------------------------------------------
(* Steps. *)

Sent == FoldFunction(+, 0, sent)

\* validate: a message at the hop limit is malformed; so it is not sent.
Send(messages) ==
  /\ \A m \in messages : m.hops < MaxHops
  /\ Sent + Cardinality(messages) <= MaxMessages
  /\ sent' = [m \in Message |-> sent[m] + IF m \in messages THEN 1 ELSE 0]

Msg(kind, t, hops) == [kind |-> kind, task |-> t, hops |-> hops]

\* assign and handoffs: a delegation from each role to the next.  Who has the roles is
\* ActorFor, for whatever cycle; nothing below depends on it.
Assign(t, critical) ==
  /\ t \notin assigned
  /\ Assignable(critical)
  /\ assigned' = assigned \cup {t}
  /\ Send({Msg("delegation", t, i - 1) : i \in 1..(Len(policy.roles) - 1)})
  /\ open' = [open EXCEPT ![t] = @ + Len(policy.roles) - 1]
  /\ UNCHANGED <<policy, known, offer, doubled>>

\* An agent that was delegated to delegates further.
Delegate(t, hops) ==
  /\ sent[Msg("delegation", t, hops)] > 0
  /\ Send({Msg("delegation", t, hops + 1)})
  /\ open' = [open EXCEPT ![t] = @ + 1]
  /\ UNCHANGED <<policy, assigned, known, offer, doubled>>

\* An agent answers what was not answered, or answers again.
Answer(t, hops) ==
  /\ sent[Msg("delegation", t, hops)] > 0
  /\ Send({Msg("result", t, hops)})
  /\ \/ /\ open[t] > 0
        /\ open' = [open EXCEPT ![t] = @ - 1]
        /\ UNCHANGED doubled
     \/ /\ doubled' = doubled \cup {t}
        /\ UNCHANGED open
  /\ UNCHANGED <<policy, assigned, known, offer>>

Fail(t, hops) ==
  /\ sent[Msg("delegation", t, hops)] > 0
  /\ Send({Msg("error", t, hops)})
  /\ UNCHANGED <<policy, assigned, known, offer, open, doubled>>

Observe(t) ==
  /\ known' = known \cup {t}
  /\ UNCHANGED <<policy, assigned, sent, offer, open, doubled>>

\* derive_signals and route; NoSignals where there are none.
Route(t) ==
  /\ Signals(t) # {}
  /\ offer' = [offer EXCEPT ![t] = Signals(t)]
  /\ UNCHANGED <<policy, assigned, sent, known, open, doubled>>

\* resolve: accepted or declined, the router keeps nothing of it; the sink of accepted
\* problems is the caller's.
Resolve(t) ==
  /\ offer[t] # NoOffer
  /\ offer' = [offer EXCEPT ![t] = NoOffer]
  /\ UNCHANGED <<policy, assigned, sent, known, open, doubled>>

TeamNext ==
  \E t \in Task :
    \/ \E critical \in BOOLEAN : Assign(t, critical)
    \/ \E hops \in 0..(MaxHops - 1) : Delegate(t, hops) \/ Answer(t, hops) \/ Fail(t, hops)
    \/ Observe(t) \/ Route(t) \/ Resolve(t)

TeamSpec == TeamInit /\ [][TeamNext]_teamVars
-----------------------------------------------------------------------------
(* Properties. *)

\* An error comes from as deep as the hop limit allows; anything else is counted.
Signal == ({"CrossModuleAnomaly"} \X (1..(MaxHops - 1)))
  \cup ((SignalKind \ {"CrossModuleAnomaly"}) \X (1..MaxMessages))

TeamTypeOK ==
  /\ IsPolicy(policy)
  /\ assigned \subseteq Task /\ known \subseteq Task /\ doubled \subseteq Task
  /\ sent \in [Message -> 0..MaxMessages]
  /\ open \in [Task -> 0..MaxMessages]
  /\ \A t \in Task : offer[t] = NoOffer \/ offer[t] \subseteq Signal

\* The cycles in which the rotation goes round once.
Round == Len(policy.roster) * Max({policy.cadence, 1})

\* Nobody keeps a role, whatever the cadence and whichever roles humans must fill: from
\* any cycle on, within as many terms as the roster is long, each person has each role
\* that is not pinned; and nobody has two roles that are not pinned if the roster has
\* someone for each of the four and lists nobody twice; all that while no sum of a term
\* and an ordinal wraps.  Pinned roles are with a human in every cycle.
RotationIsFair ==
  \A start \in 0..(Word - 1), critical \in BOOLEAN :
    Assignable(critical) =>
      \A role \in Range(policy.roles) :
        IF Pinned(role, critical)
        THEN ActorFor(role, critical, start) \in policy.humans
        ELSE start + Round + 3 <= Word =>
             /\ \A person \in Range(policy.roster) :
                  \E k \in 0..(Round - 1) : ActorFor(role, critical, start + k) = person
             /\ \A other \in Range(policy.roles) \ {role} :
                  ~Pinned(other, critical) /\ Len(policy.roster) >= 4 /\ IsInjective(policy.roster) =>
                    ActorFor(role, critical, start) # ActorFor(other, critical, start)

\* A delegation without a result is never overlooked, and none is made up, however the
\* team passed the work on and wherever it failed: as long as no result came twice, the
\* weight of the signal is the number of delegations that are still open.
OpenDelegationIsSeen ==
  \A t \in Task \ doubled : Weight("ContractBoundaryAmbiguity", t) = open[t]
=============================================================================
