-------------------------------- MODULE Bus ---------------------------------
(***************************************************************************)
(* The message bus.  BootstrapBus is one broadcast channel, whatever topic *)
(* is asked for; TokioMessageBus has a channel per topic, made by whoever  *)
(* publishes or subscribes to the topic first.  A channel keeps its last   *)
(* Capacity events: a receiver that falls behind loses the oldest ones.    *)
(*                                                                         *)
(* An event is its place in the order of publication; payloads are left    *)
(* out.  The channel is tokio's broadcast channel, modelled from its use.  *)
(***************************************************************************)
EXTENDS Naturals, Sequences, FiniteSets, FiniteSetsExt, Functions

CONSTANTS
  Topic,
  BootTopic,  \* "wyrtloom.boot"
  Subscriber,
  Capacity,   \* of a channel: 256 in BootstrapBus, 1024 by default in TokioMessageBus
  MaxEvents   \* bound: events published

ASSUME BusAssumption == BootTopic \in Topic /\ Capacity \in Nat \ {0} /\ MaxEvents \in Nat

VARIABLES
  busKind,   \* which implementation this behaviour follows
  channelOf, \* the sender each topic has; 0 for none
  sent,      \* every event published: its topic and the channel it was put on
  receiver   \* each subscriber's receiver: its channel (0 before it subscribes),
             \* the topic it asked for, where it started, where it stands, what it got

busVars == <<busKind, channelOf, sent, receiver>>

BusInit ==
  /\ busKind \in {"bootstrap", "tokio"}
  /\ channelOf = [t \in Topic |-> IF busKind = "bootstrap" THEN 1 ELSE 0]
  /\ sent = <<>>
  /\ receiver = [s \in Subscriber |->
       [channel |-> 0, topic |-> BootTopic, since |-> 0, next |-> 1, got |-> <<>>]]

-----------------------------------------------------------------------------
NewChannel == 1 + Max({0} \cup Range(channelOf))

\* Mutant: the channel is made anew each time it is asked for.
Sender_AlwaysNew(t) == IF busKind = "bootstrap" THEN 1 ELSE NewChannel

\* get_or_create_sender, under one lock.
Sender(t) == IF channelOf[t] # 0 THEN channelOf[t] ELSE NewChannel

\* An event nobody listens to is published all the same.
Publish(t) ==
  /\ Len(sent) < MaxEvents
  /\ channelOf' = [channelOf EXCEPT ![t] = Sender(t)]
  /\ sent' = Append(sent, [topic |-> t, channel |-> Sender(t)])
  /\ UNCHANGED <<busKind, receiver>>

\* A receiver starts behind everything published so far.
Subscribe(s, t) ==
  /\ receiver[s].channel = 0
  /\ channelOf' = [channelOf EXCEPT ![t] = Sender(t)]
  /\ receiver' = [receiver EXCEPT ![s] =
       [channel |-> Sender(t), topic |-> t,
        since |-> Len(sent), next |-> Len(sent) + 1, got |-> <<>>]]
  /\ UNCHANGED <<busKind, sent>>

\* What was put on a subscriber's channel and is still ahead of it.
Ahead(s) == {i \in receiver[s].next..Len(sent) : sent[i].channel = receiver[s].channel}

Lagging(s) == Cardinality(Ahead(s)) > Capacity

Receive(s) ==
  /\ Ahead(s) # {} /\ ~Lagging(s)
  /\ LET i == Min(Ahead(s)) IN
       receiver' = [receiver EXCEPT ![s].next = i + 1, ![s].got = Append(@, i)]
  /\ UNCHANGED <<busKind, channelOf, sent>>

\* The error Lagged: the receiver goes on with the oldest event that is kept.
Lag(s) ==
  /\ Lagging(s)
  /\ receiver' = [receiver EXCEPT ![s].next =
       CHOOSE i \in Ahead(s) : Cardinality({j \in Ahead(s) : j >= i}) = Capacity]
  /\ UNCHANGED <<busKind, channelOf, sent>>

BusStep ==
  \/ \E t \in Topic : Publish(t) \/ \E s \in Subscriber : Subscribe(s, t)
  \/ \E s \in Subscriber : Receive(s) \/ Lag(s)

-----------------------------------------------------------------------------
BusTypeOK ==
  /\ busKind \in {"bootstrap", "tokio"}
  /\ channelOf \in [Topic -> Nat]
  /\ sent \in Seq([topic : Topic, channel : Nat])
  /\ \A s \in Subscriber :
       receiver[s] \in [channel : Nat, topic : Topic, since : Nat, next : Nat, got : Seq(Nat)]

\* What a subscriber is to hear of: everything published after it subscribed, on
\* its topic if the bus knows topics.
Due(s) ==
  {i \in (receiver[s].since + 1)..Len(sent) :
     busKind = "bootstrap" \/ sent[i].topic = receiver[s].topic}

\* Whoever made the channel of a topic, and in whatever order topics, publishers
\* and subscribers come up: a subscriber gets what is due to it and nothing else,
\* in order, each event once; and what it has not got is still ahead of it, or at
\* least Capacity events that were due to it, too, came after.
BusDelivers ==
  \A s \in Subscriber : receiver[s].channel # 0 =>
    LET got == receiver[s].got IN
      /\ Range(got) \subseteq Due(s)
      /\ \A i, j \in DOMAIN got : i < j => got[i] < got[j]
      /\ \A i \in Due(s) \ Range(got) :
           i \in Ahead(s) \/ Cardinality({j \in Due(s) : j > i}) >= Capacity
=============================================================================
