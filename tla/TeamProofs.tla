----------------------------- MODULE TeamProofs -----------------------------
(***************************************************************************)
(* Proofs about Team, for any people, concepts, tasks and policies.        *)
(***************************************************************************)
EXTENDS Team, FiniteSetTheorems, WellFoundedInduction, TLAPS

\* A nonempty set of natural numbers has a least element.
LEMMA LeastNatural ==
  ASSUME NEW T \in SUBSET Nat, T # {}
  PROVE  \E n \in T : \A m \in T : n <= m
<1>1. \A x, y \in Nat : x < y => <<x, y>> \in OpToRel(<, Nat)
  BY DEF OpToRel
<1>2. PICK n \in T : \A m \in T : <<m, n>> \notin OpToRel(<, Nat)
  <2>1. \E n \in T : \A m \in T : <<m, n>> \notin OpToRel(<, Nat)
    BY NatLessThanWellFounded, WFMin
  <2>2. QED
    BY <2>1
<1>3. ASSUME NEW m \in T
      PROVE  n <= m
  <2>1. n \in Nat /\ m \in Nat
    OBVIOUS
  <2>2. ~(m < n)
    BY <1>1, <1>2, <2>1
  <2>3. QED
    BY <2>1, <2>2
<1>4. QED
  BY <1>3

-----------------------------------------------------------------------------
(* The rotation. *)

\* Division with remainder: the quotient and the remainder are the only ones there are.
LEMMA Division ==
  ASSUME NEW a \in Nat, NEW n \in Nat \ {0}
  PROVE  /\ a \div n \in Nat /\ a % n \in 0..(n - 1)
         /\ a = (a \div n) * n + (a % n)
OBVIOUS

LEMMA DivisionIsUnique ==
  ASSUME NEW n \in Nat \ {0}, NEW q \in Nat, NEW r \in 0..(n - 1)
  PROVE  (q * n + r) \div n = q /\ (q * n + r) % n = r
OBVIOUS

\* Adding whole turns to a moves the quotient and leaves the remainder.
LEMMA WholeTurns ==
  ASSUME NEW a \in Nat, NEW n \in Nat \ {0}, NEW m \in Nat
  PROVE  (a + m * n) \div n = (a \div n) + m
<1> DEFINE q == a \div n
           r == a % n
<1>1. q \in Nat /\ r \in 0..(n - 1) /\ a = q * n + r
  BY Division
<1> HIDE DEF q, r
<1>2. q + m \in Nat /\ a + m * n = (q + m) * n + r
  BY <1>1
<1>3. ((q + m) * n + r) \div n = q + m
  BY <1>1, <1>2, DivisionIsUnique
<1>4. QED
  BY <1>2, <1>3 DEF q

\* In a ring of n, each place p is some number of steps ahead of a, fewer than n.
LEMMA RingReached ==
  ASSUME NEW a \in Nat, NEW n \in Nat \ {0}, NEW p \in 0..(n - 1)
  PROVE  \E m \in 0..(n - 1) : (a + m) % n = p
<1> DEFINE q == a \div n
           r == a % n
<1>1. q \in Nat /\ r \in 0..(n - 1) /\ a = q * n + r
  BY Division
<1> HIDE DEF q, r
<1>2. CASE r <= p
  <2>1. p - r \in 0..(n - 1) /\ a + (p - r) = q * n + p
    BY <1>1, <1>2
  <2>2. (q * n + p) % n = p
    BY <1>1, DivisionIsUnique
  <2>3. QED
    BY <2>1, <2>2
<1>3. CASE p < r
  <2>1. p - r + n \in 0..(n - 1) /\ q + 1 \in Nat /\ a + (p - r + n) = (q + 1) * n + p
    BY <1>1, <1>3
  <2>2. ((q + 1) * n + p) % n = p
    BY <2>1, DivisionIsUnique
  <2>3. QED
    BY <2>1, <2>2
<1>4. QED
  BY <1>1, <1>2, <1>3

\* Fewer steps apart than the ring is long is not the same place.
LEMMA RingApart ==
  ASSUME NEW a \in Nat, NEW n \in Nat \ {0}, NEW x \in 0..(n - 1), NEW y \in 0..(n - 1), x < y
  PROVE  (a + x) % n # (a + y) % n
<1> DEFINE q == a \div n
           r == a % n
<1>1. q \in Nat /\ r \in 0..(n - 1) /\ a = q * n + r
  BY Division
<1> HIDE DEF q, r
<1>2. ASSUME NEW z \in 0..(n - 1)
      PROVE  (a + z) % n = IF r + z < n THEN r + z ELSE r + z - n
  <2>1. CASE r + z < n
    <3>1. r + z \in 0..(n - 1) /\ a + z = q * n + (r + z)
      BY <1>1, <2>1
    <3>2. (q * n + (r + z)) % n = r + z
      BY <1>1, <3>1, DivisionIsUnique
    <3>3. QED
      BY <2>1, <3>1, <3>2
  <2>2. CASE ~(r + z < n)
    <3>1. r + z - n \in 0..(n - 1) /\ q + 1 \in Nat /\ a + z = (q + 1) * n + (r + z - n)
      BY <1>1, <2>2
    <3>2. ((q + 1) * n + (r + z - n)) % n = r + z - n
      BY <3>1, DivisionIsUnique
    <3>3. QED
      BY <2>2, <3>1, <3>2
  <2>3. QED
    BY <2>1, <2>2
<1>3. (a + x) % n = IF r + x < n THEN r + x ELSE r + x - n
  BY <1>2
<1>4. (a + y) % n = IF r + y < n THEN r + y ELSE r + y - n
  BY <1>2
<1>5. QED
  BY <1>1, <1>3, <1>4

\* The roles have ordinals of their own.
LEMMA Ordinals ==
  ASSUME NEW role \in Range(Role)
  PROVE  Ordinal(role) \in 0..3 /\ Role[Ordinal(role) + 1] = role
<1>1. \E n \in 0..3 : Role[n + 1] = role
  <2>1. PICK i \in DOMAIN Role : role = Role[i]
    BY DEF Range
  <2>2. i \in 1..4
    BY <2>1 DEF Role
  <2>3. i - 1 \in 0..3 /\ (i - 1) + 1 = i
    BY <2>2
  <2>4. QED
    BY <2>1, <2>3
<1>2. QED
  BY <1>1 DEF Ordinal

\* The cycles of one term of the rotation.
LEMMA TermIsPositive ==
  ASSUME IsPolicy(policy)
  PROVE  Max({policy.cadence, 1}) \in Nat \ {0}
<1>1. policy.cadence \in Nat
  BY DEF IsPolicy
<1>2. \E x \in {policy.cadence, 1} : \A y \in {policy.cadence, 1} : x >= y
  BY <1>1
<1>3. Max({policy.cadence, 1}) \in {policy.cadence, 1} /\ Max({policy.cadence, 1}) >= 1
  BY <1>2 DEF Max
<1>4. QED
  BY <1>1, <1>3

\* A roster with a human on it has a first one.
LEMMA FirstHumanIsHuman ==
  ASSUME IsPolicy(policy), policy.humans # {}
  PROVE  FirstHuman \in policy.humans
<1> DEFINE roster == policy.roster
           places == {i \in DOMAIN roster : roster[i] \in policy.humans}
<1>1. policy.humans \subseteq Range(roster)
  BY DEF IsPolicy
<1>2. places # {} /\ places \in SUBSET Nat /\ DOMAIN roster = 1..Len(roster) /\ Len(roster) \in Nat
  BY <1>1 DEF IsPolicy, Range
<1>3. PICK i \in places : \A j \in places : i <= j
  <2> HIDE DEF places
  <2>1. QED
    BY <1>2, LeastNatural
<1>4. \A j \in 1..(i - 1) : roster[j] \notin policy.humans
  <2> SUFFICES ASSUME NEW j \in 1..(i - 1), roster[j] \in policy.humans
               PROVE  FALSE
    OBVIOUS
  <2>1. j \in places /\ ~(i <= j)
    BY <1>2, <1>3
  <2>2. QED
    BY <1>3, <2>1
<1>5. \E k \in DOMAIN roster : /\ roster[k] \in policy.humans
                               /\ \A j \in 1..(k - 1) : roster[j] \notin policy.humans
  BY <1>3, <1>4
<1>6. QED
  BY <1>5 DEF FirstHuman

\* A quotient is no larger than what is divided.
LEMMA QuotientIsSmaller ==
  ASSUME NEW a \in Nat, NEW n \in Nat \ {0}
  PROVE  a \div n \in 0..a
<1> DEFINE q == a \div n
           r == a % n
<1>1. q \in Nat /\ r \in Nat /\ a = q * n + r
  BY Division
<1> HIDE DEF q, r
<1>2. n - 1 \in Nat /\ q * n = q * (n - 1) + q
  BY <1>1
<1>3. q * (n - 1) \in Nat
  BY <1>1, <1>2
<1>4. q <= a
  BY <1>1, <1>2, <1>3
<1>5. QED
  BY <1>1, <1>4 DEF q

\* A number below another one is its own remainder.
LEMMA NoWrap ==
  ASSUME NEW w \in Nat \ {0}, NEW x \in 0..(w - 1)
  PROVE  x % w = x
<1>1. (0 * w + x) % w = x
  BY DivisionIsUnique
<1>2. 0 * w + x = x
  OBVIOUS
<1>3. QED
  BY <1>1, <1>2

\* What RotationIsFair says, of one cycle to start from.
LEMMA RotationOfAnyCycle ==
  ASSUME IsPolicy(policy), NEW start \in Nat, NEW critical \in BOOLEAN, Assignable(critical),
         NEW role \in Range(policy.roles), Word \in Nat \ {0}
  PROVE  IF Pinned(role, critical)
         THEN ActorFor(role, critical, start) \in policy.humans
         ELSE start + Round + 3 <= Word =>
              /\ \A person \in Range(policy.roster) :
                   \E k \in 0..(Round - 1) : ActorFor(role, critical, start + k) = person
              /\ \A other \in Range(policy.roles) \ {role} :
                   ~Pinned(other, critical) /\ Len(policy.roster) >= 4 /\ IsInjective(policy.roster) =>
                     ActorFor(role, critical, start) # ActorFor(other, critical, start)
<1> DEFINE roster == policy.roster
           n == Len(roster)
           term == Max({policy.cadence, 1})
<1>1. n \in Nat \ {0} /\ DOMAIN roster = 1..n
  BY DEF Assignable, IsPolicy
<1>2. term \in Nat \ {0}
  BY TermIsPositive
<1> HIDE DEF n, term
<1>3. CASE Pinned(role, critical)
  <2>1. policy.humans # {}
    BY <1>3 DEF Assignable
  <2>2. QED
    BY <1>3, <2>1, FirstHumanIsHuman DEF ActorFor
<1>4. ASSUME ~Pinned(role, critical), start + n * term + 3 <= Word
      PROVE  /\ \A person \in Range(roster) :
                  \E k \in 0..(n * term - 1) : ActorFor(role, critical, start + k) = person
             /\ \A other \in Range(policy.roles) \ {role} :
                  ~Pinned(other, critical) /\ n >= 4 /\ IsInjective(roster) =>
                    ActorFor(role, critical, start) # ActorFor(other, critical, start)
  <2>1. \A r \in Range(policy.roles) : Ordinal(r) \in 0..3 /\ Role[Ordinal(r) + 1] = r
    <3>1. Range(policy.roles) \subseteq Range(Role)
      BY DEF IsPolicy, Range
    <3>2. QED
      BY <3>1, Ordinals
  <2>2. ASSUME NEW r \in Range(policy.roles), ~Pinned(r, critical), NEW cycle \in Nat,
               cycle + 3 < Word
        PROVE  ActorFor(r, critical, cycle) = roster[(((cycle \div term) + Ordinal(r)) % n) + 1]
    <3> DEFINE sum == (cycle \div term) + Ordinal(r)
    <3>1. sum \in 0..(Word - 1)
      <4>1. cycle \div term \in 0..cycle
        BY <1>2, QuotientIsSmaller
      <4>2. QED
        BY <2>1, <2>2, <4>1
    <3>2. sum % Word = sum
      BY <3>1, NoWrap
    <3>3. ActorFor(r, critical, cycle) = roster[((sum % Word) % n) + 1]
      BY <2>2 DEF ActorFor, Base, n, term
    <3>4. QED
      BY <3>2, <3>3
  <2>3. start \div term \in Nat
    BY <1>2, Division
  <2> DEFINE first == start \div term
  <2>4. n * term \in Nat /\ n * term >= 1 /\ start + 3 < Word
    BY <1>1, <1>2, <1>4
  <2>5. ASSUME NEW person \in Range(roster)
        PROVE  \E k \in 0..(n * term - 1) : ActorFor(role, critical, start + k) = person
    <3>1. PICK p \in 1..n : roster[p] = person
      BY <1>1 DEF Range
    <3>2. first + Ordinal(role) \in Nat /\ p - 1 \in 0..(n - 1) /\ (p - 1) + 1 = p
      BY <1>1, <2>1, <2>3
    <3> HIDE DEF first
    <3>3. PICK m \in 0..(n - 1) : ((first + Ordinal(role)) + m) % n = p - 1
      <4> DEFINE a == first + Ordinal(role)
                 b == p - 1
      <4>1. n \in Nat \ {0} /\ a \in Nat /\ b \in 0..(n - 1)
        BY <1>1, <3>2
      <4> HIDE DEF a, b
      <4>2. \E m \in 0..(n - 1) : (a + m) % n = b
        BY <4>1, RingReached
      <4>3. QED
        BY <4>2 DEF a, b
    <3>4. m \in Nat /\ m * term \in 0..(n * term - 1) /\ start + m * term \in Nat
      <4>1. m \in Nat /\ n \in Nat /\ term \in Nat \ {0} /\ m + 1 <= n
        BY <1>1, <1>2
      <4> HIDE DEF n, term
      <4>2. (m + 1) * term = m * term + term
        BY <4>1
      <4>3. (m + 1) * term <= n * term
        BY <4>1
      <4>4. m * term \in Nat /\ n * term \in Nat
        BY <4>1
      <4>5. QED
        BY <1>2, <4>1, <4>2, <4>3, <4>4
    <3>5. (start + m * term) \div term = first + m
      BY <1>2, <3>4, WholeTurns DEF first
    <3>6. (first + m) + Ordinal(role) = (first + Ordinal(role)) + m
      BY <2>1, <2>3, <3>4 DEF first
    <3>7. (start + m * term) + 3 < Word
      <4>1. n * term \in Nat /\ m * term \in 0..(n * term - 1) /\ start + n * term + 3 <= Word
        BY <1>4, <2>4, <3>4
      <4> DEFINE whole == n * term
                 turns == m * term
      <4> HIDE DEF whole, turns
      <4>2. whole \in Nat /\ turns \in 0..(whole - 1) /\ start + whole + 3 <= Word
        BY <4>1 DEF whole, turns
      <4>3. (start + turns) + 3 < Word
        BY <4>2
      <4>4. QED
        BY <4>3 DEF turns
    <3>8. ActorFor(role, critical, start + m * term) = roster[p]
      BY <1>4, <2>2, <3>2, <3>3, <3>4, <3>5, <3>6, <3>7
    <3>9. QED
      BY <3>1, <3>4, <3>8
  <2>6. ASSUME NEW other \in Range(policy.roles) \ {role}, ~Pinned(other, critical), n >= 4,
                      IsInjective(roster)
        PROVE  ActorFor(role, critical, start) # ActorFor(other, critical, start)
    <3> DEFINE x == Ordinal(role)
               y == Ordinal(other)
    <3>1. x \in 0..(n - 1) /\ y \in 0..(n - 1) /\ x # y
      BY <1>1, <2>1, <2>6
    <3> HIDE DEF first, x, y
    <3>2. (first + x) % n # (first + y) % n
      <4>1. x < y \/ y < x
        BY <1>1, <3>1
      <4>2. QED
        BY <1>1, <2>3, <3>1, <4>1, RingApart DEF first
    <3>3. (first + x) % n \in 0..(n - 1) /\ (first + y) % n \in 0..(n - 1)
      <4>1. first + x \in Nat /\ first + y \in Nat
        BY <1>1, <2>3, <3>1 DEF first
      <4>2. QED
        BY <1>1, <4>1, Division
    <3>4. ((first + x) % n) + 1 # ((first + y) % n) + 1
          /\ ((first + x) % n) + 1 \in DOMAIN roster /\ ((first + y) % n) + 1 \in DOMAIN roster
      BY <1>1, <3>2, <3>3
    <3>5. roster[((first + x) % n) + 1] # roster[((first + y) % n) + 1]
      BY <2>6, <3>4 DEF IsInjective
    <3>6. QED
      BY <1>4, <2>2, <2>6, <2>4, <3>5 DEF first, x, y
  <2>7. QED
    BY <2>5, <2>6
<1>5. QED
  BY <1>3, <1>4 DEF Round, n, term

\* The policy is one of those a scheduler is built from, and stays.
LEMMA PolicyStays == Spec => []IsPolicy(policy)
<1>1. Init => IsPolicy(policy)
  BY TeamworkAssumption DEF Init, TeamInit
<1>2. IsPolicy(policy) /\ [Next]_<<ledgerVars, teamVars, withdrawalVars, part>> => IsPolicy(policy)'
  <2>1. TeamNext => policy' = policy
    BY DEF TeamNext, Assign, Delegate, Answer, Fail, Observe, Route, Resolve
  <2>2. [Next]_<<ledgerVars, teamVars, withdrawalVars, part>> => policy' = policy
    BY <2>1 DEF Next, TeamworkAlone, LedgerAlone, SchedulerAlone, teamVars
  <2>3. QED
    BY <2>2 DEF IsPolicy
<1>3. QED
  BY <1>1, <1>2, PTL DEF Spec

\* Nobody keeps a role and nobody has two, under every policy.
THEOREM NobodyKeepsARole == Spec => []RotationIsFair
<1>1. IsPolicy(policy) => RotationIsFair
  <2> SUFFICES ASSUME IsPolicy(policy)
               PROVE  RotationIsFair
    OBVIOUS
  <2>1. Word \in Nat \ {0} /\ \A start \in 0..(Word - 1) : start \in Nat
    BY TeamworkAssumption
  <2>2. QED
    BY <2>1, RotationOfAnyCycle DEF RotationIsFair
<1>2. QED
  BY <1>1, PolicyStays, PTL
-----------------------------------------------------------------------------
(* Mastery, the fold of the update over the answers. *)

\* A nonempty set of numbers up to n has a greatest element.
LEMMA MaxUpTo ==
  ASSUME NEW n \in Nat, NEW S \in SUBSET (0..n), S # {}
  PROVE  Max(S) \in S /\ \A y \in S : y <= Max(S)
<1> DEFINE bounds == {b \in Nat : \A y \in S : y <= b}
<1>1. n \in bounds /\ bounds \in SUBSET Nat
  OBVIOUS
<1>2. PICK b \in bounds : \A m \in bounds : b <= m
  <2> HIDE DEF bounds
  <2>1. QED
    BY <1>1, LeastNatural
<1>3. b \in S
  <2> SUFFICES ASSUME b \notin S
               PROVE  FALSE
    OBVIOUS
  <2>1. PICK y \in S : TRUE
    OBVIOUS
  <2>2. y \in 0..n /\ y <= b /\ y # b /\ b \in Nat
    BY <1>2
  <2>3. b - 1 \in bounds
    <3>1. b - 1 \in Nat
      BY <2>2
    <3>2. \A z \in S : z \in 0..n /\ z <= b /\ z # b
      BY <1>2
    <3>3. \A z \in S : z <= b - 1
      BY <2>2, <3>2
    <3>4. QED
      BY <3>1, <3>3
  <2>4. QED
    BY <1>2, <2>2, <2>3
<1>4. \A y \in S : b >= y
  BY <1>2, <1>3
<1>5. \E x \in S : \A y \in S : x >= y
  BY <1>3, <1>4
<1>6. Max(S) \in S /\ \A y \in S : Max(S) >= y
  BY <1>5 DEF Max
<1>7. QED
  BY <1>6

\* The function the fold is taken from: for a set of positions of s, the mastery after
\* the answers there.
Replay(s, g, n) ==
  g = [S \in SUBSET (1..n) |->
        IF S = {} THEN Prior ELSE Update(g[S \ {Max(S)}], s[Max(S)])]

LEMMA MasteryIsReplay ==
  ASSUME NEW s \in Seq(BOOLEAN)
  PROVE  Mastery(s) = (CHOOSE g : Replay(s, g, Len(s)))[1..Len(s)]
<1>1. Mastery(s) =
        (CHOOSE g : g = [S \in SUBSET DOMAIN s |->
           IF S = {} THEN Prior ELSE Update(g[S \ {Max(S)}], s[Max(S)])])[DOMAIN s]
  BY Zenon DEF Mastery, FoldLeft, MapThenFoldSet
<1>2. DOMAIN s = 1..Len(s)
  OBVIOUS
<1>3. QED
  BY <1>1, <1>2, Zenon DEF Replay

\* The last position of a set that has one.
LEMMA LastOfSet ==
  ASSUME NEW n \in Nat \ {0}, NEW S \in SUBSET (1..n)
  PROVE  /\ n \in S => Max(S) = n /\ S \ {n} \in SUBSET (1..(n - 1))
         /\ n \notin S => S \in SUBSET (1..(n - 1))
         /\ S # {} => Max(S) \in S /\ S \ {Max(S)} \in SUBSET (1..(n - 1))
<1>1. \A k \in 1..n : k # n => k \in 1..(n - 1)
  OBVIOUS
<1>2. S # {} => Max(S) \in S /\ \A y \in S : y <= Max(S)
  BY MaxUpTo
<1>3. ASSUME n \in S
      PROVE  Max(S) = n
  <2>1. Max(S) \in 1..n /\ n <= Max(S)
    BY <1>2, <1>3
  <2>2. QED
    BY <2>1
<1>4. n \notin S => S \in SUBSET (1..(n - 1))
  BY <1>1
<1>5. n \in S => S \ {n} \in SUBSET (1..(n - 1))
  BY <1>1
<1>6. S # {} => Max(S) \in S /\ S \ {Max(S)} \in SUBSET (1..(n - 1))
  BY <1>2, <1>3, <1>4, <1>5
<1>7. QED
  BY <1>3, <1>4, <1>5, <1>6

\* One answer more: the replay of n positions goes on to the next.
LEMMA ReplayGoesOn ==
  ASSUME NEW s, NEW n \in Nat \ {0}, NEW g, Replay(s, g, n - 1)
  PROVE  \E h : Replay(s, h, n)
<1> DEFINE h == [S \in SUBSET (1..n) |-> IF n \in S THEN Update(g[S \ {n}], s[n]) ELSE g[S]]
<1>1. ASSUME NEW S \in SUBSET (1..(n - 1))
      PROVE  /\ S \in SUBSET (1..n) /\ h[S] = g[S]
             /\ g[S] = IF S = {} THEN Prior ELSE Update(g[S \ {Max(S)}], s[Max(S)])
  <2>1. S \in SUBSET (1..n) /\ n \notin S
    OBVIOUS
  <2>2. QED
    BY <2>1 DEF Replay
<1>2. ASSUME NEW S \in SUBSET (1..n)
      PROVE  h[S] = IF S = {} THEN Prior ELSE Update(h[S \ {Max(S)}], s[Max(S)])
  <2>1. CASE n \in S
    <3>1. h[S] = Update(g[S \ {n}], s[n]) /\ S # {}
      BY <2>1
    <3> HIDE DEF h
    <3>2. Max(S) = n /\ S \ {n} \in SUBSET (1..(n - 1))
      BY <2>1, LastOfSet
    <3>3. h[S \ {n}] = g[S \ {n}]
      BY <1>1, <3>2
    <3>4. QED
      BY <3>1, <3>2, <3>3
  <2>2. CASE n \notin S
    <3> HIDE DEF h
    <3>1. S \in SUBSET (1..(n - 1)) /\ (S # {} => S \ {Max(S)} \in SUBSET (1..(n - 1)))
      BY <2>2, LastOfSet
    <3>2. S # {} => h[S \ {Max(S)}] = g[S \ {Max(S)}]
      BY <1>1, <3>1
    <3>3. QED
      BY <1>1, <3>1, <3>2
  <2>3. QED
    BY <2>1, <2>2
<1>3. h = [S \in SUBSET (1..n) |-> h[S]]
  OBVIOUS
<1> HIDE DEF h
<1>4. h = [S \in SUBSET (1..n) |-> IF S = {} THEN Prior ELSE Update(h[S \ {Max(S)}], s[Max(S)])]
  BY <1>2, <1>3
<1>5. QED
  BY <1>4 DEF Replay

LEMMA ReplayExists ==
  ASSUME NEW s, NEW n \in Nat
  PROVE  \E g : Replay(s, g, n)
<1> DEFINE without == {m \in Nat : ~\E g : Replay(s, g, m)}
<1>1. SUFFICES ASSUME without # {}
               PROVE  FALSE
  OBVIOUS
<1>2. PICK m \in without : \A k \in without : m <= k
  <2>1. without \in SUBSET Nat
    OBVIOUS
  <2> HIDE DEF without
  <2>2. QED
    BY <1>1, <2>1, LeastNatural
<1>3. m # 0
  <2> DEFINE g == [S \in SUBSET (1..0) |-> Prior]
  <2>1. \A S \in SUBSET (1..0) : S = {}
    OBVIOUS
  <2>2. Replay(s, g, 0)
    BY <2>1 DEF Replay
  <2>3. QED
    BY <2>2
<1>4. m \in Nat \ {0} /\ m - 1 \in Nat /\ ~(m <= m - 1)
  BY <1>3
<1>5. PICK g : Replay(s, g, m - 1)
  BY <1>2, <1>4
<1>6. QED
  BY <1>4, <1>5, ReplayGoesOn

\* Two lists with the same first entries.
BeginAlike(s, t, m) == \A i \in 1..m : s[i] = t[i]

\* Replays of lists that begin alike are alike on what they share.
LEMMA ReplayIsUnique ==
  ASSUME NEW s, NEW t, NEW n \in Nat, NEW m \in 0..n, NEW g, NEW h,
         Replay(s, g, m), Replay(t, h, n), BeginAlike(s, t, m)
  PROVE  \A k \in 0..m : g[1..k] = h[1..k]
<1> DEFINE differ == {k \in 0..m : g[1..k] # h[1..k]}
<1>1. SUFFICES ASSUME differ # {}
               PROVE  FALSE
  OBVIOUS
<1>2. PICK k \in differ : \A j \in differ : k <= j
  <2>1. differ \in SUBSET Nat
    OBVIOUS
  <2> HIDE DEF differ
  <2>2. QED
    BY <1>1, <2>1, LeastNatural
<1>3. k \in 0..m /\ 1..k \in SUBSET (1..m) /\ 1..k \in SUBSET (1..n)
  OBVIOUS
<1>4. /\ g[1..k] = IF 1..k = {} THEN Prior ELSE Update(g[(1..k) \ {Max(1..k)}], s[Max(1..k)])
      /\ h[1..k] = IF 1..k = {} THEN Prior ELSE Update(h[(1..k) \ {Max(1..k)}], t[Max(1..k)])
  BY <1>3 DEF Replay
<1>5. k # 0
  <2>1. k = 0 => 1..k = {}
    OBVIOUS
  <2>2. QED
    BY <1>2, <1>4, <2>1
<1>6. /\ k - 1 \in 0..m /\ ~(k <= k - 1) /\ k \in 1..m
      /\ 1..k # {} /\ Max(1..k) = k /\ (1..k) \ {k} = 1..(k - 1)
  <2>1. k - 1 \in 0..m /\ ~(k <= k - 1) /\ k \in 1..m /\ k \in 1..k /\ (1..k) \ {k} = 1..(k - 1)
    BY <1>3, <1>5
  <2>2. Max(1..k) = k
    BY <2>1, LastOfSet
  <2>3. QED
    BY <2>1, <2>2
<1>7. g[1..(k - 1)] = h[1..(k - 1)]
  BY <1>2, <1>6
<1>8. s[k] = t[k]
  BY <1>6 DEF BeginAlike
<1>9. QED
  BY <1>2, <1>4, <1>6, <1>7, <1>8

\* Mastery before the first answer, and after one more.
LEMMA MasteryUnfolds ==
  /\ Mastery(<<>>) = Prior
  /\ \A s \in Seq(BOOLEAN), b \in BOOLEAN : Mastery(Append(s, b)) = Update(Mastery(s), b)
<1>1. Mastery(<<>>) = Prior
  <2> DEFINE g == CHOOSE g : Replay(<<>>, g, 0)
  <2>1. Replay(<<>>, g, 0)
    BY ReplayExists
  <2>2. Mastery(<<>>) = g[1..0]
    <3>1. <<>> \in Seq(BOOLEAN) /\ Len(<<>>) = 0
      OBVIOUS
    <3>2. QED
      BY <3>1, MasteryIsReplay
  <2> HIDE DEF g
  <2>3. 1..0 = {} /\ 1..0 \in SUBSET (1..0)
    OBVIOUS
  <2>4. QED
    BY <2>1, <2>2, <2>3 DEF Replay
<1>2. ASSUME NEW s \in Seq(BOOLEAN), NEW b \in BOOLEAN
      PROVE  Mastery(Append(s, b)) = Update(Mastery(s), b)
  <2> DEFINE n == Len(s)
             t == Append(s, b)
             g == CHOOSE g : Replay(s, g, n)
             h == CHOOSE h : Replay(t, h, n + 1)
  <2>1. /\ n \in Nat /\ n + 1 \in Nat /\ n \in 0..(n + 1) /\ n \in 0..n
        /\ t \in Seq(BOOLEAN) /\ Len(t) = n + 1 /\ t[n + 1] = b
        /\ \A i \in 1..n : s[i] = t[i]
    OBVIOUS
  <2>2. Replay(s, g, n) /\ Replay(t, h, n + 1)
    <3>1. (\E x : Replay(s, x, n)) /\ \E x : Replay(t, x, n + 1)
      <4> HIDE DEF n, t
      <4>1. QED
        BY <2>1, ReplayExists
    <3>2. QED
      BY <3>1
  <2>3. Mastery(s) = g[1..n] /\ Mastery(t) = h[1..(n + 1)]
    BY <2>1, MasteryIsReplay
  <2> HIDE DEF n, t, g, h
  <2>4. g[1..n] = h[1..n]
    <3>1. \A k \in 0..n : g[1..k] = h[1..k]
      <4> DEFINE l == n + 1
      <4>1. l \in Nat /\ n \in 0..l
        BY <2>1
      <4>2. Replay(t, h, l)
        BY <2>2
      <4> HIDE DEF l
      <4>3. Replay(s, g, n)
        BY <2>2
      <4>4. BeginAlike(s, t, n)
        BY <2>1 DEF BeginAlike
      <4>5. QED
        BY <4>1, <4>2, <4>3, <4>4, ReplayIsUnique
    <3>2. QED
      BY <2>1, <3>1
  <2>5. h[1..(n + 1)] = Update(h[1..n], b)
    <3>1. 1..(n + 1) \in SUBSET (1..(n + 1)) /\ n + 1 \in 1..(n + 1) /\ n + 1 \in Nat \ {0}
          /\ (1..(n + 1)) \ {n + 1} = 1..n
      BY <2>1
    <3>2. Max(1..(n + 1)) = n + 1
      BY <3>1, LastOfSet
    <3>3. \A S \in SUBSET (1..(n + 1)) :
            h[S] = IF S = {} THEN Prior ELSE Update(h[S \ {Max(S)}], t[Max(S)])
      BY <2>2 DEF Replay
    <3>4. h[1..(n + 1)] = Update(h[(1..(n + 1)) \ {Max(1..(n + 1))}], t[Max(1..(n + 1))])
      BY <3>1, <3>3
    <3>5. QED
      BY <2>1, <3>1, <3>2, <3>4
  <2>6. QED
    BY <2>3, <2>4, <2>5 DEF t
<1>3. QED
  BY <1>1, <1>2

\* What anybody can come down to: a miss at this mastery leads back to it.
Floor == 1142

\* An answer moves mastery the right way within these limits, and not out of them.
LEMMA UpdateMoves ==
  ASSUME NEW p \in Int, Floor <= p, p <= Unit
  PROVE  /\ Update(p, TRUE) \in Int /\ p <= Update(p, TRUE) /\ Update(p, TRUE) <= Unit
         /\ Update(p, FALSE) \in Int /\ Floor <= Update(p, FALSE) /\ Update(p, FALSE) <= p
<1>1. p \in Int /\ 1142 <= p /\ p <= 10000
  BY DEF Floor, Unit
<1> DEFINE Credited(q) == q + ((10000 - q) \div 10)
           Quotient(a, d) == a \div d
<1>2. ASSUME NEW q \in Int, 0 <= q, q <= 10000
      PROVE  /\ Credited(q) \in Int /\ q <= Credited(q) /\ Credited(q) <= 10000
             /\ 10 * Credited(q) <= 9 * q + 10000
             /\ 9 * q + 9991 <= 10 * Credited(q)
  BY <1>2
<1>3. ASSUME NEW a \in Nat, NEW d \in Nat \ {0}
      PROVE  /\ Quotient(a, d) \in Nat /\ Quotient(a, d) * d <= a
             /\ \A q \in Nat : q * d <= a => q <= Quotient(a, d)
             /\ \A q \in Nat : a <= q * d => Quotient(a, d) <= q
  <2> DEFINE r == a % d
             e == a \div d
  <2>1. e \in Nat /\ r \in 0..(d - 1) /\ a = e * d + r
    BY Division
  <2> HIDE DEF e, r
  <2>2. ASSUME NEW q \in Nat, q * d <= a, e < q
        PROVE  FALSE
    <3>1. (e + 1) * d <= q * d
      BY <2>1, <2>2
    <3>2. (e + 1) * d = e * d + d
      BY <2>1
    <3>3. QED
      BY <2>1, <2>2, <3>1, <3>2
  <2>3. ASSUME NEW q \in Nat, a <= q * d, q < e
        PROVE  FALSE
    <3>1. (q + 1) * d <= e * d
      BY <2>1, <2>3
    <3>2. (q + 1) * d = q * d + d
      BY <2>1
    <3>3. QED
      BY <2>1, <2>3, <3>1, <3>2
  <2>4. QED
    BY <2>1, <2>2, <2>3 DEF e
<1> HIDE DEF Credited, Quotient
<1>4. Update(p, TRUE) \in Int /\ p <= Update(p, TRUE) /\ Update(p, TRUE) <= Unit
  <2> DEFINE a == (p * 9) * 10000
             d == p * 9 + (10000 - p) * 2
             post == Quotient(a, d)
             hit == Update(p, TRUE)
  <2>1. a = 90000 * p /\ d = 20000 + 7 * p /\ a \in Nat /\ d \in Nat \ {0}
    BY <1>1
  <2>2. p * d <= a
    <3>1. p * d = 20000 * p + 7 * (p * p) /\ p * p <= 10000 * p
      BY <1>1, <2>1
    <3>2. QED
      BY <1>1, <2>1, <3>1
  <2>3. a <= 10000 * d
    BY <1>1, <2>1
  <2> HIDE DEF a, d
  <2>4. post \in Int /\ p <= post /\ post <= 10000
    <3>1. p \in Nat /\ 10000 \in Nat /\ a \in Nat /\ d \in Nat \ {0}
      BY <1>1, <2>1
    <3>2. QED
      BY <1>3, <2>2, <2>3, <3>1
  <2>5. hit = Credited(post)
    BY DEF Update, Unit, a, d, Credited, Quotient
  <2> HIDE DEF post, hit
  <2>6. hit \in Int /\ post <= hit /\ hit <= 10000
    <3>1. 0 <= post
      BY <1>1, <2>4
    <3>2. QED
      BY <1>2, <2>4, <2>5, <3>1
  <2>7. hit \in Int /\ p <= hit /\ hit <= Unit
    BY <1>1, <2>4, <2>6 DEF Unit
  <2>8. QED
    BY <2>7, Zenon DEF hit
<1>5. Update(p, FALSE) \in Int /\ Floor <= Update(p, FALSE) /\ Update(p, FALSE) <= p
  <2> DEFINE a == (p * 1) * 10000
             d == p * 1 + (10000 - p) * 8
             post == Quotient(a, d)
             up == Credited(post)
             miss == Update(p, FALSE)
  <2>1. a = 10000 * p /\ d = 80000 - 7 * p /\ a \in Nat /\ d \in Nat \ {0}
    BY <1>1
  <2>2. a <= 10000 * d /\ 158 * d <= a
    BY <1>1, <2>1
  <2> HIDE DEF a, d
  <2>3. post \in Int /\ 158 <= post /\ post <= 10000 /\ post * d <= a
    <3>1. post \in Nat /\ post * d <= a
      BY <1>3, <2>1
    <3>2. 158 \in Nat /\ 10000 \in Nat
      OBVIOUS
    <3>3. 158 <= post /\ post <= 10000
      BY <1>3, <2>1, <2>2, <3>2
    <3>4. QED
      BY <3>1, <3>3
  <2>4. miss = up
    BY DEF Update, Unit, a, d, Credited, Quotient
  <2>5. up \in Int /\ 10 * up <= 9 * post + 10000 /\ 9 * post + 9991 <= 10 * up
    <3>1. 0 <= post
      BY <2>3
    <3>2. QED
      BY <1>2, <2>3, <3>1
  <2> HIDE DEF post, up, miss
  <2>6. Floor <= up
    BY <2>3, <2>5 DEF Floor
  <2>7. ASSUME p = 1142
        PROVE  up <= p
    <3>1. d = 72006 /\ a = 11420000
      BY <2>1, <2>7
    <3>2. post <= 158
      BY <2>3, <3>1
    <3>3. up <= p
      BY <2>3, <2>5, <2>7, <3>2
    <3>4. QED
      BY <3>3
  <2>8. ASSUME p # 1142
        PROVE  up <= p
    <3>1. 7 * p - 8000 \in Nat /\ 10000 - p \in Nat
      BY <1>1, <2>8
    <3>2. (7 * p - 8000) * (10000 - p) >= 0
      BY <3>1
    <3>3. (7 * p - 8000) * (10000 - p) = 78000 * p - 7 * (p * p) - 80000000
      BY <1>1
    <3>4. (10 * p - 10000) * d = 870000 * p - 70 * (p * p) - 800000000
      BY <1>1, <2>1
    <3>5. (9 * post) * d <= 90000 * p
      <4>1. (9 * post) * d = 9 * (post * d)
        BY <2>1, <2>3
      <4>2. post * d \in Nat
        BY <2>1, <2>3
      <4>3. QED
        BY <1>1, <2>1, <2>3, <4>1, <4>2
    <3>6. (9 * post) * d <= (10 * p - 10000) * d
      <4>1. p * p \in Nat
        BY <1>1
      <4>2. 90000 * p <= (10 * p - 10000) * d
        BY <1>1, <3>2, <3>3, <3>4, <4>1
      <4>3. (9 * post) * d \in Nat /\ (10 * p - 10000) * d \in Int
        BY <1>1, <2>1, <2>3
      <4>4. QED
        BY <1>1, <3>5, <4>2, <4>3
    <3>7. 9 * post <= 10 * p - 10000
      <4>1. ASSUME NEW x \in Int, NEW y \in Int, x * d <= y * d
            PROVE  x <= y
        <5>1. x - y \in Int /\ (x - y) * d <= 0
          BY <2>1, <4>1
        <5>2. x - y > 0 => (x - y) * d > 0
          BY <2>1, <5>1
        <5>3. QED
          BY <2>1, <5>1, <5>2
      <4>2. 9 * post \in Int /\ 10 * p - 10000 \in Int
        BY <1>1, <2>3
      <4>3. QED
        BY <3>6, <4>1, <4>2
    <3>8. up <= p
      BY <1>1, <2>3, <2>5, <3>7
    <3>9. QED
      BY <3>8
  <2>9. miss \in Int /\ Floor <= miss /\ miss <= p
    BY <2>4, <2>5, <2>6, <2>7, <2>8
  <2>10. QED
    BY <2>9, Zenon DEF miss
<1>6. QED
  BY <1>4, <1>5

\* Whatever somebody answered, mastery stays within these limits.
LEMMA MasteryStaysWithin ==
  ASSUME NEW s \in Seq(BOOLEAN)
  PROVE  Mastery(s) \in Int /\ Floor <= Mastery(s) /\ Mastery(s) <= Unit
<1> DEFINE Within(q) == q \in Int /\ Floor <= q /\ q <= Unit
           beyond == {n \in Nat : \E t \in Seq(BOOLEAN) : Len(t) = n /\ ~Within(Mastery(t))}
<1>1. \A q : Within(q) => Within(Update(q, TRUE)) /\ Within(Update(q, FALSE))
  <2>1. ASSUME NEW q, Within(q)
        PROVE  Within(Update(q, TRUE)) /\ Within(Update(q, FALSE))
    <3>1. /\ Update(q, TRUE) \in Int /\ q <= Update(q, TRUE) /\ Update(q, TRUE) <= Unit
          /\ Update(q, FALSE) \in Int /\ Floor <= Update(q, FALSE) /\ Update(q, FALSE) <= q
      BY <2>1, UpdateMoves, Zenon
    <3> DEFINE hit == Update(q, TRUE)
               miss == Update(q, FALSE)
    <3> HIDE DEF hit, miss
    <3>2. /\ hit \in Int /\ q <= hit /\ hit <= Unit
          /\ miss \in Int /\ Floor <= miss /\ miss <= q
      BY <3>1, Zenon DEF hit, miss
    <3>3. Within(hit) /\ Within(miss)
      BY <2>1, <3>2 DEF Floor, Unit
    <3>4. QED
      BY <3>3, Zenon DEF hit, miss
  <2>2. QED
    BY <2>1, Zenon
<1>2. Within(Mastery(<<>>))
  <2>1. Within(Prior)
    BY DEF Prior, Floor, Unit
  <2>2. QED
    BY <2>1, MasteryUnfolds
<1> HIDE DEF Within
<1>3. SUFFICES ASSUME beyond # {}
               PROVE  FALSE
  <2>1. \A t \in Seq(BOOLEAN) : Len(t) \in Nat
    OBVIOUS
  <2>2. beyond = {} => Within(Mastery(s))
    BY <2>1
  <2>3. QED
    BY <2>2 DEF Within
<1>4. PICK n \in beyond : \A m \in beyond : n <= m
  <2>1. beyond \in SUBSET Nat
    OBVIOUS
  <2> HIDE DEF beyond
  <2>2. QED
    BY <1>3, <2>1, LeastNatural
<1>5. PICK t \in Seq(BOOLEAN) : Len(t) = n /\ ~Within(Mastery(t))
  BY <1>4
<1>6. t # <<>>
  BY <1>2, <1>5
<1> DEFINE front == SubSeq(t, 1, n - 1)
           last == t[n]
<1>7. /\ front \in Seq(BOOLEAN) /\ last \in BOOLEAN /\ t = Append(front, last)
      /\ Len(front) = n - 1 /\ n - 1 \in Nat /\ ~(n <= n - 1)
  BY <1>5, <1>6
<1> HIDE DEF front, last
<1>8. Within(Mastery(front))
  BY <1>4, <1>7
<1>9. Mastery(t) = Update(Mastery(front), last)
  BY <1>7, MasteryUnfolds
<1>10. last = TRUE \/ last = FALSE
  BY <1>7
<1>11. QED
  BY <1>1, <1>5, <1>8, <1>9, <1>10, Zenon

-----------------------------------------------------------------------------
(* The ledger. *)

\* The state of the ledger, with what makes the view right: what was at the threshold
\* all the time is so now, what is so now was so at some time, and the counts lie between
\* the two on the pairs that were looked at.
LedgerInv ==
  /\ answers \in [Pair -> Seq(BOOLEAN)]
  /\ IsFiniteSet({x \in Pair : answers[x] # <<>>})
  /\ view \in View \cup {NoView}
  /\ ever \subseteq Pair /\ IsFiniteSet(ever) /\ always \subseteq ever
  /\ view # NoView =>
       /\ always \subseteq Redundant(answers) /\ Redundant(answers) \subseteq ever
       /\ \A c \in Concept :
            /\ Cardinality({x \in always : x \notin view.todo /\ x[2] = c}) <= view.counts[c]
            /\ view.counts[c] <= Cardinality({x \in ever : x \notin view.todo /\ x[2] = c})

\* Nobody is at the threshold without an answer.
LEMMA OnlyAnswersCount ==
  ASSUME NEW rows \in [Pair -> Seq(BOOLEAN)], IsFiniteSet({x \in Pair : rows[x] # <<>>})
  PROVE  /\ Redundant(rows) \subseteq {x \in Pair : rows[x] # <<>>}
         /\ IsFiniteSet(Redundant(rows))
<1>1. ASSUME NEW x \in Pair, x \in Redundant(rows)
      PROVE  rows[x] # <<>>
  <2>1. Mastery(rows[x]) >= Threshold
    BY <1>1 DEF Redundant
  <2>2. Mastery(<<>>) = 3000
    BY MasteryUnfolds DEF Prior
  <2>3. Mastery(<<>>) # Mastery(rows[x])
    BY <2>1, <2>2 DEF Threshold
  <2>4. QED
    BY <2>3
<1>2. Redundant(rows) \subseteq {x \in Pair : rows[x] # <<>>}
  BY <1>1 DEF Redundant
<1>3. QED
  BY <1>2, FS_Subset

\* A statement on the table keeps the ledger's invariant, whatever the new rows are, if
\* only finitely many pairs have answers in them.
LEMMA ChangeKeepsLedger ==
  ASSUME LedgerInv, NEW rows \in [Pair -> Seq(BOOLEAN)],
         IsFiniteSet({x \in Pair : rows[x] # <<>>}), Change(rows)
  PROVE  LedgerInv'
<1>1. answers' = rows /\ view' = view
  BY DEF Change
<1>2. Redundant(rows) \subseteq Pair /\ IsFiniteSet(Redundant(rows))
  BY OnlyAnswersCount DEF Redundant
<1>3. Redundant(answers)' = Redundant(rows)
  BY <1>1 DEF Redundant, Mastery
<1>4. CASE view = NoView
  <2>1. ever' = {} /\ always' = {}
    BY <1>4 DEF Change
  <2>2. QED
    BY <1>1, <1>4, <2>1, FS_EmptySet DEF LedgerInv
<1>5. CASE view # NoView
  <2>1. ever' = ever \cup Redundant(rows) /\ always' = always \cap Redundant(rows)
    BY <1>5 DEF Change
  <2>2. ever' \subseteq Pair /\ IsFiniteSet(ever') /\ always' \subseteq ever'
    BY <1>2, <2>1, FS_Union DEF LedgerInv
  <2>3. always' \subseteq Redundant(rows) /\ Redundant(rows) \subseteq ever'
    BY <2>1
  <2>4. ASSUME NEW c \in Concept
        PROVE  /\ Cardinality({x \in always' : x \notin view.todo /\ x[2] = c}) <= view.counts[c]
               /\ view.counts[c] <= Cardinality({x \in ever' : x \notin view.todo /\ x[2] = c})
    <3> DEFINE Seen(who) == {x \in who : x \notin view.todo /\ x[2] = c}
    <3>1. Seen(always') \subseteq Seen(always) /\ Seen(ever) \subseteq Seen(ever')
      BY <2>1
    <3>2. /\ Seen(always) \subseteq ever /\ Seen(always') \subseteq ever'
          /\ Seen(ever) \subseteq ever /\ Seen(ever') \subseteq ever'
      BY <2>2 DEF LedgerInv
    <3>3. /\ IsFiniteSet(Seen(always)) /\ IsFiniteSet(Seen(ever'))
          /\ IsFiniteSet(Seen(always')) /\ IsFiniteSet(Seen(ever))
      BY <2>2, <3>2, FS_Subset DEF LedgerInv
    <3>4. Cardinality(Seen(always)) <= view.counts[c] /\ view.counts[c] <= Cardinality(Seen(ever))
      BY <1>5 DEF LedgerInv
    <3>5. view.counts[c] \in Nat
      BY <1>5 DEF LedgerInv, View
    <3> HIDE DEF Seen
    <3>6. /\ Cardinality(Seen(always')) <= Cardinality(Seen(always))
          /\ Cardinality(Seen(ever)) <= Cardinality(Seen(ever'))
      BY <3>1, <3>3, FS_Subset
    <3>7. /\ Cardinality(Seen(always)) \in Nat /\ Cardinality(Seen(always')) \in Nat
          /\ Cardinality(Seen(ever)) \in Nat /\ Cardinality(Seen(ever')) \in Nat
      BY <3>3, FS_CardinalityType
    <3>8. /\ Cardinality(Seen(always')) <= view.counts[c]
          /\ view.counts[c] <= Cardinality(Seen(ever'))
      BY <3>4, <3>5, <3>6, <3>7
    <3>9. QED
      BY <3>8 DEF Seen
  <2>5. QED
    BY <1>1, <1>3, <2>2, <2>3, <2>4 DEF LedgerInv
<1>6. QED
  BY <1>4, <1>5

\* Looking at a pair counts it if and only if it is at the threshold now.
LEMMA LookKeepsLedger ==
  ASSUME LedgerInv, NEW p \in Pair, LookAt(p)
  PROVE  LedgerInv'
<1>1. /\ view # NoView /\ view \in View /\ p \in view.todo
      /\ answers' = answers /\ ever' = ever /\ always' = always
  BY DEF LookAt, LedgerInv
<1>2. view.todo \in SUBSET Pair /\ view.counts \in [Concept -> Nat] /\ p[2] \in Concept
  BY <1>1 DEF View, Pair
<1> DEFINE hit == p \in Redundant(answers)
           counts == IF hit THEN [view.counts EXCEPT ![p[2]] = @ + 1] ELSE view.counts
<1>3. view' = [todo |-> view.todo \ {p}, counts |-> counts]
  BY DEF LookAt
<1>4. counts \in [Concept -> Nat]
  BY <1>2
<1>5. view' \in View /\ view' # NoView
  <2> HIDE DEF counts
  <2>1. view' \in View
    BY <1>2, <1>3, <1>4 DEF View
  <2>2. QED
    BY <2>1, NoViewAssumption
<1>6. Redundant(answers)' = Redundant(answers)
  BY <1>1 DEF Redundant, Mastery
<1>7. ASSUME NEW c \in Concept
      PROVE  /\ Cardinality({x \in always : x \notin view.todo \ {p} /\ x[2] = c}) <= counts[c]
             /\ counts[c] <= Cardinality({x \in ever : x \notin view.todo \ {p} /\ x[2] = c})
  <2> DEFINE Seen(who) == {x \in who : x \notin view.todo /\ x[2] = c}
             Now(who) == {x \in who : x \notin view.todo \ {p} /\ x[2] = c}
  <2>1. /\ Cardinality(Seen(always)) <= view.counts[c]
        /\ view.counts[c] <= Cardinality(Seen(ever))
        /\ always \subseteq Redundant(answers) /\ Redundant(answers) \subseteq ever
        /\ always \subseteq ever
    BY <1>1 DEF LedgerInv
  <2>2. /\ IsFiniteSet(Seen(always)) /\ IsFiniteSet(Seen(ever))
        /\ IsFiniteSet(Now(always)) /\ IsFiniteSet(Now(ever))
    <3>1. IsFiniteSet(ever)
      BY DEF LedgerInv
    <3>2. /\ Seen(always) \subseteq ever /\ Seen(ever) \subseteq ever
          /\ Now(always) \subseteq ever /\ Now(ever) \subseteq ever
      BY <2>1
    <3> HIDE DEF Seen, Now
    <3>3. QED
      BY <3>1, <3>2, FS_Subset
  <2>3. /\ Cardinality(Seen(always)) \in Nat /\ Cardinality(Seen(ever)) \in Nat
        /\ Cardinality(Now(always)) \in Nat /\ Cardinality(Now(ever)) \in Nat
    BY <2>2, FS_CardinalityType
  <2>4. view.counts[c] \in Nat
    BY <1>2
  <2>5. CASE hit /\ c = p[2]
    <3>1. counts[c] = view.counts[c] + 1
      BY <1>2, <2>5
    <3>2. Now(always) \subseteq Seen(always) \cup {p}
      OBVIOUS
    <3>3. Now(ever) = Seen(ever) \cup {p} /\ p \notin Seen(ever) /\ p \notin Seen(always)
      BY <1>1, <2>1, <2>5
    <3> HIDE DEF Seen, Now, counts
    <3>4. Cardinality(Now(ever)) = Cardinality(Seen(ever)) + 1
      BY <2>2, <3>3, FS_AddElement
    <3>5. Cardinality(Now(always)) <= Cardinality(Seen(always)) + 1
      <4>1. IsFiniteSet(Seen(always) \cup {p})
            /\ Cardinality(Seen(always) \cup {p}) = Cardinality(Seen(always)) + 1
        BY <2>2, <3>3, FS_AddElement
      <4>2. QED
        BY <3>2, <4>1, FS_Subset
    <3>6. Cardinality(Now(always)) <= counts[c] /\ counts[c] <= Cardinality(Now(ever))
      BY <2>1, <2>3, <2>4, <3>1, <3>4, <3>5
    <3>7. QED
      BY <3>6 DEF Now
  <2>6. CASE ~(hit /\ c = p[2])
    <3>1. counts[c] = view.counts[c]
      BY <1>2, <2>6
    <3>2. Now(always) \subseteq Seen(always) /\ Seen(ever) \subseteq Now(ever)
      BY <2>1, <2>6
    <3> HIDE DEF Seen, Now, counts
    <3>3. /\ Cardinality(Now(always)) <= Cardinality(Seen(always))
          /\ Cardinality(Seen(ever)) <= Cardinality(Now(ever))
      BY <2>2, <3>2, FS_Subset
    <3>4. Cardinality(Now(always)) <= counts[c] /\ counts[c] <= Cardinality(Now(ever))
      BY <2>1, <2>3, <2>4, <3>1, <3>3
    <3>5. QED
      BY <3>4 DEF Now
  <2>7. QED
    BY <2>5, <2>6
<1>8. view'.todo = view.todo \ {p} /\ view'.counts = counts
  BY <1>3
<1> HIDE DEF counts, hit
<1>9. QED
  BY <1>1, <1>5, <1>6, <1>7, <1>8 DEF LedgerInv

\* The invariant of the ledger holds in every state a team reaches.
LEMMA LedgerStays == Spec => []LedgerInv
<1>1. Init => LedgerInv
  <2>1. ASSUME LedgerInit
        PROVE  LedgerInv
    <3>1. answers = [x \in Pair |-> <<>>] /\ view = NoView /\ ever = {} /\ always = {}
      BY <2>1 DEF LedgerInit
    <3>2. answers \in [Pair -> Seq(BOOLEAN)] /\ {x \in Pair : answers[x] # <<>>} = {}
      BY <3>1
    <3>3. QED
      BY <3>1, <3>2, FS_EmptySet DEF LedgerInv
  <2>2. QED
    BY <2>1 DEF Init
<1>2. LedgerInv /\ [Next]_<<ledgerVars, teamVars, withdrawalVars, part>> => LedgerInv'
  <2> SUFFICES ASSUME LedgerInv, [Next]_<<ledgerVars, teamVars, withdrawalVars, part>>
               PROVE  LedgerInv'
    OBVIOUS
  <2>1. answers \in [Pair -> Seq(BOOLEAN)] /\ IsFiniteSet({x \in Pair : answers[x] # <<>>})
    BY DEF LedgerInv
  <2>2. ASSUME NEW p \in Pair, NEW correct \in BOOLEAN, Record(p, correct)
        PROVE  LedgerInv'
    <3> DEFINE rows == [answers EXCEPT ![p] = Append(@, correct)]
    <3>1. rows \in [Pair -> Seq(BOOLEAN)]
      BY <2>1
    <3>2. {x \in Pair : rows[x] # <<>>} \subseteq {x \in Pair : answers[x] # <<>>} \cup {p}
      BY <2>1
    <3>3. Change(rows)
      BY <2>2 DEF Record
    <3> HIDE DEF rows
    <3>4. IsFiniteSet({x \in Pair : rows[x] # <<>>})
      BY <2>1, <3>2, FS_AddElement, FS_Subset
    <3>5. QED
      BY <3>1, <3>3, <3>4, ChangeKeepsLedger
  <2>3. ASSUME NEW p \in Person, DeleteActor(p)
        PROVE  LedgerInv'
    <3> DEFINE rows == [x \in Pair |-> IF x[1] = p THEN <<>> ELSE answers[x]]
    <3>1. rows \in [Pair -> Seq(BOOLEAN)]
      <4>1. <<>> \in Seq(BOOLEAN)
        OBVIOUS
      <4>2. \A x \in Pair : answers[x] \in Seq(BOOLEAN)
        BY <2>1
      <4>3. QED
        BY <4>1, <4>2
    <3>2. {x \in Pair : rows[x] # <<>>} \subseteq {x \in Pair : answers[x] # <<>>}
      BY <2>1
    <3>3. Change(rows)
      BY <2>3 DEF DeleteActor
    <3> HIDE DEF rows
    <3>4. QED
      BY <2>1, <3>1, <3>2, <3>3, FS_Subset, ChangeKeepsLedger
  <2>4. ASSUME NEW kept \in [Pair -> 0..MaxEvents], Prune(kept)
        PROVE  LedgerInv'
    <3> DEFINE Rest(x) == SubSeq(answers[x], Len(answers[x]) - kept[x] + 1, Len(answers[x]))
               rows == [x \in Pair |-> Rest(x)]
    <3>1. ASSUME NEW x \in Pair
          PROVE  Rest(x) \in Seq(BOOLEAN) /\ (answers[x] = <<>> => Rest(x) = <<>>)
      <4> DEFINE s == answers[x]
                 k == kept[x]
      <4>1. s \in Seq(BOOLEAN) /\ k \in Nat /\ k <= Len(s)
        BY <2>1, <2>4, CalibrationAssumption DEF Prune
      <4> HIDE DEF s, k
      <4>2. SubSeq(s, Len(s) - k + 1, Len(s)) \in Seq(BOOLEAN)
        BY <4>1
      <4>3. s = <<>> => SubSeq(s, Len(s) - k + 1, Len(s)) = <<>>
        BY <4>1
      <4>4. QED
        BY <4>2, <4>3 DEF s, k
    <3>2. rows \in [Pair -> Seq(BOOLEAN)]
      BY <3>1
    <3>3. {x \in Pair : rows[x] # <<>>} \subseteq {x \in Pair : answers[x] # <<>>}
      BY <3>1
    <3>4. Change(rows)
      BY <2>4 DEF Prune
    <3> HIDE DEF rows
    <3>5. QED
      BY <2>1, <3>2, <3>3, <3>4, FS_Subset, ChangeKeepsLedger
  <2>5. CASE StartView
    <3> DEFINE todo == {x \in Pair : answers[x] # <<>>}
               counts == [c \in Concept |-> 0]
    <3>1. /\ view' = [todo |-> todo, counts |-> counts] /\ answers' = answers
          /\ ever' = Redundant(answers) /\ always' = Redundant(answers)
      BY <2>5 DEF StartView
    <3>2. Redundant(answers) \subseteq todo /\ IsFiniteSet(Redundant(answers))
      BY <2>1, OnlyAnswersCount
    <3>3. Redundant(answers)' = Redundant(answers)
      BY <3>1 DEF Redundant, Mastery
    <3>4. view' \in View /\ view'.todo = todo /\ view'.counts = counts
      BY <3>1 DEF View
    <3>5. ASSUME NEW c \in Concept
          PROVE  /\ Cardinality({x \in always' : x \notin todo /\ x[2] = c}) <= counts[c]
                 /\ counts[c] <= Cardinality({x \in ever' : x \notin todo /\ x[2] = c})
      <4>1. {x \in always' : x \notin todo /\ x[2] = c} = {}
            /\ {x \in ever' : x \notin todo /\ x[2] = c} = {}
        BY <3>1, <3>2
      <4>2. counts[c] = 0
        OBVIOUS
      <4> HIDE DEF counts, todo
      <4>3. QED
        BY <4>1, <4>2, FS_EmptySet
    <3>6. IsFiniteSet({x \in Pair : answers[x] # <<>>})'
      BY <2>1, <3>1
    <3>7. Redundant(answers) \subseteq Pair
      BY DEF Redundant
    <3> HIDE DEF counts, todo
    <3>8. QED
      BY <2>1, <3>1, <3>2, <3>3, <3>4, <3>5, <3>6, <3>7 DEF LedgerInv
  <2>6. CASE EndView
    <3>1. answers' = answers /\ view' = NoView /\ ever' = {} /\ always' = {}
      BY <2>6 DEF EndView
    <3>2. QED
      BY <2>1, <3>1, FS_EmptySet DEF LedgerInv
  <2>7. ASSUME NEW p \in Pair, LookAt(p)
        PROVE  LedgerInv'
    BY <2>7, LookKeepsLedger
  <2>8. CASE UNCHANGED ledgerVars
    <3>1. answers' = answers /\ view' = view /\ ever' = ever /\ always' = always
      BY <2>8 DEF ledgerVars
    <3>2. Redundant(answers)' = Redundant(answers)
      BY <3>1 DEF Redundant, Mastery
    <3>3. QED
      BY <3>1, <3>2 DEF LedgerInv
  <2>9. CASE LedgerNext
    BY <2>2, <2>3, <2>4, <2>5, <2>6, <2>7, <2>9 DEF LedgerNext
  <2>10. QED
    BY <2>8, <2>9 DEF Next, TeamworkAlone, LedgerAlone, SchedulerAlone
<1>3. QED
  BY <1>1, <1>2, PTL DEF Spec

\* A view of the team that has looked at everybody counts nobody who was below the
\* threshold all the time and leaves nobody out who was at it all the time, however
\* recording, erasing and pruning came between its looks.
THEOREM ViewsAreOfTheirTime == Spec => []ViewIsOfItsTime
<1>1. LedgerInv => ViewIsOfItsTime
  <2> SUFFICES ASSUME LedgerInv, view # NoView, view.todo = {}, NEW c \in Concept
               PROVE  /\ Cardinality({x \in always : x[2] = c}) <= view.counts[c]
                      /\ view.counts[c] <= Cardinality({x \in ever : x[2] = c})
    BY DEF ViewIsOfItsTime
  <2>1. /\ {x \in always : x \notin view.todo /\ x[2] = c} = {x \in always : x[2] = c}
        /\ {x \in ever : x \notin view.todo /\ x[2] = c} = {x \in ever : x[2] = c}
    OBVIOUS
  <2>2. QED
    BY <2>1 DEF LedgerInv
<1>2. QED
  BY <1>1, LedgerStays, PTL

\* No answer moves mastery the wrong way, however long somebody has practised: from the
\* prior on, mastery stays between the limits within which a hit raises it and a miss
\* lowers it.
THEOREM AnswersMove == Spec => AnswersMoveMastery
<1>1. ASSUME LedgerInv, NEW p \in Pair
      PROVE  /\ answers'[p] = Append(answers[p], TRUE) =>
                  Mastery(answers'[p]) >= Mastery(answers[p])
             /\ answers'[p] = Append(answers[p], FALSE) =>
                  Mastery(answers'[p]) <= Mastery(answers[p])
  <2> DEFINE s == answers[p]
             now == Mastery(s)
             hit == Update(now, TRUE)
             miss == Update(now, FALSE)
  <2>1. s \in Seq(BOOLEAN)
    BY <1>1 DEF LedgerInv
  <2> HIDE DEF s
  <2>2. now \in Int /\ Floor <= now /\ now <= Unit
    BY <2>1, MasteryStaysWithin
  <2>3. Mastery(Append(s, TRUE)) = hit /\ Mastery(Append(s, FALSE)) = miss
    <3>1. TRUE \in BOOLEAN /\ FALSE \in BOOLEAN
      OBVIOUS
    <3>2. QED
      BY <2>1, <3>1, MasteryUnfolds, Zenon
  <2> HIDE DEF now
  <2>4. hit \in Int /\ now <= hit /\ miss \in Int /\ miss <= now
    BY <2>2, UpdateMoves, Zenon
  <2> HIDE DEF hit, miss
  <2>5. hit >= now /\ miss <= now
    BY <2>2, <2>4
  <2>6. QED
    BY <2>3, <2>5, Zenon DEF now, s
<1>2. LedgerInv /\ [Next]_<<ledgerVars, teamVars, withdrawalVars, part>>
        => [\A x \in Pair :
              /\ answers'[x] = Append(answers[x], TRUE) =>
                   Mastery(answers'[x]) >= Mastery(answers[x])
              /\ answers'[x] = Append(answers[x], FALSE) =>
                   Mastery(answers'[x]) <= Mastery(answers[x])]_ledgerVars
  BY <1>1
<1>3. QED
  BY <1>2, LedgerStays, PTL DEF Spec, AnswersMoveMastery

-----------------------------------------------------------------------------
(* The sessions. *)

-----------------------------------------------------------------------------
(* Solo sessions. *)

\* The smaller of two numbers.
LEMMA SmallerOfTwo ==
  ASSUME NEW a \in Int, NEW b \in Int
  PROVE  Min({a, b}) = IF a <= b THEN a ELSE b
BY DEF Min

\* A growth step of an accepted policy adds a day at least: from the first interval on,
\* if that is not at the cap, and a longer interval grows by no less.
LEMMA GrowthStep ==
  ASSUME NEW p \in ExpansionPolicy, Accepted(p), NEW d \in Nat, p.base <= d, d < p.cap
  PROVE  Grown(p, d) \in Nat /\ d < Grown(p, d)
<1> DEFINE b == p.base
           e == p.factor - 100
           more(x) == x * e
<1>1. /\ b \in Nat /\ p.factor \in Nat /\ p.cap \in Nat /\ e \in Nat /\ e > 0
      /\ Grown(p, b) > b
  BY DEF ExpansionPolicy, Accepted
<1>2. ASSUME NEW x \in Nat
      PROVE  /\ more(x) \in Nat /\ x * p.factor = 100 * x + more(x)
             /\ Grown(p, x) \in Nat /\ (Grown(p, x) > x <=> more(x) >= 100)
  <2>1. more(x) \in Nat /\ x * p.factor = 100 * x + more(x)
    BY <1>1, <1>2
  <2> HIDE DEF more
  <2>2. Grown(p, x) = (100 * x + more(x)) \div 100
    BY <2>1 DEF Grown
  <2>3. QED
    BY <1>2, <2>1, <2>2
<1>3. more(b) >= 100
  BY <1>1, <1>2
<1>4. more(b) <= more(d)
  <2>1. d - b \in Nat /\ d = b + (d - b)
    BY <1>1
  <2>2. more(d) = more(b) + more(d - b)
    BY <1>1, <2>1
  <2>3. more(d - b) \in Nat /\ more(b) \in Nat
    BY <1>1, <1>2, <2>1
  <2> HIDE DEF more
  <2>4. QED
    BY <2>2, <2>3
<1>5. more(b) \in Nat /\ more(d) \in Nat /\ Grown(p, d) \in Nat /\ (Grown(p, d) > d <=> more(d) >= 100)
  BY <1>1, <1>2
<1> HIDE DEF more, b
<1>6. QED
  BY <1>3, <1>4, <1>5

\* The function an interval is taken from.
Growth(p, g, n) ==
  g = [k \in 0..n |->
        IF k = 0 THEN p.base ELSE IF g[k - 1] >= p.cap THEN p.cap ELSE Grown(p, g[k - 1])]

LEMMA GrowthExists ==
  ASSUME NEW p, NEW n \in Nat
  PROVE  \E g : Growth(p, g, n)
<1> DEFINE without == {m \in Nat : ~\E g : Growth(p, g, m)}
<1>1. SUFFICES ASSUME without # {}
               PROVE  FALSE
  OBVIOUS
<1>2. PICK m \in without : \A k \in without : m <= k
  <2>1. without \in SUBSET Nat
    OBVIOUS
  <2> HIDE DEF without
  <2>2. QED
    BY <1>1, <2>1, LeastNatural
<1>3. m # 0
  <2> DEFINE g == [k \in 0..0 |-> p.base]
  <2>1. \A k \in 0..0 : k = 0
    OBVIOUS
  <2>2. Growth(p, g, 0)
    BY <2>1 DEF Growth
  <2>3. QED
    BY <2>2
<1>4. m - 1 \in Nat /\ ~(m <= m - 1)
  BY <1>3
<1>5. PICK g : Growth(p, g, m - 1)
  BY <1>2, <1>4
<1> DEFINE next == IF g[m - 1] >= p.cap THEN p.cap ELSE Grown(p, g[m - 1])
           h == [k \in 0..m |-> IF k = m THEN next ELSE g[k]]
<1>6. ASSUME NEW k \in 0..m
      PROVE  h[k] = IF k = 0 THEN p.base
                    ELSE IF h[k - 1] >= p.cap THEN p.cap ELSE Grown(p, h[k - 1])
  <2>1. CASE k = m
    <3>1. h[k] = next /\ h[k - 1] = g[m - 1] /\ k # 0
      BY <1>3, <1>4, <2>1
    <3> HIDE DEF h
    <3>2. QED
      BY <2>1, <3>1
  <2>2. CASE k # m
    <3>1. k \in 0..(m - 1) /\ h[k] = g[k] /\ (k # 0 => h[k - 1] = g[k - 1])
      BY <1>4, <2>2
    <3> HIDE DEF h
    <3>2. QED
      BY <1>5, <3>1 DEF Growth
  <2>3. QED
    BY <2>1, <2>2
<1>7. h = [k \in 0..m |-> h[k]]
  OBVIOUS
<1> HIDE DEF h
<1>8. Growth(p, h, m)
  BY <1>6, <1>7 DEF Growth
<1>9. QED
  BY <1>2, <1>8

\* It rises from the first interval on, and longer ones go on where shorter ones end.
LEMMA GrowthIsOne ==
  ASSUME NEW p \in ExpansionPolicy, Accepted(p), NEW n \in Nat, NEW m \in 0..n, NEW g, NEW h,
         Growth(p, g, m), Growth(p, h, n)
  PROVE  \A k \in 0..m : g[k] = h[k] /\ g[k] \in Nat /\ p.base <= g[k]
<1> DEFINE differ == {k \in 0..m : ~(g[k] = h[k] /\ g[k] \in Nat /\ p.base <= g[k])}
<1>1. SUFFICES ASSUME differ # {}
               PROVE  FALSE
  OBVIOUS
<1>2. PICK k \in differ : \A j \in differ : k <= j
  <2>1. differ \in SUBSET Nat
    OBVIOUS
  <2> HIDE DEF differ
  <2>2. QED
    BY <1>1, <2>1, LeastNatural
<1>3. k \in 0..m /\ k \in 0..n /\ p.base \in Nat /\ p.cap \in Nat /\ p.base <= p.cap
  BY DEF ExpansionPolicy, Accepted
<1>4. k # 0
  <2>1. k = 0 => g[k] = p.base /\ h[k] = p.base
    BY <1>3 DEF Growth
  <2>2. QED
    BY <1>2, <1>3, <2>1
<1>5. k - 1 \in 0..m /\ ~(k <= k - 1)
  BY <1>3, <1>4
<1>6. g[k - 1] = h[k - 1] /\ g[k - 1] \in Nat /\ p.base <= g[k - 1]
  BY <1>2, <1>5
<1>7. /\ g[k] = IF g[k - 1] >= p.cap THEN p.cap ELSE Grown(p, g[k - 1])
      /\ h[k] = IF h[k - 1] >= p.cap THEN p.cap ELSE Grown(p, h[k - 1])
  BY <1>3, <1>4 DEF Growth
<1>8. g[k - 1] < p.cap => Grown(p, g[k - 1]) \in Nat /\ p.base <= Grown(p, g[k - 1])
  BY <1>3, <1>6, GrowthStep
<1>9. g[k] = h[k] /\ g[k] \in Nat /\ p.base <= g[k]
  BY <1>3, <1>6, <1>7, <1>8
<1>10. QED
  BY <1>2, <1>9

\* Intervals of an accepted policy are never above the cap, and each is longer than the one
\* before until they are at the cap.
LEMMA IntervalsExpand ==
  ASSUME NEW p \in ExpansionPolicy, Accepted(p), NEW n \in Nat
  PROVE  /\ IntervalDays(p, n) \in 1..p.cap
         /\ IntervalDays(p, n) <= IntervalDays(p, n + 1)
         /\ IntervalDays(p, n) < IntervalDays(p, n + 1) \/ IntervalDays(p, n + 1) = p.cap
<1> DEFINE Of(m) == CHOOSE g : Growth(p, g, m)
<1>1. ASSUME NEW m \in Nat
      PROVE  IntervalDays(p, m) = Min({Of(m)[m], p.cap}) /\ Growth(p, Of(m), m)
  <2>1. \E g : Growth(p, g, m)
    BY <1>1, GrowthExists, Zenon
  <2>2. Growth(p, Of(m), m)
    BY <2>1, Zenon
  <2>3. IntervalDays(p, m) = Min({Of(m)[m], p.cap})
    BY Zenon DEF IntervalDays, Growth
  <2>4. QED
    BY <2>2, <2>3
<1> HIDE DEF Of
<1> DEFINE v == Of(n)[n]
           w == Of(n + 1)[n + 1]
<1>2. p.base \in Nat /\ p.base > 0 /\ p.cap \in Nat /\ p.base <= p.cap
      /\ n + 1 \in Nat /\ n \in 0..n /\ n \in 0..(n + 1) /\ n + 1 \in 0..(n + 1)
  BY DEF ExpansionPolicy, Accepted
<1>3. v = Of(n + 1)[n] /\ v \in Nat /\ p.base <= v
  <2>1. Growth(p, Of(n), n) /\ Growth(p, Of(n + 1), n + 1)
    BY <1>1, <1>2
  <2>2. \A k \in 0..n : Of(n)[k] = Of(n + 1)[k] /\ Of(n)[k] \in Nat /\ p.base <= Of(n)[k]
    BY <1>2, <2>1, GrowthIsOne
  <2>3. QED
    BY <1>2, <2>2
<1>4. w \in Nat /\ p.base <= w
  <2>1. Growth(p, Of(n + 1), n + 1) /\ n + 1 \in 0..(n + 1)
    BY <1>1, <1>2
  <2>2. \A k \in 0..(n + 1) : Of(n + 1)[k] \in Nat /\ p.base <= Of(n + 1)[k]
    BY <1>2, <2>1, GrowthIsOne
  <2>3. QED
    BY <2>1, <2>2
<1>5. w = IF v >= p.cap THEN p.cap ELSE Grown(p, v)
  <2>1. Of(n + 1)[n + 1] = IF n + 1 = 0 THEN p.base
          ELSE IF Of(n + 1)[n + 1 - 1] >= p.cap THEN p.cap ELSE Grown(p, Of(n + 1)[n + 1 - 1])
    <3> DEFINE g == Of(n + 1)
    <3>1. Growth(p, g, n + 1)
      BY <1>1, <1>2
    <3> HIDE DEF g
    <3>2. \A k \in 0..(n + 1) :
            g[k] = IF k = 0 THEN p.base ELSE IF g[k - 1] >= p.cap THEN p.cap ELSE Grown(p, g[k - 1])
      BY <3>1 DEF Growth
    <3>3. QED
      BY <1>2, <3>2 DEF g
  <2>2. n + 1 # 0 /\ n + 1 - 1 = n
    OBVIOUS
  <2>3. QED
    BY <1>3, <2>1, <2>2
<1>6. /\ IntervalDays(p, n) = Min({v, p.cap}) /\ IntervalDays(p, n + 1) = Min({w, p.cap})
  BY <1>1, <1>2
<1> HIDE DEF v, w
<1>7. v < p.cap => v < w
  BY <1>2, <1>3, <1>5, GrowthStep
<1>8. /\ IntervalDays(p, n) = (IF v <= p.cap THEN v ELSE p.cap)
      /\ IntervalDays(p, n + 1) = (IF w <= p.cap THEN w ELSE p.cap)
  BY <1>2, <1>3, <1>4, <1>6, SmallerOfTwo
<1>9. QED
  BY <1>2, <1>3, <1>4, <1>5, <1>7, <1>8

\* The function the dates of a plan are taken from.
Dates(p, seed, g, n) ==
  g = [k \in 0..n |->
        IF k = 0 THEN seed.last
        ELSE Min({g[k - 1] + IntervalDays(p, Index(seed, k - 1)), MaxDate})]

LEMMA DatesExist ==
  ASSUME NEW p, NEW seed, NEW n \in Nat
  PROVE  \E g : Dates(p, seed, g, n)
<1> DEFINE without == {m \in Nat : ~\E g : Dates(p, seed, g, m)}
<1>1. SUFFICES ASSUME without # {}
               PROVE  FALSE
  OBVIOUS
<1>2. PICK m \in without : \A k \in without : m <= k
  <2>1. without \in SUBSET Nat
    OBVIOUS
  <2> HIDE DEF without
  <2>2. QED
    BY <1>1, <2>1, LeastNatural
<1>3. m # 0
  <2> DEFINE g == [k \in 0..0 |-> seed.last]
  <2>1. \A k \in 0..0 : k = 0
    OBVIOUS
  <2>2. Dates(p, seed, g, 0)
    BY <2>1 DEF Dates
  <2>3. QED
    BY <2>2
<1>4. m - 1 \in Nat /\ ~(m <= m - 1)
  BY <1>3
<1>5. PICK g : Dates(p, seed, g, m - 1)
  BY <1>2, <1>4
<1> DEFINE next == Min({g[m - 1] + IntervalDays(p, Index(seed, m - 1)), MaxDate})
           h == [k \in 0..m |-> IF k = m THEN next ELSE g[k]]
<1>6. ASSUME NEW k \in 0..m
      PROVE  h[k] = IF k = 0 THEN seed.last
                    ELSE Min({h[k - 1] + IntervalDays(p, Index(seed, k - 1)), MaxDate})
  <2>1. CASE k = m
    <3>1. h[k] = next /\ h[k - 1] = g[m - 1] /\ k # 0
      BY <1>3, <1>4, <2>1
    <3> HIDE DEF h
    <3>2. QED
      BY <2>1, <3>1
  <2>2. CASE k # m
    <3>1. k \in 0..(m - 1) /\ h[k] = g[k] /\ (k # 0 => h[k - 1] = g[k - 1])
      BY <1>4, <2>2
    <3> HIDE DEF h
    <3>2. QED
      BY <1>5, <3>1 DEF Dates
  <2>3. QED
    BY <2>1, <2>2
<1>7. h = [k \in 0..m |-> h[k]]
  OBVIOUS
<1> HIDE DEF h
<1>8. Dates(p, seed, h, m)
  BY <1>6, <1>7 DEF Dates
<1>9. QED
  BY <1>2, <1>8

\* No date before the first one, none after the last.
LEMMA DatesStay ==
  ASSUME NEW p \in ExpansionPolicy, Accepted(p), NEW seed \in Seed, NEW n \in Nat, NEW g,
         Dates(p, seed, g, n)
  PROVE  \A k \in 0..n :
           /\ g[k] \in 0..MaxDate
           /\ k > 0 => g[k] = IF g[k - 1] + IntervalDays(p, Index(seed, k - 1)) <= MaxDate
                              THEN g[k - 1] + IntervalDays(p, Index(seed, k - 1)) ELSE MaxDate
<1>1. ASSUME NEW k \in 0..n, k > 0, g[k - 1] \in 0..MaxDate
      PROVE  /\ g[k] \in 0..MaxDate
             /\ g[k] = IF g[k - 1] + IntervalDays(p, Index(seed, k - 1)) <= MaxDate
                       THEN g[k - 1] + IntervalDays(p, Index(seed, k - 1)) ELSE MaxDate
  <2> DEFINE days == IntervalDays(p, Index(seed, k - 1))
  <2>1. days \in Nat
    <3>1. Index(seed, k - 1) \in Nat
      BY <1>1, SmallerOfTwo, WithdrawalAssumption DEF Index, Seed
    <3>2. p.cap \in Nat
      BY DEF ExpansionPolicy
    <3>3. QED
      BY <3>1, <3>2, IntervalsExpand
  <2>2. g[k] = Min({g[k - 1] + days, MaxDate})
    <3>1. \A j \in 0..n :
            g[j] = IF j = 0 THEN seed.last
                   ELSE Min({g[j - 1] + IntervalDays(p, Index(seed, j - 1)), MaxDate})
      BY Zenon DEF Dates
    <3>2. k # 0
      BY <1>1
    <3>3. QED
      BY <3>1, <3>2
  <2> HIDE DEF days
  <2>3. MaxDate \in Nat /\ g[k - 1] + days \in Nat
    BY <1>1, <2>1, WithdrawalAssumption
  <2>4. g[k] = IF g[k - 1] + days <= MaxDate THEN g[k - 1] + days ELSE MaxDate
    BY <2>2, <2>3, SmallerOfTwo
  <2>5. QED
    BY <2>3, <2>4 DEF days
<1> DEFINE astray == {k \in 0..n : g[k] \notin 0..MaxDate}
<1>2. astray = {}
  <2>1. SUFFICES ASSUME astray # {}
                 PROVE  FALSE
    OBVIOUS
  <2>2. PICK k \in astray : \A j \in astray : k <= j
    <3>1. astray \in SUBSET Nat
      OBVIOUS
    <3> HIDE DEF astray
    <3>2. QED
      BY <2>1, <3>1, LeastNatural
  <2>3. k # 0
    <3>1. g[0] = seed.last /\ seed.last \in 0..MaxDate
      BY DEF Dates, Seed
    <3>2. QED
      BY <2>2, <3>1
  <2>4. k \in 0..n /\ k > 0 /\ k - 1 \in 0..n /\ ~(k <= k - 1)
    BY <2>3
  <2>5. g[k - 1] \in 0..MaxDate
    BY <2>2, <2>4
  <2>6. QED
    BY <1>1, <2>2, <2>4, <2>5
<1>3. ASSUME NEW k \in 0..n, k > 0
      PROVE  g[k - 1] \in 0..MaxDate
  <2>1. k - 1 \in 0..n
    BY <1>3
  <2>2. QED
    BY <1>2, <2>1
<1>4. QED
  BY <1>1, <1>2, <1>3

\* The index goes up by one until it is the last.
LEMMA IndexGoesUp ==
  ASSUME NEW seed \in Seed, NEW k \in Nat
  PROVE  /\ Index(seed, k) \in 0..MaxIndex
         /\ Index(seed, k) < MaxIndex => Index(seed, k + 1) = Index(seed, k) + 1
         /\ Index(seed, k) = MaxIndex => Index(seed, k + 1) = Index(seed, k)
<1>1. MaxIndex \in Nat /\ seed.prior \in 0..MaxIndex
  BY WithdrawalAssumption DEF Seed
<1>2. /\ Index(seed, k) = (IF seed.prior + k <= MaxIndex THEN seed.prior + k ELSE MaxIndex)
      /\ Index(seed, k + 1) = (IF seed.prior + (k + 1) <= MaxIndex THEN seed.prior + (k + 1) ELSE MaxIndex)
  BY <1>1, SmallerOfTwo DEF Index
<1>3. QED
  BY <1>1, <1>2

\* What SessionsExpand says of the sessions of one seed.
Expands(p, s) ==
  \A k \in DOMAIN s :
    /\ s[k].days \in 1..p.cap
    /\ k > 1 =>
         /\ s[k - 1].days <= s[k].days
         /\ s[k - 1].index < MaxIndex => s[k - 1].days < s[k].days \/ s[k].days = p.cap
         /\ s[k - 1].at < s[k].at \/ s[k].at = MaxDate

LEMMA PlansExpand ==
  ASSUME NEW p \in ExpansionPolicy, Accepted(p), NEW seed \in Seed, NEW count \in Nat
  PROVE  SessionsOf(p, seed, count) \in Seq(Session) /\ Expands(p, SessionsOf(p, seed, count))
<1> DEFINE g == CHOOSE g : Dates(p, seed, g, count)
           Days(k) == IntervalDays(p, Index(seed, k - 1))
           s == SessionsOf(p, seed, count)
<1>1. Dates(p, seed, g, count)
  BY DatesExist
<1>2. s = [k \in 1..count |-> [scope |-> seed.scope, index |-> Index(seed, k - 1), at |-> g[k],
                               days |-> IntervalDays(p, Index(seed, k - 1))]]
  BY Zenon DEF SessionsOf, Dates
<1> HIDE DEF g, s
<1>3. \A k \in 1..count :
        /\ s[k].scope = seed.scope /\ s[k].index = Index(seed, k - 1) /\ s[k].at = g[k]
        /\ s[k].days = Days(k)
        /\ s[k] = [scope |-> seed.scope, index |-> Index(seed, k - 1), at |-> g[k], days |-> Days(k)]
  BY <1>2
<1>4. p.cap \in Nat /\ MaxDate \in Nat
  BY WithdrawalAssumption DEF ExpansionPolicy
<1>5. \A k \in 1..count : Index(seed, k - 1) \in 0..MaxIndex /\ Days(k) \in 1..p.cap
  <2>1. \A k \in 1..count : k - 1 \in Nat
    OBVIOUS
  <2>2. \A k \in 1..count : Index(seed, k - 1) \in 0..MaxIndex
    BY <2>1, IndexGoesUp
  <2>3. \A i \in 0..MaxIndex : IntervalDays(p, i) \in 1..p.cap
    BY IntervalsExpand
  <2>4. QED
    BY <2>2, <2>3
<1>6. \A k \in 0..count :
        /\ g[k] \in 0..MaxDate
        /\ k > 0 => g[k] = IF g[k - 1] + Days(k) <= MaxDate THEN g[k - 1] + Days(k) ELSE MaxDate
  BY <1>1, DatesStay
<1>7. s \in Seq(Session)
  <2>1. \A k \in 1..count : s[k] \in Session
    <3> SUFFICES ASSUME NEW k \in 1..count
                 PROVE  s[k] \in Session
      OBVIOUS
    <3>1. g[k] \in 0..MaxDate /\ Days(k) \in Nat /\ Index(seed, k - 1) \in 0..MaxIndex
      BY <1>4, <1>5, <1>6
    <3>2. seed.scope \in Scope
      BY DEF Seed
    <3>3. s[k] = [scope |-> seed.scope, index |-> Index(seed, k - 1), at |-> g[k], days |-> Days(k)]
      BY <1>3
    <3> HIDE DEF Days
    <3>4. QED
      BY <3>1, <3>2, <3>3 DEF Session
  <2>2. s = [k \in 1..count |-> s[k]]
    BY <1>2
  <2>3. QED
    BY <2>1, <2>2
<1>8. Expands(p, s)
  <2> SUFFICES ASSUME NEW k \in 1..count
               PROVE  /\ s[k].days \in 1..p.cap
                      /\ k > 1 =>
                           /\ s[k - 1].days <= s[k].days
                           /\ s[k - 1].index < MaxIndex => s[k - 1].days < s[k].days \/ s[k].days = p.cap
                           /\ s[k - 1].at < s[k].at \/ s[k].at = MaxDate
    BY <1>2 DEF Expands
  <2>1. s[k].days \in 1..p.cap
    BY <1>3, <1>5
  <2>2. ASSUME k > 1
        PROVE  /\ s[k - 1].days <= s[k].days
               /\ s[k - 1].index < MaxIndex => s[k - 1].days < s[k].days \/ s[k].days = p.cap
               /\ s[k - 1].at < s[k].at \/ s[k].at = MaxDate
    <3> DEFINE i == Index(seed, k - 2)
    <3>1. k - 1 \in 1..count /\ k - 2 \in Nat /\ (k - 2) + 1 = k - 1 /\ (k - 1) - 1 = k - 2 /\ k \in 0..count
      BY <2>2
    <3>2. /\ i \in 0..MaxIndex
          /\ i < MaxIndex => Index(seed, k - 1) = i + 1
          /\ i = MaxIndex => Index(seed, k - 1) = i
      BY <3>1, IndexGoesUp
    <3>3. s[k - 1].index = i /\ s[k - 1].days = IntervalDays(p, i) /\ s[k - 1].at = g[k - 1]
      BY <1>3, <3>1
    <3> HIDE DEF i
    <3>4. /\ IntervalDays(p, i) <= IntervalDays(p, i + 1)
          /\ IntervalDays(p, i) < IntervalDays(p, i + 1) \/ IntervalDays(p, i + 1) = p.cap
          /\ IntervalDays(p, i) \in 1..p.cap
      BY <3>2, IntervalsExpand
    <3>5. s[k].days = IntervalDays(p, Index(seed, k - 1)) /\ s[k].at = g[k]
      BY <1>3
    <3>6. /\ s[k - 1].days <= s[k].days
          /\ s[k - 1].index < MaxIndex => s[k - 1].days < s[k].days \/ s[k].days = p.cap
      <4>1. CASE i < MaxIndex
        BY <3>2, <3>3, <3>4, <3>5, <4>1
      <4>2. CASE i = MaxIndex
        BY <1>4, <3>2, <3>3, <3>4, <3>5, <4>2
      <4>3. MaxIndex \in Nat
        BY WithdrawalAssumption
      <4>4. QED
        BY <3>2, <4>1, <4>2, <4>3
    <3>7. g[k - 1] < g[k] \/ g[k] = MaxDate
      <4>1. Days(k) \in 1..p.cap /\ g[k - 1] \in 0..MaxDate
            /\ g[k] = IF g[k - 1] + Days(k) <= MaxDate THEN g[k - 1] + Days(k) ELSE MaxDate
        <5>1. k - 1 \in 0..count /\ k > 0
          BY <3>1
        <5>2. QED
          BY <1>5, <1>6, <3>1, <5>1
      <4> HIDE DEF Days
      <4>2. QED
        BY <1>4, <4>1
    <3>8. QED
      BY <3>3, <3>5, <3>6, <3>7
  <2>3. QED
    BY <2>1, <2>2
<1>9. QED
  BY <1>7, <1>8 DEF s

\* The scheduler keeps the policy it was built with, and what it plans expands.
WithdrawalInv ==
  /\ WithdrawalTypeOK
  /\ Accepted(expansion)
  /\ \A i \in DOMAIN planned : Expands(expansion, planned[i])

LEMMA WithdrawalStays == Spec => []WithdrawalInv
<1>1. Init => WithdrawalInv
  <2> SUFFICES ASSUME Init
               PROVE  WithdrawalInv
    OBVIOUS
  <2>1. expansion \in Offered /\ Accepted(expansion) /\ planned = <<>> /\ flights = {} /\ practice = <<>>
    BY DEF Init, WithdrawalInit
  <2>2. QED
    BY <2>1 DEF WithdrawalInv, WithdrawalTypeOK
<1>2. WithdrawalInv /\ [Next]_<<ledgerVars, teamVars, withdrawalVars, part>> => WithdrawalInv'
  <2> SUFFICES ASSUME WithdrawalInv, [Next]_<<ledgerVars, teamVars, withdrawalVars, part>>
               PROVE  WithdrawalInv'
    OBVIOUS
  <2>1. /\ expansion \in Offered /\ planned \in Seq(Seq(Session)) /\ flights \subseteq Flight
        /\ practice \in Seq([scope : Scope, index : 0..MaxIndex, outcome : {"completed", "aborted"}])
        /\ Accepted(expansion) /\ \A i \in DOMAIN planned : Expands(expansion, planned[i])
    BY DEF WithdrawalInv, WithdrawalTypeOK
  <2>2. ASSUME expansion' = expansion, planned' = planned, flights' \subseteq Flight,
               practice' \in Seq([scope : Scope, index : 0..MaxIndex, outcome : {"completed", "aborted"}])
        PROVE  WithdrawalInv'
    <3>1. Accepted(expansion)' /\ (\A i \in DOMAIN planned : Expands(expansion, planned[i]))'
      BY <2>1, <2>2
    <3>2. WithdrawalTypeOK'
      BY <2>1, <2>2 DEF WithdrawalTypeOK
    <3>3. QED
      BY <3>1, <3>2 DEF WithdrawalInv
  <2>3. ASSUME NEW seeds \in SeedLists, NEW count \in 0..MaxCount, Plan(seeds, count)
        PROVE  WithdrawalInv'
    <3>1. /\ planned' = [i \in DOMAIN seeds |-> SessionsOf(expansion, seeds[i], count)]
          /\ expansion' = expansion /\ flights' = flights /\ practice' = practice
      BY <2>3 DEF Plan
    <3>2. seeds \in Seq(Seed) /\ count \in Nat /\ expansion \in ExpansionPolicy
      BY <2>1, WithdrawalAssumption
    <3>3. \A i \in DOMAIN seeds :
            /\ SessionsOf(expansion, seeds[i], count) \in Seq(Session)
            /\ Expands(expansion, SessionsOf(expansion, seeds[i], count))
      <4>1. \A i \in DOMAIN seeds : seeds[i] \in Seed
        BY <3>2
      <4>2. QED
        BY <2>1, <3>2, <4>1, PlansExpand
    <3>4. DOMAIN seeds = 1..Len(seeds) /\ Len(seeds) \in Nat
      BY <3>2
    <3>5. \A i \in DOMAIN planned' : planned'[i] \in Seq(Session) /\ Expands(expansion, planned'[i])
      BY <3>1, <3>3, Zenon
    <3>6. planned' \in Seq(Seq(Session))
      <4>1. planned' = [i \in 1..Len(seeds) |-> planned'[i]]
        BY <3>1, <3>4
      <4>2. \A i \in 1..Len(seeds) : planned'[i] \in Seq(Session)
        BY <3>5, <4>1
      <4>3. QED
        BY <3>4, <4>1, <4>2
    <3>7. WithdrawalTypeOK'
      BY <2>1, <3>1, <3>6 DEF WithdrawalTypeOK
    <3>8. Accepted(expansion)'
      BY <2>1, <3>1
    <3>9. (\A i \in DOMAIN planned : Expands(expansion, planned[i]))'
      BY <3>1, <3>5
    <3>10. QED
      BY <3>7, <3>8, <3>9 DEF WithdrawalInv
  <2>4. ASSUME NEW i \in DOMAIN planned, NEW k \in DOMAIN planned[i], Begin(planned[i][k])
        PROVE  WithdrawalInv'
    <3> DEFINE session == planned[i][k]
               flight == [scope |-> session.scope, index |-> session.index, state |-> "active"]
    <3>1. flights' = flights \cup {flight}
          /\ expansion' = expansion /\ planned' = planned /\ practice' = practice
      BY <2>4 DEF Begin
    <3>2. flight \in Flight
      <4>1. planned[i] \in Seq(Session)
        BY <2>1
      <4>2. session \in Session
        BY <4>1
      <4> HIDE DEF session
      <4>3. QED
        BY <4>2 DEF Session, Flight
    <3> HIDE DEF session, flight
    <3>3. QED
      BY <2>1, <2>2, <3>1, <3>2
  <2>5. ASSUME NEW f \in flights, NEW how \in {"completed", "aborted"}, End(f, how)
        PROVE  WithdrawalInv'
    <3> DEFINE event == [scope |-> f.scope, index |-> f.index, outcome |-> how]
               ended == [f EXCEPT !.state = how]
    <3>1. PICK left \in {{}, {f}} : flights' = (flights \ {f}) \cup left \cup {ended}
      BY <2>5 DEF End
    <3>2. practice' = Append(practice, event) /\ expansion' = expansion /\ planned' = planned
      BY <2>5 DEF End
    <3>3. f \in Flight
      BY <2>1
    <3>4. event \in [scope : Scope, index : 0..MaxIndex, outcome : {"completed", "aborted"}]
          /\ ended \in Flight
      BY <2>5, <3>3 DEF Flight
    <3> HIDE DEF event, ended
    <3>5. flights' \subseteq Flight
      BY <2>1, <3>1, <3>3, <3>4
    <3>6. practice' \in Seq([scope : Scope, index : 0..MaxIndex, outcome : {"completed", "aborted"}])
      <4> DEFINE Event == [scope : Scope, index : 0..MaxIndex, outcome : {"completed", "aborted"}]
      <4>1. practice \in Seq(Event) /\ event \in Event
        BY <2>1, <3>4
      <4> HIDE DEF Event
      <4>2. Append(practice, event) \in Seq(Event)
        BY <4>1
      <4>3. QED
        BY <3>2, <4>2 DEF Event
    <3>7. QED
      BY <2>2, <3>2, <3>5, <3>6
  <2>6. CASE UNCHANGED withdrawalVars
    BY <2>1, <2>2, <2>6 DEF withdrawalVars
  <2>7. CASE WithdrawalNext
    <3>1. "completed" \in {"completed", "aborted"} /\ "aborted" \in {"completed", "aborted"}
      OBVIOUS
    <3>2. QED
      BY <2>3, <2>4, <2>5, <2>7, <3>1 DEF WithdrawalNext
  <2>8. QED
    BY <2>6, <2>7 DEF Next, TeamworkAlone, LedgerAlone, SchedulerAlone
<1>3. QED
  BY <1>1, <1>2, PTL DEF Spec

\* Truncating the intervals to whole days never freezes the ladder of sessions: under
\* every accepted policy and for every count, the plan of a seed goes on to later
\* sessions at longer intervals until the cap, the last index or the last date.
THEOREM SessionsDoExpand == Spec => []SessionsExpand
<1>1. WithdrawalInv => SessionsExpand
  BY DEF WithdrawalInv, Expands, SessionsExpand, Successive
<1>2. QED
  BY <1>1, WithdrawalStays, PTL

-----------------------------------------------------------------------------
(* Sums over a finite set. *)

\* The element a nonempty set is entered by.
Entry(s) == CHOOSE x \in s : TRUE

\* The function a sum is taken from: for a subset, what f adds up to there.
Adds(f, S, g) ==
  g = [s \in SUBSET S |->
        IF s = {} THEN 0
        ELSE f[Entry(s)] + g[s \ {Entry(s)}]]

Total(f, S) == (CHOOSE g : Adds(f, S, g))[S]

\* The same for the subsets of n elements at most.
AddsUpTo(f, S, n, g) ==
  g = [s \in {s \in SUBSET S : Cardinality(s) <= n} |->
        IF s = {} THEN 0
        ELSE f[Entry(s)] + g[s \ {Entry(s)}]]

\* Without it the set has one element less.
LEMMA OneLess ==
  ASSUME NEW S, IsFiniteSet(S), NEW s \in SUBSET S, s # {}
  PROVE  /\ Entry(s) \in s /\ Entry(s) \in S
         /\ s \ {Entry(s)} \in SUBSET S
         /\ Cardinality(s) \in Nat /\ Cardinality(s) > 0
         /\ Cardinality(s \ {Entry(s)}) = Cardinality(s) - 1
<1>1. Entry(s) \in s
  BY DEF Entry
<1>2. IsFiniteSet(s)
  BY FS_Subset
<1>3. Cardinality(s \ {Entry(s)}) = Cardinality(s) - 1
  BY <1>1, <1>2, FS_RemoveElement
<1>4. Cardinality(s) \in Nat /\ Cardinality(s) # 0
  BY <1>2, FS_CardinalityType, FS_EmptySet
<1>5. s \ {Entry(s)} \in SUBSET S
  OBVIOUS
<1>6. QED
  BY <1>1, <1>3, <1>4, <1>5

LEMMA AddsUpToExists ==
  ASSUME NEW f, NEW S, IsFiniteSet(S), NEW n \in Nat
  PROVE  \E g : AddsUpTo(f, S, n, g)
<1> DEFINE without == {m \in Nat : ~\E g : AddsUpTo(f, S, m, g)}
<1>1. SUFFICES ASSUME without # {}
               PROVE  FALSE
  OBVIOUS
<1>2. PICK m \in without : \A k \in without : m <= k
  <2>1. without \in SUBSET Nat
    OBVIOUS
  <2> HIDE DEF without
  <2>2. QED
    BY <1>1, <2>1, LeastNatural
<1>3. m # 0
  <2> DEFINE D == {s \in SUBSET S : Cardinality(s) <= 0}
             g == [s \in D |-> 0]
  <2>1. ASSUME NEW s \in D
        PROVE  s = {}
    <3>1. IsFiniteSet(s) /\ Cardinality(s) <= 0
      BY FS_Subset
    <3>2. QED
      BY <3>1, FS_CardinalityType, FS_EmptySet
  <2> HIDE DEF D
  <2>2. g = [s \in D |-> IF s = {} THEN 0
                         ELSE f[Entry(s)] + g[s \ {Entry(s)}]]
    BY <2>1
  <2>3. AddsUpTo(f, S, 0, g)
    BY <2>2 DEF AddsUpTo, D
  <2>4. QED
    BY <2>3
<1>4. m - 1 \in Nat /\ ~(m <= m - 1)
  BY <1>3
<1>5. PICK g : AddsUpTo(f, S, m - 1, g)
  BY <1>2, <1>4
<1> DEFINE D == {s \in SUBSET S : Cardinality(s) <= m}
           E == {s \in SUBSET S : Cardinality(s) <= m - 1}
           h == [s \in D |-> IF s = {} THEN 0 ELSE f[Entry(s)] + g[s \ {Entry(s)}]]
<1>6. \A s \in E : g[s] = IF s = {} THEN 0 ELSE f[Entry(s)] + g[s \ {Entry(s)}]
  <2>1. g = [s \in E |-> IF s = {} THEN 0 ELSE f[Entry(s)] + g[s \ {Entry(s)}]]
    BY <1>5, Zenon DEF AddsUpTo
  <2> HIDE DEF E
  <2>2. QED
    BY <2>1, Zenon
<1>7. ASSUME NEW s \in D, s # {}
      PROVE  s \ {Entry(s)} \in E /\ s \ {Entry(s)} \in D
  <2>1. /\ s \ {Entry(s)} \in SUBSET S /\ Cardinality(s) \in Nat /\ Cardinality(s) <= m
        /\ Cardinality(s \ {Entry(s)}) = Cardinality(s) - 1
    BY <1>7, OneLess
  <2>2. Cardinality(s \ {Entry(s)}) <= m - 1 /\ Cardinality(s \ {Entry(s)}) <= m
    BY <2>1
  <2>3. QED
    BY <2>1, <2>2
<1>8. \A s \in D : h[s] = IF s = {} THEN 0 ELSE f[Entry(s)] + g[s \ {Entry(s)}]
  OBVIOUS
<1>9. h = [s \in D |-> h[s]]
  OBVIOUS
<1> HIDE DEF h, D, E
<1>10. ASSUME NEW s \in D
       PROVE  h[s] = IF s = {} THEN 0 ELSE f[Entry(s)] + h[s \ {Entry(s)}]
  <2>1. CASE s = {}
    BY <1>8, <2>1
  <2>2. CASE s # {}
    <3> DEFINE r == s \ {Entry(s)}
    <3>1. r \in E /\ r \in D
      BY <1>7, <2>2
    <3> HIDE DEF r
    <3>2. h[r] = g[r]
      BY <1>6, <1>8, <3>1
    <3>3. QED
      BY <1>8, <2>2, <3>2 DEF r
  <2>3. QED
    BY <2>1, <2>2
<1>11. AddsUpTo(f, S, m, h)
  <2>1. h = [s \in D |-> IF s = {} THEN 0 ELSE f[Entry(s)] + h[s \ {Entry(s)}]]
    BY <1>9, <1>10, Zenon
  <2>2. QED
    BY <2>1, Zenon DEF AddsUpTo, D
<1>12. QED
  BY <1>2, <1>11

LEMMA AddsExists ==
  ASSUME NEW f, NEW S, IsFiniteSet(S)
  PROVE  \E g : Adds(f, S, g)
<1>1. PICK g : AddsUpTo(f, S, Cardinality(S), g)
  BY AddsUpToExists, FS_CardinalityType
<1>2. \A s \in SUBSET S : Cardinality(s) <= Cardinality(S)
  BY FS_Subset
<1>3. {s \in SUBSET S : Cardinality(s) <= Cardinality(S)} = SUBSET S
  BY <1>2
<1>4. Adds(f, S, g)
  BY <1>1, <1>3, Zenon DEF Adds, AddsUpTo
<1>5. QED
  BY <1>4

\* A sum, one element after another.
LEMMA AddsOneByOne ==
  ASSUME NEW f, NEW S, NEW g, Adds(f, S, g)
  PROVE  /\ g[{}] = 0
         /\ \A s \in SUBSET S : s # {} => g[s] = f[Entry(s)] + g[s \ {Entry(s)}]
<1>1. g = [s \in SUBSET S |-> IF s = {} THEN 0 ELSE f[Entry(s)] + g[s \ {Entry(s)}]]
  BY Zenon DEF Adds
<1>2. \A s \in SUBSET S : g[s] = IF s = {} THEN 0 ELSE f[Entry(s)] + g[s \ {Entry(s)}]
  BY <1>1, Zenon
<1>3. {} \in SUBSET S
  OBVIOUS
<1>4. QED
  BY <1>2, <1>3

\* What is added up is a number, and none of the parts is larger.
LEMMA TotalBounds ==
  ASSUME NEW S, IsFiniteSet(S), NEW f \in [S -> Nat]
  PROVE  Total(f, S) \in Nat /\ \A m \in S : f[m] <= Total(f, S)
<1> DEFINE g == CHOOSE g : Adds(f, S, g)
           Bounded(s) == g[s] \in Nat /\ \A m \in s : f[m] <= g[s]
           wrong == {n \in Nat : \E s \in SUBSET S : Cardinality(s) = n /\ ~Bounded(s)}
<1>1. Adds(f, S, g)
  BY AddsExists
<1> HIDE DEF g
<1>2. wrong = {}
  <2>1. SUFFICES ASSUME wrong # {}
                 PROVE  FALSE
    OBVIOUS
  <2>2. PICK n \in wrong : \A k \in wrong : n <= k
    <3>1. wrong \in SUBSET Nat
      OBVIOUS
    <3> HIDE DEF wrong
    <3>2. QED
      BY <2>1, <3>1, LeastNatural
  <2>3. PICK s \in SUBSET S : Cardinality(s) = n /\ ~Bounded(s)
    BY <2>2
  <2>4. s # {}
    <3>1. g[{}] = 0
      BY <1>1, AddsOneByOne
    <3>2. QED
      BY <2>3, <3>1
  <2> DEFINE x == Entry(s)
  <2>5. /\ x \in s /\ x \in S /\ s \ {x} \in SUBSET S /\ Cardinality(s \ {x}) = Cardinality(s) - 1
        /\ Cardinality(s) \in Nat /\ g[s] = f[x] + g[s \ {x}]
    BY <1>1, <2>4, OneLess, AddsOneByOne
  <2> HIDE DEF x
  <2>6. Bounded(s \ {x})
    <3>1. IsFiniteSet(s \ {x})
      BY <2>5, FS_Subset
    <3>2. Cardinality(s \ {x}) \in Nat /\ ~(n <= Cardinality(s \ {x}))
      BY <2>3, <2>5, <3>1, FS_CardinalityType
    <3>3. Cardinality(s \ {x}) \notin wrong
      BY <2>2, <3>2
    <3> HIDE DEF Bounded
    <3>4. QED
      BY <2>5, <3>2, <3>3
  <2>7. f[x] \in Nat /\ g[s \ {x}] \in Nat
    BY <2>5, <2>6
  <2>8. ASSUME NEW m \in s
        PROVE  f[m] <= g[s]
    <3>1. CASE m = x
      BY <2>5, <2>7, <3>1
    <3>2. CASE m # x
      <4>1. f[m] \in Nat /\ f[m] <= g[s \ {x}]
        BY <2>6, <3>2
      <4>2. QED
        BY <2>5, <2>7, <4>1
    <3>3. QED
      BY <3>1, <3>2
  <2>9. g[s] \in Nat
    BY <2>5, <2>7
  <2>10. QED
    BY <2>3, <2>8, <2>9
<1>3. Bounded(S)
  <2>1. S \in SUBSET S /\ Cardinality(S) \in Nat
    BY FS_CardinalityType
  <2> HIDE DEF Bounded
  <2>2. QED
    BY <1>2, <2>1
<1>4. QED
  BY <1>3 DEF Total, g

\* Nothing adds up to nothing.
LEMMA TotalOfNothing ==
  ASSUME NEW S, IsFiniteSet(S), NEW f, \A m \in S : f[m] = 0
  PROVE  Total(f, S) = 0
<1> DEFINE g == CHOOSE g : Adds(f, S, g)
           wrong == {n \in Nat : \E s \in SUBSET S : Cardinality(s) = n /\ g[s] # 0}
<1>1. Adds(f, S, g)
  BY AddsExists
<1> HIDE DEF g
<1>2. wrong = {}
  <2>1. SUFFICES ASSUME wrong # {}
                 PROVE  FALSE
    OBVIOUS
  <2>2. PICK n \in wrong : \A k \in wrong : n <= k
    <3>1. wrong \in SUBSET Nat
      OBVIOUS
    <3> HIDE DEF wrong
    <3>2. QED
      BY <2>1, <3>1, LeastNatural
  <2>3. PICK s \in SUBSET S : Cardinality(s) = n /\ g[s] # 0
    BY <2>2
  <2>4. s # {}
    BY <1>1, <2>3, AddsOneByOne
  <2> DEFINE x == Entry(s)
  <2>5. /\ x \in s /\ x \in S /\ s \ {x} \in SUBSET S /\ Cardinality(s \ {x}) = Cardinality(s) - 1
        /\ Cardinality(s) \in Nat /\ g[s] = f[x] + g[s \ {x}]
    BY <1>1, <2>4, OneLess, AddsOneByOne
  <2> HIDE DEF x
  <2>6. g[s \ {x}] = 0
    <3>1. IsFiniteSet(s \ {x})
      BY <2>5, FS_Subset
    <3>2. Cardinality(s \ {x}) \in Nat /\ ~(n <= Cardinality(s \ {x}))
      BY <2>3, <2>5, <3>1, FS_CardinalityType
    <3>3. Cardinality(s \ {x}) \notin wrong
      BY <2>2, <3>2
    <3>4. QED
      BY <2>5, <3>2, <3>3
  <2>7. f[x] = 0
    BY <2>5
  <2>8. g[s] = 0
    BY <2>5, <2>6, <2>7
  <2>9. QED
    BY <2>3, <2>8
<1>3. S \in SUBSET S /\ Cardinality(S) \in Nat
  BY FS_CardinalityType
<1>4. g[S] = 0
  BY <1>2, <1>3
<1>5. QED
  BY <1>4 DEF Total, g

\* One more for each member of M.
LEMMA TotalGrows ==
  ASSUME NEW S, IsFiniteSet(S), NEW f \in [S -> Nat], NEW h, NEW M, IsFiniteSet(M),
         \A m \in S : h[m] = f[m] + (IF m \in M THEN 1 ELSE 0)
  PROVE  Total(h, S) = Total(f, S) + Cardinality(S \cap M)
<1> DEFINE g == CHOOSE g : Adds(f, S, g)
           k == CHOOSE k : Adds(h, S, k)
           Counted(s) == g[s] \in Nat /\ k[s] = g[s] + Cardinality(s \cap M)
           wrong == {n \in Nat : \E s \in SUBSET S : Cardinality(s) = n /\ ~Counted(s)}
<1>1. Adds(f, S, g) /\ Adds(h, S, k)
  <2>1. \E x : Adds(f, S, x)
    BY AddsExists
  <2>2. \E x : Adds(h, S, x)
    BY AddsExists
  <2>3. QED
    BY <2>1, <2>2
<1> HIDE DEF g, k
<1>2. wrong = {}
  <2>1. SUFFICES ASSUME wrong # {}
                 PROVE  FALSE
    OBVIOUS
  <2>2. PICK n \in wrong : \A j \in wrong : n <= j
    <3>1. wrong \in SUBSET Nat
      OBVIOUS
    <3> HIDE DEF wrong
    <3>2. QED
      BY <2>1, <3>1, LeastNatural
  <2>3. PICK s \in SUBSET S : Cardinality(s) = n /\ ~Counted(s)
    BY <2>2
  <2>4. s # {}
    <3>1. g[{}] = 0 /\ k[{}] = 0
      <4>1. g[{}] = 0
        BY <1>1, AddsOneByOne
      <4>2. k[{}] = 0
        BY <1>1, AddsOneByOne
      <4>3. QED
        BY <4>1, <4>2
    <3>2. {} \cap M = {} /\ Cardinality({}) = 0
      BY FS_EmptySet
    <3>3. QED
      BY <2>3, <3>1, <3>2
  <2> DEFINE x == Entry(s)
             r == s \ {x}
  <2>5. /\ x \in s /\ x \in S /\ r \in SUBSET S /\ Cardinality(r) = Cardinality(s) - 1
        /\ Cardinality(s) \in Nat
    BY <2>4, OneLess
  <2>6. g[s] = f[x] + g[r] /\ k[s] = h[x] + k[r]
    <3>1. g[s] = f[x] + g[r]
      BY <1>1, <2>4, AddsOneByOne
    <3>2. k[s] = h[x] + k[r]
      BY <1>1, <2>4, AddsOneByOne
    <3>3. QED
      BY <3>1, <3>2
  <2> HIDE DEF x
  <2>7. Counted(r)
    <3>1. IsFiniteSet(r)
      BY <2>5, FS_Subset
    <3>2. Cardinality(r) \in Nat /\ ~(n <= Cardinality(r))
      BY <2>3, <2>5, <3>1, FS_CardinalityType
    <3>3. Cardinality(r) \notin wrong
      BY <2>2, <3>2
    <3> HIDE DEF Counted, r
    <3>4. QED
      BY <2>5, <3>2, <3>3
  <2>8. f[x] \in Nat /\ h[x] = f[x] + (IF x \in M THEN 1 ELSE 0)
    BY <2>5
  <2>9. IsFiniteSet(r \cap M) /\ Cardinality(r \cap M) \in Nat
    BY FS_Intersection, FS_CardinalityType
  <2>10. Cardinality(s \cap M) = Cardinality(r \cap M) + (IF x \in M THEN 1 ELSE 0)
    <3>1. CASE x \in M
      <4>1. s \cap M = (r \cap M) \cup {x} /\ x \notin r \cap M
        BY <2>5, <3>1
      <4> HIDE DEF r
      <4>2. Cardinality((r \cap M) \cup {x}) = Cardinality(r \cap M) + 1
        BY <2>9, <4>1, FS_AddElement
      <4>3. QED
        BY <3>1, <4>1, <4>2
    <3>2. CASE x \notin M
      <4>1. s \cap M = r \cap M
        BY <3>2
      <4>2. Cardinality(s \cap M) = Cardinality(r \cap M)
        BY <4>1
      <4> DEFINE c == Cardinality(r \cap M)
      <4>3. c \in Nat /\ Cardinality(s \cap M) = c
        BY <2>9, <4>2
      <4> HIDE DEF c
      <4>4. Cardinality(s \cap M) = c + 0
        BY <4>3
      <4>5. QED
        BY <3>2, <4>4 DEF c
    <3>3. QED
      BY <3>1, <3>2
  <2> HIDE DEF r
  <2>11. g[r] \in Nat /\ k[r] = g[r] + Cardinality(r \cap M)
    BY <2>7
  <2>12. g[s] \in Nat /\ k[s] = g[s] + Cardinality(s \cap M)
    BY <2>5, <2>6, <2>8, <2>9, <2>10, <2>11
  <2>13. QED
    BY <2>3, <2>12
<1>3. S \in SUBSET S /\ Cardinality(S) \in Nat
  BY FS_CardinalityType
<1>4. Counted(S)
  <2> HIDE DEF Counted
  <2>1. QED
    BY <1>2, <1>3
<1>5. QED
  BY <1>4 DEF Total, g, k
-----------------------------------------------------------------------------
(* The messages sent, and what the router makes of their numbers. *)

Kind == {"delegation", "result", "error"}
Of(kind, t) == {m \in Message : m.kind = kind /\ m.task = t}

LEMMA MessagesAreFinite ==
  /\ IsFiniteSet(Message)
  /\ \A kind, t : IsFiniteSet(Of(kind, t)) /\ Of(kind, t) \in SUBSET Message
<1> DEFINE Triple == (Kind \X Task) \X (0..(MaxHops - 1))
           f == [x \in Triple |-> [kind |-> x[1][1], task |-> x[1][2], hops |-> x[2]]]
<1>1. IsFiniteSet(Kind)
  <2>1. Kind = ({"delegation"} \cup {"result"}) \cup {"error"}
    BY DEF Kind
  <2>2. QED
    BY <2>1, FS_Singleton, FS_Union
<1>2. IsFiniteSet(0..(MaxHops - 1))
  <2>1. 0 \in Int /\ MaxHops - 1 \in Int
    BY TeamworkAssumption
  <2>2. QED
    BY <2>1, FS_Interval
<1>3. IsFiniteSet(Triple)
  <2>1. IsFiniteSet(Kind \X Task)
    BY <1>1, TeamworkAssumption, FS_Product
  <2>2. QED
    BY <1>2, <2>1, FS_Product
<1>4. f \in Surjection(Triple, Message)
  <2>1. f \in [Triple -> Message]
    BY DEF Message, Kind
  <2>2. ASSUME NEW m \in Message
        PROVE  \E x \in Triple : f[x] = m
    <3>1. <<<<m.kind, m.task>>, m.hops>> \in Triple
      BY DEF Message, Kind
    <3>2. f[<<<<m.kind, m.task>>, m.hops>>] = m
      BY <3>1 DEF Message
    <3>3. QED
      BY <3>1, <3>2
  <2> HIDE DEF f, Triple
  <2>3. QED
    BY <2>1, <2>2 DEF Surjection
<1> HIDE DEF f, Triple
<1>5. IsFiniteSet(Message)
  BY <1>3, <1>4, FS_Surjection
<1>6. ASSUME NEW kind, NEW t
      PROVE  IsFiniteSet(Of(kind, t)) /\ Of(kind, t) \in SUBSET Message
  <2>1. Of(kind, t) \in SUBSET Message
    BY DEF Of
  <2>2. QED
    BY <1>5, <2>1, FS_Subset
<1>7. QED
  BY <1>5, <1>6

\* What the model adds up, as totals.
LEMMA SumsAreTotals ==
  /\ DOMAIN sent = Message => Sent = Total(sent, Message)
  /\ DOMAIN sent' = Message => Sent' = Total(sent', Message)
  /\ \A kind, t : Count(kind, t) = Total(sent, Of(kind, t))
  /\ \A kind, t : Count(kind, t)' = Total(sent', Of(kind, t))
<1>1. ASSUME NEW kind, NEW t
      PROVE  Count(kind, t) = Total(sent, Of(kind, t))
  BY Zenon DEF Count, Of, MapThenSumSet, MapThenFoldSet, Total, Adds, Entry
<1>2. ASSUME NEW kind, NEW t
      PROVE  Count(kind, t)' = Total(sent', Of(kind, t))
  BY Zenon DEF Count, Of, MapThenSumSet, MapThenFoldSet, Total, Adds, Entry
<1>3. DOMAIN sent = Message => Sent = Total(sent, Message)
  BY Zenon DEF Sent, FoldFunction, FoldFunctionOnSet, MapThenFoldSet, Total, Adds, Entry
<1>4. DOMAIN sent' = Message => Sent' = Total(sent', Message)
  BY Zenon DEF Sent, FoldFunction, FoldFunctionOnSet, MapThenFoldSet, Total, Adds, Entry
<1>5. QED
  BY <1>1, <1>2, <1>3, <1>4

\* What sending does to the numbers: one more for each message, of its kind and task.
LEMMA SendAdds ==
  ASSUME sent \in [Message -> Nat], NEW kind \in Kind, NEW t \in Task,
         NEW M, IsFiniteSet(M), M \subseteq Of(kind, t), Send(M)
  PROVE  /\ sent' \in [Message -> 0..MaxMessages]
         /\ Cardinality(M) \in Nat
         /\ Sent \in Nat /\ Sent' = Sent + Cardinality(M) /\ Sent' <= MaxMessages
         /\ Count(kind, t) \in Nat /\ Count(kind, t)' = Count(kind, t) + Cardinality(M)
         /\ \A k, u : k # kind \/ u # t => Count(k, u)' = Count(k, u)
<1>1. /\ sent' = [m \in Message |-> sent[m] + IF m \in M THEN 1 ELSE 0]
      /\ Sent + Cardinality(M) <= MaxMessages
  BY DEF Send
<1>2. sent' \in [Message -> Nat] /\ DOMAIN sent' = Message /\ DOMAIN sent = Message
  <2>1. \A m \in Message : sent[m] + (IF m \in M THEN 1 ELSE 0) \in Nat
    OBVIOUS
  <2>2. QED
    BY <1>1, <2>1
<1>3. \A m \in Message : sent'[m] = sent[m] + (IF m \in M THEN 1 ELSE 0)
  BY <1>1
<1>4. Cardinality(M) \in Nat
  BY FS_CardinalityType
<1>5. Sent \in Nat /\ Sent' = Sent + Cardinality(M)
  <2>1. Total(sent', Message) = Total(sent, Message) + Cardinality(Message \cap M)
    BY <1>3, MessagesAreFinite, TotalGrows
  <2>2. Message \cap M = M
    BY DEF Of
  <2>3. Total(sent, Message) \in Nat
    BY MessagesAreFinite, TotalBounds
  <2>4. QED
    BY <1>2, <2>1, <2>2, <2>3, SumsAreTotals
<1>6. ASSUME NEW k, NEW u
      PROVE  /\ Count(k, u) \in Nat
             /\ Count(k, u)' = Count(k, u) + Cardinality(Of(k, u) \cap M)
  <2> DEFINE O == Of(k, u)
             now == [m \in O |-> sent[m]]
  <2>1. IsFiniteSet(O) /\ O \in SUBSET Message
    BY MessagesAreFinite
  <2> HIDE DEF O
  <2>2. now \in [O -> Nat] /\ \A m \in O : sent'[m] = now[m] + (IF m \in M THEN 1 ELSE 0)
    BY <1>3, <2>1
  <2>3. Total(now, O) \in Nat /\ Total(sent', O) = Total(now, O) + Cardinality(O \cap M)
    <3> HIDE DEF now
    <3>1. QED
      BY <2>1, <2>2, TotalBounds, TotalGrows
  <2>4. Total(now, O) = Total(sent, O)
    <3>1. \A m \in O : sent[m] = now[m] + (IF m \in {} THEN 1 ELSE 0)
      BY <2>1, <2>2
    <3>2. IsFiniteSet({}) /\ O \cap {} = {} /\ Cardinality({}) = 0
      BY FS_EmptySet
    <3> HIDE DEF now
    <3>3. Total(sent, O) = Total(now, O) + Cardinality(O \cap {})
      BY <2>1, <2>2, <3>1, <3>2, TotalGrows
    <3>4. QED
      BY <2>3, <3>2, <3>3
  <2>5. Count(k, u) = Total(sent, O) /\ Count(k, u)' = Total(sent', O)
    BY SumsAreTotals, Zenon DEF O
  <2>6. QED
    BY <2>3, <2>4, <2>5 DEF O
<1>7. ASSUME NEW k, NEW u, k # kind \/ u # t
      PROVE  Count(k, u)' = Count(k, u)
  <2>1. Of(k, u) \cap M = {}
    BY <1>7 DEF Of
  <2>2. Cardinality(Of(k, u) \cap M) = 0
    BY <2>1, FS_EmptySet
  <2>3. Count(k, u) \in Nat /\ Count(k, u)' = Count(k, u) + Cardinality(Of(k, u) \cap M)
    BY <1>6
  <2>4. QED
    BY <2>2, <2>3
<1>8. Count(kind, t) \in Nat /\ Count(kind, t)' = Count(kind, t) + Cardinality(M)
  <2>1. Of(kind, t) \cap M = M
    OBVIOUS
  <2>2. QED
    BY <1>6, <2>1
<1>9. sent' \in [Message -> 0..MaxMessages] /\ Sent' <= MaxMessages
  <2>1. Sent' \in Nat /\ Sent' <= MaxMessages /\ MaxMessages \in Nat
    BY <1>1, <1>4, <1>5, TeamworkAssumption
  <2>2. \A m \in Message : sent'[m] <= Sent'
    BY <1>2, MessagesAreFinite, TotalBounds, SumsAreTotals
  <2>3. \A m \in Message : sent'[m] \in 0..MaxMessages
    BY <1>2, <2>1, <2>2
  <2>4. QED
    BY <1>2, <2>1, <2>3
<1>10. QED
  BY <1>4, <1>5, <1>7, <1>8, <1>9

\* Until a result comes twice, the delegations sent are the results sent and those
\* still open; and no number is above that of the messages.
TeamInv ==
  /\ TeamTypeOK
  /\ Sent \in 0..MaxMessages
  /\ \A t \in Task : open[t] <= Sent
  /\ \A kind, t : Count(kind, t) \in Nat /\ Count(kind, t) <= Sent
  /\ \A t \in Task \ doubled : Count("delegation", t) = Count("result", t) + open[t]

\* No signal is outside its type.
LEMMA SignalsAreTyped ==
  ASSUME TeamInv, NEW t \in Task
  PROVE  Signals(t) \subseteq Signal
<1> SUFFICES ASSUME NEW kind \in SignalKind, Weight(kind, t) > 0
             PROVE  <<kind, Weight(kind, t)>> \in Signal
  BY DEF Signals
<1>1. /\ sent \in [Message -> 0..MaxMessages] /\ MaxMessages \in Nat /\ MaxHops \in Nat /\ MaxHops > 3
      /\ \A k : Count(k, t) \in 0..MaxMessages
  BY TeamworkAssumption DEF TeamInv, TeamTypeOK
<1>2. CASE kind = "RetryFailureCluster"
  <2>1. Weight(kind, t) = Count("error", t)
    BY <1>2 DEF Weight
  <2>2. Weight(kind, t) \in 1..MaxMessages
    BY <1>1, <2>1
  <2>3. QED
    BY <1>2, <2>2 DEF Signal, SignalKind
<1>3. CASE kind = "NoveltyVsBaseline"
  <2>1. Weight(kind, t) = 1 /\ Novel(t)
    BY <1>3 DEF Weight
  <2>2. PICK k \in Kind : HopsOf(k, t) # {}
    BY <2>1 DEF Novel, Kind
  <2>3. PICK n \in Message : sent[n] > 0
    BY <2>2 DEF HopsOf
  <2>4. 1 \in 1..MaxMessages
    BY <1>1, <2>3
  <2>5. QED
    BY <1>3, <2>1, <2>4 DEF Signal, SignalKind
<1>4. CASE kind = "CrossModuleAnomaly"
  <2>1. Weight(kind, t) = ErrorDepth(t) /\ ErrorDepth(t) > 1
    BY <1>4 DEF Weight
  <2>2. HopsOf("error", t) # {} /\ ErrorDepth(t) = Max(HopsOf("error", t))
    BY <2>1 DEF ErrorDepth
  <2>3. HopsOf("error", t) \in SUBSET (0..(MaxHops - 1))
    BY DEF HopsOf, Message
  <2>4. ErrorDepth(t) \in 0..(MaxHops - 1)
    BY <1>1, <2>2, <2>3, MaxUpTo
  <2>5. Weight(kind, t) \in 1..(MaxHops - 1)
    BY <1>1, <2>1, <2>4
  <2>6. QED
    BY <1>4, <2>5 DEF Signal
<1>5. CASE kind = "ContractBoundaryAmbiguity"
  <2>1. Weight(kind, t) = Unresolved(t)
    BY <1>5 DEF Weight
  <2>2. Weight(kind, t) \in 1..MaxMessages
    BY <1>1, <2>1 DEF Unresolved
  <2>3. QED
    BY <1>5, <2>2 DEF Signal, SignalKind
<1>6. QED
  BY <1>2, <1>3, <1>4, <1>5 DEF SignalKind

\* The messages of an assignment are as many as there are roles but the last.
LEMMA HandoffsAreCounted ==
  ASSUME NEW t \in Task, NEW n \in Nat, \A i \in 1..n : i - 1 < MaxHops
  PROVE  LET M == {Msg("delegation", t, i - 1) : i \in 1..n}
         IN  M \subseteq Of("delegation", t) /\ IsFiniteSet(M) /\ Cardinality(M) = n
<1> DEFINE M == {Msg("delegation", t, i - 1) : i \in 1..n}
           f == [i \in 1..n |-> Msg("delegation", t, i - 1)]
<1>1. M \subseteq Of("delegation", t)
  <2>1. ASSUME NEW i \in 1..n
        PROVE  Msg("delegation", t, i - 1) \in Of("delegation", t)
    <3>1. i - 1 \in 0..(MaxHops - 1)
      BY TeamworkAssumption
    <3>2. QED
      BY <3>1 DEF Msg, Of, Message
  <2>2. QED
    BY <2>1
<1>2. ExistsBijection(1..n, M)
  <2>1. f \in [1..n -> M] /\ \A m \in M : \E i \in 1..n : f[i] = m
    OBVIOUS
  <2>2. \A i, j \in 1..n : f[i] = f[j] => i = j
    <3>1. \A i \in 1..n : f[i].hops = i - 1
      BY DEF Msg
    <3> HIDE DEF f
    <3>2. \A i, j \in 1..n : i - 1 = j - 1 => i = j
      OBVIOUS
    <3>3. QED
      BY <3>1, <3>2
  <2> HIDE DEF f, M
  <2>3. f \in Bijection(1..n, M)
    BY <2>1, <2>2 DEF Bijection, Injection, IsInjective, Surjection
  <2>4. QED
    BY <2>3 DEF ExistsBijection
<1>3. IsFiniteSet(1..n) /\ Cardinality(1..n) = n
  BY FS_Interval
<1> HIDE DEF M
<1>4. IsFiniteSet(M) /\ Cardinality(M) = n
  BY <1>2, <1>3, FS_Bijection
<1>5. QED
  BY <1>1, <1>4 DEF M

\* One message of an agent.
LEMMA OneMessage ==
  ASSUME NEW kind \in Kind, NEW t \in Task, NEW hops \in Nat, Send({Msg(kind, t, hops)})
  PROVE  /\ {Msg(kind, t, hops)} \subseteq Of(kind, t)
         /\ IsFiniteSet({Msg(kind, t, hops)}) /\ Cardinality({Msg(kind, t, hops)}) = 1
<1>1. Msg(kind, t, hops).hops < MaxHops
  BY DEF Send
<1>2. hops \in 0..(MaxHops - 1)
  BY <1>1, TeamworkAssumption DEF Msg
<1>3. Msg(kind, t, hops) \in Of(kind, t)
  BY <1>2 DEF Msg, Of, Message, Kind
<1>4. QED
  BY <1>3, FS_Singleton

\* The numbers of the messages keep what TeamInv says of them when M is sent, which are
\* of one kind and task, and more delegations of that task are open by as many.
LEMMA NumbersStay ==
  ASSUME TeamInv, NEW kind \in Kind, NEW t \in Task,
         NEW M, IsFiniteSet(M), M \subseteq Of(kind, t), Send(M),
         NEW more \in {-1, 0, Cardinality(M)}, open[t] + more >= 0,
         open' = [open EXCEPT ![t] = @ + more],
         UNCHANGED <<policy, known, offer>>, assigned' \subseteq Task, doubled' \subseteq Task,
         doubled \subseteq doubled',
         t \in doubled' \/ more = CASE kind = "delegation" -> Cardinality(M)
                                    [] kind = "result" -> 0 - Cardinality(M)
                                    [] kind = "error" -> 0
  PROVE  TeamInv'
<1> DEFINE n == Cardinality(M)
<1>1. /\ sent' \in [Message -> 0..MaxMessages] /\ n \in Nat
      /\ Sent \in Nat /\ Sent' = Sent + n /\ Sent' <= MaxMessages
      /\ Count(kind, t) \in Nat /\ Count(kind, t)' = Count(kind, t) + n
      /\ \A k, u : k # kind \/ u # t => Count(k, u)' = Count(k, u)
  <2>1. sent \in [Message -> Nat]
    BY TeamworkAssumption DEF TeamInv, TeamTypeOK
  <2>2. QED
    BY <2>1, SendAdds
<1> HIDE DEF n
<1>2. MaxMessages \in Nat /\ Sent' \in 0..MaxMessages
  BY <1>1, TeamworkAssumption
<1>3. open \in [Task -> 0..MaxMessages] /\ \A u \in Task : open[u] <= Sent
  BY DEF TeamInv, TeamTypeOK
<1>4. /\ open' \in [Task -> Int] /\ open'[t] = open[t] + more
      /\ \A u \in Task : u # t => open'[u] = open[u]
  BY <1>1, <1>3 DEF n
<1>5. \A u \in Task : open'[u] \in 0..MaxMessages /\ open'[u] <= Sent'
  <2>1. more \in Int /\ more <= n
    BY <1>1 DEF n
  <2>2. open'[t] \in 0..MaxMessages /\ open'[t] <= Sent'
    BY <1>1, <1>2, <1>3, <1>4, <2>1
  <2>3. \A u \in Task : u # t => open'[u] \in 0..MaxMessages /\ open'[u] <= Sent'
    BY <1>1, <1>2, <1>3, <1>4
  <2>4. QED
    BY <2>2, <2>3
<1>6. TeamTypeOK'
  <2>1. open' \in [Task -> 0..MaxMessages]
    BY <1>4, <1>5
  <2>2. IsPolicy(policy)' /\ (\A u \in Task : offer[u] = NoOffer \/ offer[u] \subseteq Signal)'
    BY DEF TeamInv, TeamTypeOK
  <2>3. known' \subseteq Task
    BY DEF TeamInv, TeamTypeOK
  <2>4. QED
    BY <1>1, <2>1, <2>2, <2>3 DEF TeamTypeOK
<1>7. ASSUME NEW k, NEW u
      PROVE  Count(k, u)' \in Nat /\ Count(k, u)' <= Sent'
  <2>1. Count(k, u) \in Nat /\ Count(k, u) <= Sent
    BY DEF TeamInv
  <2>2. CASE k = kind /\ u = t
    BY <1>1, <2>1, <2>2
  <2>3. CASE k # kind \/ u # t
    <3>1. Count(k, u)' = Count(k, u)
      BY <1>1, <2>3
    <3>2. QED
      BY <1>1, <2>1, <3>1
  <2>4. QED
    BY <2>2, <2>3
<1>8. ASSUME NEW u \in Task, u \notin doubled'
      PROVE  Count("delegation", u)' = Count("result", u)' + open'[u]
  <2>1. /\ Count("delegation", u) = Count("result", u) + open[u]
        /\ Count("delegation", u) \in Nat /\ Count("result", u) \in Nat
    <3>1. u \in Task \ doubled
      BY <1>8
    <3>2. QED
      BY <3>1 DEF TeamInv
  <2>2. CASE u # t
    <3>1. Count("delegation", u)' = Count("delegation", u) /\ Count("result", u)' = Count("result", u)
      BY <1>1, <2>2
    <3>2. QED
      BY <1>4, <2>1, <2>2, <3>1
  <2>3. CASE u = t
    <3>1. more = CASE kind = "delegation" -> n [] kind = "result" -> 0 - n [] kind = "error" -> 0
      BY <1>8, <2>3 DEF n
    <3>2. open[t] \in Nat /\ open'[t] = open[t] + more
      BY <1>3, <1>4
    <3>3. CASE kind = "delegation"
      <4>1. Count("delegation", t)' = Count("delegation", t) + n /\ Count("result", t)' = Count("result", t)
            /\ more = n
        BY <1>1, <3>1, <3>3
      <4>2. QED
        BY <1>1, <2>1, <2>3, <3>2, <4>1
    <3>4. CASE kind = "result"
      <4>1. Count("delegation", t)' = Count("delegation", t) /\ Count("result", t)' = Count("result", t) + n
            /\ more = 0 - n
        BY <1>1, <3>1, <3>4
      <4>2. QED
        BY <1>1, <2>1, <2>3, <3>2, <4>1
    <3>5. CASE kind = "error"
      <4>1. Count("delegation", t)' = Count("delegation", t) /\ Count("result", t)' = Count("result", t)
            /\ more = 0
        BY <1>1, <3>1, <3>5
      <4>2. QED
        BY <1>1, <2>1, <2>3, <3>2, <4>1
    <3>6. QED
      BY <3>3, <3>4, <3>5 DEF Kind
  <2>4. QED
    BY <2>2, <2>3
<1>9. QED
  BY <1>2, <1>5, <1>6, <1>7, <1>8 DEF TeamInv

LEMMA TeamStays == Spec => []TeamInv
<1>1. Init => TeamInv
  <2> SUFFICES ASSUME Init
               PROVE  TeamInv
    OBVIOUS
  <2>1. /\ policy \in Policies /\ assigned = {} /\ known = {} /\ doubled = {}
        /\ sent = [m \in Message |-> 0] /\ offer = [t \in Task |-> NoOffer]
        /\ open = [t \in Task |-> 0] /\ MaxMessages \in Nat
    BY TeamworkAssumption DEF Init, TeamInit
  <2>2. TeamTypeOK
    BY <2>1, TeamworkAssumption DEF TeamTypeOK
  <2>3. Sent = 0
    <3>1. Total(sent, Message) = 0
      BY <2>1, MessagesAreFinite, TotalOfNothing
    <3>2. QED
      BY <2>1, <3>1, SumsAreTotals
  <2>4. ASSUME NEW kind, NEW t
        PROVE  Count(kind, t) = 0
    <3>1. \A m \in Of(kind, t) : sent[m] = 0
      BY <2>1 DEF Of
    <3>2. Total(sent, Of(kind, t)) = 0
      BY <3>1, MessagesAreFinite, TotalOfNothing
    <3>3. QED
      BY <3>2, SumsAreTotals
  <2>5. \A t \in Task : open[t] = 0
    BY <2>1
  <2>6. QED
    BY <2>1, <2>2, <2>3, <2>4, <2>5 DEF TeamInv
<1>2. TeamInv /\ [Next]_<<ledgerVars, teamVars, withdrawalVars, part>> => TeamInv'
  <2> SUFFICES ASSUME TeamInv, [Next]_<<ledgerVars, teamVars, withdrawalVars, part>>
               PROVE  TeamInv'
    OBVIOUS
  <2>1. /\ IsPolicy(policy) /\ assigned \subseteq Task /\ known \subseteq Task /\ doubled \subseteq Task
        /\ open \in [Task -> 0..MaxMessages] /\ MaxMessages \in Nat /\ MaxHops \in Nat
        /\ \A t \in Task : offer[t] = NoOffer \/ offer[t] \subseteq Signal
    BY TeamworkAssumption DEF TeamInv, TeamTypeOK
  <2>2. ASSUME NEW t \in Task, NEW critical \in BOOLEAN, Assign(t, critical)
        PROVE  TeamInv'
    <3> DEFINE n == Len(policy.roles) - 1
               M == {Msg("delegation", t, i - 1) : i \in 1..n}
    <3>1. /\ Assignable(critical) /\ assigned' = assigned \cup {t}
          /\ open' = [open EXCEPT ![t] = @ + Len(policy.roles) - 1]
          /\ UNCHANGED <<policy, known, offer, doubled>>
      BY <2>2 DEF Assign
    <3>2. Send(M)
      BY <2>2, Zenon DEF Assign
    <3>3. n \in Nat
      BY <2>1, <3>1 DEF Assignable, IsPolicy
    <3>4. \A i \in 1..n : i - 1 < MaxHops
      <4>1. \A m \in M : m.hops < MaxHops
        BY <3>2, Zenon DEF Send
      <4>2. \A i \in 1..n : Msg("delegation", t, i - 1) \in M /\ Msg("delegation", t, i - 1).hops = i - 1
        BY DEF Msg
      <4> HIDE DEF M, n
      <4>3. QED
        BY <4>1, <4>2
    <3>5. M \subseteq Of("delegation", t) /\ IsFiniteSet(M) /\ Cardinality(M) = n
      BY <3>3, <3>4, HandoffsAreCounted
    <3>6. open[t] \in Nat /\ open[t] + Len(policy.roles) - 1 = open[t] + n
      BY <2>1, <3>3 DEF IsPolicy
    <3>7. open' = [open EXCEPT ![t] = @ + n] /\ open[t] + n >= 0
      BY <3>1, <3>3, <3>6
    <3> HIDE DEF M, n
    <3>8. n \in {-1, 0, Cardinality(M)} /\ "delegation" \in Kind /\ assigned' \subseteq Task
          /\ doubled' = doubled /\ UNCHANGED <<policy, known, offer>>
      BY <2>1, <3>1, <3>5 DEF Kind
    <3>9. n = CASE "delegation" = "delegation" -> Cardinality(M)
                [] "delegation" = "result" -> 0 - Cardinality(M)
                [] "delegation" = "error" -> 0
      BY <3>5
    <3>10. QED
      BY <2>1, <3>2, <3>5, <3>7, <3>8, <3>9, NumbersStay
  <2>3. ASSUME NEW t \in Task, NEW hops \in 0..(MaxHops - 1), Delegate(t, hops)
        PROVE  TeamInv'
    <3> DEFINE M == {Msg("delegation", t, hops + 1)}
    <3>1. /\ Send(M) /\ open' = [open EXCEPT ![t] = @ + 1]
          /\ UNCHANGED <<policy, assigned, known, offer, doubled>>
      BY <2>3, Zenon DEF Delegate
    <3>2. M \subseteq Of("delegation", t) /\ IsFiniteSet(M) /\ Cardinality(M) = 1
      <4>1. "delegation" \in Kind /\ hops + 1 \in Nat
        BY DEF Kind
      <4>2. QED
        BY <3>1, <4>1, OneMessage
    <3> HIDE DEF M
    <3>3. open[t] + 1 >= 0 /\ "delegation" \in Kind /\ assigned' \subseteq Task
          /\ doubled' = doubled /\ UNCHANGED <<policy, known, offer>>
      BY <2>1, <3>1 DEF Kind
    <3>4. 1 = CASE "delegation" = "delegation" -> Cardinality(M)
                [] "delegation" = "result" -> 0 - Cardinality(M)
                [] "delegation" = "error" -> 0
      BY <3>2
    <3>5. 1 \in {-1, 0, Cardinality(M)}
      BY <3>2
    <3>6. QED
      BY <2>1, <3>1, <3>2, <3>3, <3>4, <3>5, NumbersStay
  <2>4. ASSUME NEW t \in Task, NEW hops \in 0..(MaxHops - 1), Answer(t, hops)
        PROVE  TeamInv'
    <3> DEFINE M == {Msg("result", t, hops)}
    <3>1. Send(M) /\ UNCHANGED <<policy, assigned, known, offer>>
      BY <2>4, Zenon DEF Answer
    <3>2. "result" \in Kind /\ M \subseteq Of("result", t) /\ IsFiniteSet(M) /\ Cardinality(M) = 1
      <4>1. "result" \in Kind /\ hops \in Nat
        BY DEF Kind
      <4>2. QED
        BY <3>1, <4>1, OneMessage
    <3> HIDE DEF M
    <3>3. CASE open[t] > 0 /\ open' = [open EXCEPT ![t] = @ - 1] /\ UNCHANGED doubled
      <4>1. open' = [open EXCEPT ![t] = @ + (-1)] /\ open[t] + (-1) >= 0
        <5>1. open[t] \in Int /\ open[t] > 0
          BY <2>1, <3>3
        <5>2. open[t] - 1 = open[t] + (-1) /\ open[t] + (-1) >= 0
          BY <5>1
        <5>3. QED
          BY <3>3, <5>2
      <4>2. -1 = CASE "result" = "delegation" -> Cardinality(M)
                   [] "result" = "result" -> 0 - Cardinality(M)
                   [] "result" = "error" -> 0
        BY <3>2
      <4>3. assigned' \subseteq Task /\ doubled' = doubled /\ UNCHANGED <<policy, known, offer>>
        BY <2>1, <3>1, <3>3
      <4>4. -1 \in {-1, 0, Cardinality(M)}
        OBVIOUS
      <4>5. QED
        BY <2>1, <3>1, <3>2, <4>1, <4>2, <4>3, <4>4, NumbersStay
    <3>4. CASE doubled' = doubled \cup {t} /\ UNCHANGED open
      <4>1. open' = [open EXCEPT ![t] = @ + 0] /\ open[t] + 0 >= 0
        BY <2>1, <3>4
      <4>2. assigned' \subseteq Task /\ doubled' \subseteq Task /\ doubled \subseteq doubled'
            /\ t \in doubled' /\ UNCHANGED <<policy, known, offer>>
        BY <2>1, <3>1, <3>4
      <4>3. 0 \in {-1, 0, Cardinality(M)}
        OBVIOUS
      <4>4. QED
        BY <2>1, <3>1, <3>2, <4>1, <4>2, <4>3, NumbersStay
    <3>5. QED
      BY <2>4, <3>3, <3>4 DEF Answer
  <2>5. ASSUME NEW t \in Task, NEW hops \in 0..(MaxHops - 1), Fail(t, hops)
        PROVE  TeamInv'
    <3> DEFINE M == {Msg("error", t, hops)}
    <3>1. Send(M) /\ UNCHANGED <<policy, assigned, known, offer, open, doubled>>
      BY <2>5, Zenon DEF Fail
    <3>2. "error" \in Kind /\ M \subseteq Of("error", t) /\ IsFiniteSet(M)
      <4>1. "error" \in Kind /\ hops \in Nat
        BY DEF Kind
      <4>2. QED
        BY <3>1, <4>1, OneMessage
    <3> HIDE DEF M
    <3>3. open' = [open EXCEPT ![t] = @ + 0] /\ open[t] + 0 >= 0
      BY <2>1, <3>1
    <3>4. assigned' \subseteq Task /\ doubled' = doubled /\ UNCHANGED <<policy, known, offer>>
      BY <2>1, <3>1
    <3>5. 0 = CASE "error" = "delegation" -> Cardinality(M)
                [] "error" = "result" -> 0 - Cardinality(M)
                [] "error" = "error" -> 0
      OBVIOUS
    <3>6. 0 \in {-1, 0, Cardinality(M)}
      OBVIOUS
    <3>7. QED
      BY <2>1, <3>1, <3>2, <3>3, <3>4, <3>5, <3>6, NumbersStay
  <2>6. ASSUME UNCHANGED <<policy, assigned, sent, open, doubled>>, known' \subseteq Task,
               \A t \in Task : offer'[t] = NoOffer \/ offer'[t] \subseteq Signal
        PROVE  TeamInv'
    <3>1. Sent' = Sent /\ \A kind, t : Count(kind, t)' = Count(kind, t)
      <4>1. sent' = sent /\ DOMAIN sent = Message
        BY <2>6 DEF TeamInv, TeamTypeOK
      <4>2. Sent = Total(sent, Message) /\ Sent' = Total(sent', Message)
        BY <4>1, SumsAreTotals
      <4>3. \A kind, t : Count(kind, t) = Total(sent, Of(kind, t)) /\ Count(kind, t)' = Total(sent', Of(kind, t))
        BY SumsAreTotals
      <4>4. QED
        BY <4>1, <4>2, <4>3
    <3>2. TeamTypeOK'
      BY <2>6 DEF TeamInv, TeamTypeOK
    <3>3. QED
      BY <2>6, <3>1, <3>2 DEF TeamInv
  <2>7. ASSUME NEW t \in Task, Observe(t)
        PROVE  TeamInv'
    BY <2>1, <2>6, <2>7 DEF Observe
  <2>8. ASSUME NEW t \in Task, Route(t)
        PROVE  TeamInv'
    <3>1. /\ offer' = [offer EXCEPT ![t] = Signals(t)]
          /\ UNCHANGED <<policy, assigned, sent, known, open, doubled>>
      BY <2>8 DEF Route
    <3>2. Signals(t) \subseteq Signal
      BY SignalsAreTyped
    <3>3. \A u \in Task : offer'[u] = NoOffer \/ offer'[u] \subseteq Signal
      BY <2>1, <3>1, <3>2
    <3>4. QED
      BY <2>1, <2>6, <3>1, <3>3
  <2>9. ASSUME NEW t \in Task, Resolve(t)
        PROVE  TeamInv'
    <3>1. /\ offer' = [offer EXCEPT ![t] = NoOffer]
          /\ UNCHANGED <<policy, assigned, sent, known, open, doubled>>
      BY <2>9 DEF Resolve
    <3>2. \A u \in Task : offer'[u] = NoOffer \/ offer'[u] \subseteq Signal
      BY <2>1, <3>1
    <3>3. QED
      BY <2>1, <2>6, <3>1, <3>2
  <2>10. CASE UNCHANGED teamVars
    BY <2>1, <2>6, <2>10 DEF teamVars
  <2>11. CASE TeamNext
    BY <2>2, <2>3, <2>4, <2>5, <2>7, <2>8, <2>9, <2>11 DEF TeamNext
  <2>12. QED
    BY <2>10, <2>11 DEF Next, TeamworkAlone, LedgerAlone, SchedulerAlone
<1>3. QED
  BY <1>1, <1>2, PTL DEF Spec

\* Counting the delegations and the results is enough to see every delegation that
\* is open, and no other, until somebody answers twice: however far the work was passed
\* on, and wherever it failed.
THEOREM OpenDelegationsAreSeen == Spec => []OpenDelegationIsSeen
<1>1. TeamInv => OpenDelegationIsSeen
  <2> SUFFICES ASSUME TeamInv, NEW t \in Task \ doubled
               PROVE  Weight("ContractBoundaryAmbiguity", t) = open[t]
    BY DEF OpenDelegationIsSeen
  <2>1. /\ Count("delegation", t) = Count("result", t) + open[t]
        /\ Count("delegation", t) \in Nat /\ Count("result", t) \in Nat /\ open[t] \in Nat
    BY TeamworkAssumption DEF TeamInv, TeamTypeOK
  <2>2. Weight("ContractBoundaryAmbiguity", t) = Unresolved(t)
    BY DEF Weight
  <2>3. Unresolved(t) = open[t]
    BY <2>1 DEF Unresolved
  <2>4. QED
    BY <2>2, <2>3
<1>2. QED
  BY <1>1, TeamStays, PTL
-----------------------------------------------------------------------------
\* The ledger, the team and the scheduler hold what they are declared to hold, among it
\* masteries between 0 and 1, no more messages than can be sent, and signals whose
\* weights are numbers of messages or hops there can be.
THEOREM TeamTypeCorrect == Spec => []TypeOK
<1>1. LedgerInv => LedgerTypeOK
  <2> SUFFICES ASSUME LedgerInv
               PROVE  LedgerTypeOK
    OBVIOUS
  <2>1. /\ answers \in [Pair -> Seq(BOOLEAN)] /\ view \in View \cup {NoView}
        /\ ever \subseteq Pair /\ always \subseteq ever
    BY DEF LedgerInv
  <2>2. ASSUME NEW x \in Pair
        PROVE  Mastery(answers[x]) \in 0..Unit
    <3>1. answers[x] \in Seq(BOOLEAN)
      BY <2>1
    <3>2. /\ Mastery(answers[x]) \in Int
          /\ Floor <= Mastery(answers[x]) /\ Mastery(answers[x]) <= Unit
      BY <3>1, MasteryStaysWithin
    <3> DEFINE m == Mastery(answers[x])
    <3> HIDE DEF m
    <3>3. m \in Int /\ Floor <= m /\ m <= Unit
      BY <3>2 DEF m
    <3>4. m \in 0..Unit
      BY <3>3 DEF Floor, Unit
    <3>5. QED
      BY <3>4 DEF m
  <2>3. QED
    BY <2>1, <2>2 DEF LedgerTypeOK
<1>2. TeamInv => TeamTypeOK
  BY DEF TeamInv
<1>3. WithdrawalInv => WithdrawalTypeOK
  BY DEF WithdrawalInv
<1>4. QED
  BY <1>1, <1>2, <1>3, LedgerStays, TeamStays, WithdrawalStays, PTL DEF TypeOK
=============================================================================
