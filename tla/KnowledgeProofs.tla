-------------------------- MODULE KnowledgeProofs --------------------------
(***************************************************************************)
(* Proofs about the stores of Knowledge, for any number of artifacts,      *)
(* records, concepts and threads: what is proved of one store holds beside *)
(* the others.                                                             *)
(***************************************************************************)
EXTENDS Knowledge, TLAPS, WellFoundedInduction

(* Insights. *)

\* What a thread knows between its three lock acquisitions: the artifacts of its call
\* are two, and once it is about to update, the successor is stored.  Without the
\* second, UpdateOld could make a row name an artifact that nobody ever stored.
CallIsSound ==
  \A w \in Worker :
    /\ step[w] # "idle" => asked[w].old # asked[w].new
    /\ step[w] = "update" => asked[w].new \in Stored

InsightInv == InsightTypeOK /\ CallIsSound /\ SuccessorIsStored /\ OkMeansSuperseded

-----------------------------------------------------------------------------
\* A thread that is in a call asks for two artifacts.
LEMMA CallAsks ==
  ASSUME InsightTypeOK, NEW w \in Worker, step[w] # "idle"
  PROVE  asked[w] \in Supersede /\ asked[w].old \in Artifact /\ asked[w].new \in Artifact
<1>1. asked[w] \in Supersede
  BY DEF InsightTypeOK
<1>2. QED
  BY <1>1 DEF Supersede

\* Rows are never deleted, whatever a step does.
LEMMA StoredGrows ==
  ASSUME InsightTypeOK, [InsightNext]_insightVars
  PROVE  \A a \in Artifact : a \in Stored => a \in Stored'
<1> SUFFICES ASSUME NEW a \in Artifact, status[a] # Missing PROVE status'[a] # Missing
  BY DEF Stored
<1> USE InsightAssumption
<1>1. ASSUME NEW w \in Worker, NEW b \in Artifact, Store(w, b) PROVE status'[a] # Missing
  BY <1>1 DEF Store, InsightTypeOK
<1>2. ASSUME NEW w \in Worker, StoreNew(w) PROVE status'[a] # Missing
  BY <1>2 DEF StoreNew, InsightTypeOK
<1>3. ASSUME NEW w \in Worker, UpdateOld(w) PROVE status'[a] # Missing
  BY <1>3, CallAsks DEF UpdateOld, InsightTypeOK
<1>4. ASSUME status' = status PROVE status'[a] # Missing
  BY <1>4
<1>5. QED
  BY <1>1, <1>2, <1>3, <1>4 DEF InsightNext, WorkerStep, Lookup, CallFails, insightVars

-----------------------------------------------------------------------------
\* The columns and the calls keep their types.
LEMMA InsightTypes == InsightTypeOK /\ [InsightNext]_insightVars => InsightTypeOK'
<1> SUFFICES ASSUME InsightTypeOK, [InsightNext]_insightVars PROVE InsightTypeOK'
  OBVIOUS
<1> USE DEF InsightTypeOK
<1>1. ASSUME NEW w \in Worker, NEW a \in Artifact, Store(w, a) PROVE InsightTypeOK'
  BY <1>1 DEF Store
<1>2. ASSUME NEW w \in Worker, NEW old \in Artifact, NEW new \in Artifact, Lookup(w, old, new)
      PROVE  InsightTypeOK'
  <2>1. [old |-> old, new |-> new] \in Supersede
    BY DEF Supersede
  <2>2. QED
    BY <1>2, <2>1, NoWorkAssumption DEF Lookup, Goto
<1>3. ASSUME NEW w \in Worker, StoreNew(w) PROVE InsightTypeOK'
  BY <1>3, CallAsks DEF StoreNew, Goto
<1>4. ASSUME NEW w \in Worker, UpdateOld(w) PROVE InsightTypeOK'
  BY <1>4, CallAsks DEF UpdateOld, Return, Goto
<1>5. ASSUME NEW w \in Worker, CallFails(w) PROVE InsightTypeOK'
  BY <1>5 DEF CallFails, Return, Goto
<1>6. CASE UNCHANGED insightVars
  BY <1>6 DEF insightVars
<1>7. QED
  BY <1>1, <1>2, <1>3, <1>4, <1>5, <1>6 DEF InsightNext, WorkerStep

-----------------------------------------------------------------------------
\* Each part of the invariant is kept by every step.  The calls: StoreNew stores the
\* successor it is about to name, and Lookup goes to update only if it saw it.
LEMMA CallsStaySound ==
  ASSUME InsightInv, [InsightNext]_insightVars
  PROVE  CallIsSound'
<1> SUFFICES ASSUME NEW v \in Worker
             PROVE  /\ step'[v] # "idle" => asked'[v].old # asked'[v].new
                    /\ step'[v] = "update" => asked'[v].new \in Stored'
  BY DEF CallIsSound
<1> USE DEF InsightInv, InsightTypeOK, CallIsSound
<1>1. ASSUME step'[v] = step[v], asked'[v] = asked[v]
      PROVE  /\ step'[v] # "idle" => asked'[v].old # asked'[v].new
             /\ step'[v] = "update" => asked'[v].new \in Stored'
  BY <1>1, CallAsks, StoredGrows
<1>2. ASSUME NEW old \in Artifact, NEW new \in Artifact, Lookup(v, old, new)
      PROVE  /\ step'[v] # "idle" => asked'[v].old # asked'[v].new
             /\ step'[v] = "update" => asked'[v].new \in Stored'
  BY <1>2, StoredGrows DEF Lookup, Goto
<1>3. ASSUME StoreNew(v)
      PROVE  /\ step'[v] # "idle" => asked'[v].old # asked'[v].new
             /\ step'[v] = "update" => asked'[v].new \in Stored'
  BY <1>3, CallAsks, InsightAssumption DEF StoreNew, Goto, Stored
<1>4. ASSUME UpdateOld(v) \/ CallFails(v) PROVE step'[v] = "idle"
  BY <1>4 DEF UpdateOld, CallFails, Return, Goto
<1>5. ASSUME NEW w \in Worker, w # v, WorkerStep(w)
      PROVE  step'[v] = step[v] /\ asked'[v] = asked[v]
  BY <1>5 DEF WorkerStep, Store, Lookup, StoreNew, UpdateOld, CallFails, Return, Goto
<1>6. ASSUME NEW a \in Artifact, Store(v, a)
      PROVE  step'[v] = step[v] /\ asked'[v] = asked[v]
  BY <1>6 DEF Store
<1>7. CASE UNCHANGED insightVars
  BY <1>1, <1>7 DEF insightVars
<1>8. CASE WorkerStep(v)
  BY <1>1, <1>2, <1>3, <1>4, <1>6, <1>8 DEF WorkerStep
<1>9. QED
  BY <1>1, <1>5, <1>7, <1>8 DEF InsightNext

\* The chain: a row is only ever made to name a stored artifact other than itself.
LEMMA ChainsStaySound ==
  ASSUME InsightInv, [InsightNext]_insightVars
  PROVE  SuccessorIsStored'
<1> SUFFICES ASSUME NEW a \in Artifact, status'[a] \in Artifact
             PROVE  status'[a] \in Stored' /\ status'[a] # a
  BY DEF SuccessorIsStored
<1> USE DEF InsightInv
<1>1. ASSUME status'[a] = status[a]
      PROVE  status'[a] \in Stored' /\ status'[a] # a
  BY <1>1, StoredGrows DEF SuccessorIsStored
<1>2. ASSUME NEW w \in Worker, NEW b \in Artifact, Store(w, b)
      PROVE  status'[a] = status[a]
  BY <1>2, InsightAssumption DEF Store, InsightTypeOK
<1>3. ASSUME NEW w \in Worker, StoreNew(w)
      PROVE  status'[a] = status[a]
  BY <1>3, InsightAssumption DEF StoreNew, InsightTypeOK
<1>4. ASSUME NEW w \in Worker, UpdateOld(w), status'[a] # status[a]
      PROVE  status'[a] \in Stored' /\ status'[a] # a
  <2>1. a = asked[w].old /\ status'[a] = asked[w].new
    BY <1>4, CallAsks DEF UpdateOld, InsightTypeOK
  <2>2. asked[w].new \in Stored /\ asked[w].old # asked[w].new
    BY <1>4 DEF UpdateOld, CallIsSound
  <2>3. QED
    BY <2>1, <2>2, StoredGrows
<1>5. QED
  BY <1>1, <1>2, <1>3, <1>4 DEF InsightNext, WorkerStep, Lookup, CallFails, insightVars

\* What was acknowledged: the update it speaks of found its row, and no later step
\* makes a row living again.
LEMMA AcknowledgedLasts ==
  ASSUME InsightInv, [InsightNext]_insightVars
  PROVE  /\ OkMeansSuperseded'
         /\ \A a \in Stored : status'[a] = status[a] \/ status'[a] \in Artifact
<1> USE DEF InsightInv
<1>1. ASSUME NEW w \in Worker, NEW b \in Artifact, Store(w, b)
      PROVE  acknowledged' = acknowledged /\ \A a \in Stored : status'[a] = status[a]
  BY <1>1 DEF Store, InsightTypeOK, Stored
<1>2. ASSUME NEW w \in Worker, StoreNew(w)
      PROVE  acknowledged' = acknowledged /\ \A a \in Stored : status'[a] = status[a]
  BY <1>2 DEF StoreNew, InsightTypeOK, Stored
<1>3. ASSUME NEW w \in Worker, UpdateOld(w)
      PROVE  /\ acknowledged' = acknowledged \cup {asked[w].old}
             /\ status'[asked[w].old] \in Artifact
             /\ \A a \in Stored : status'[a] = status[a] \/ status'[a] \in Artifact
  BY <1>3, CallAsks DEF UpdateOld, InsightTypeOK, Stored
<1>4. acknowledged \subseteq Stored
  BY InsightAssumption DEF OkMeansSuperseded, InsightTypeOK, Stored
<1>5. ASSUME NEW w \in Worker, UpdateOld(w) PROVE OkMeansSuperseded'
  BY <1>3, <1>4, <1>5 DEF OkMeansSuperseded
<1>6. ASSUME acknowledged' = acknowledged, \A a \in Stored : status'[a] = status[a]
      PROVE  OkMeansSuperseded'
  BY <1>4, <1>6 DEF OkMeansSuperseded
<1>7. QED
  BY <1>1, <1>2, <1>3, <1>5, <1>6 DEF InsightNext, WorkerStep, Lookup, CallFails, insightVars
-----------------------------------------------------------------------------
\* The invariant, for any number of artifacts and threads.
THEOREM InsightInvariant == InsightSpec => []InsightInv
<1>1. InsightInit => InsightInv
  BY InsightAssumption
  DEF InsightInit, InsightInv, InsightTypeOK, CallIsSound, SuccessorIsStored, OkMeansSuperseded
<1>2. InsightInv /\ [InsightNext]_insightVars => InsightInv'
  BY InsightTypes, CallsStaySound, ChainsStaySound, AcknowledgedLasts DEF InsightInv
<1>3. QED
  BY <1>1, <1>2, PTL DEF InsightSpec

\* The chain of insights has no loose end, whatever fails between the steps of supersede.
THEOREM SuccessorsStored == InsightSpec => []SuccessorIsStored
<1>1. InsightInv => SuccessorIsStored
  BY DEF InsightInv
<1>2. QED
  BY <1>1, InsightInvariant, PTL

\* What supersede acknowledged took effect and lasts.
THEOREM Acknowledged == InsightSpec => []OkMeansSuperseded
<1>1. InsightInv => OkMeansSuperseded
  BY DEF InsightInv
<1>2. QED
  BY <1>1, InsightInvariant, PTL

\* Supersession is for good.
THEOREM ForGood == InsightSpec => SupersededForGood
<1>1. InsightInv /\ [InsightNext]_insightVars =>
        [\A a \in Stored : status'[a] = status[a] \/ status'[a] \in Artifact]_insightVars
  BY AcknowledgedLasts
<1>2. QED
  BY <1>1, InsightInvariant, PTL DEF InsightSpec, SupersededForGood

-----------------------------------------------------------------------------
\* Whatever the threads do elsewhere, the insights move as InsightStore says.
LEMMA InsightAlone == KnowledgeSpec => InsightSpec
<1>1. KnowledgeInit => InsightInit
  BY DEF KnowledgeInit
<1>2. [KnowledgeNext]_knowledgeVars => [InsightNext]_insightVars
  BY DEF KnowledgeNext, InsightNext, knowledgeVars
<1>3. QED
  BY <1>1, <1>2, PTL DEF KnowledgeSpec, InsightSpec

\* No superseded insight names one that is not there, beside the other stores.
THEOREM NoLooseEnd == KnowledgeSpec => []SuccessorIsStored
BY InsightAlone, SuccessorsStored, PTL

\* An acknowledged supersession took effect and lasts, beside the other stores.
THEOREM OkIsSuperseded == KnowledgeSpec => []OkMeansSuperseded
BY InsightAlone, Acknowledged, PTL

\* A superseded insight never comes back, beside the other stores.
THEOREM NeverRevived == KnowledgeSpec => SupersededForGood
BY InsightAlone, ForGood, PTL

-----------------------------------------------------------------------------
\* Links are only of registered concepts, also those about to be inserted: nothing
\* ever removes a concept between ensure_concept_exists and the insert.
CoverageInv ==
  /\ CoverageTypeOK
  /\ \A l \in Linker : ~Idle(l) => linking[l].concept \in concepts

\* Whatever the threads do elsewhere, the map moves as CoverageMap says.
LEMMA CoverageAlone == KnowledgeSpec => CoverageSpec
<1>1. KnowledgeInit => CoverageInit
  BY DEF KnowledgeInit
<1>2. [KnowledgeNext]_knowledgeVars => [CoverageNext]_coverageVars
  BY KnowledgeAssumption DEF KnowledgeNext, CoverageNext, knowledgeVars
<1>3. QED
  BY <1>1, <1>2, PTL DEF KnowledgeSpec, CoverageSpec

\* What a thread between the lookup and the insert has at hand.
LEMMA LinkAtHand ==
  ASSUME CoverageInv, NEW l \in Linker, ~Idle(l)
  PROVE  /\ linking[l] \in Link
         /\ linking[l].concept \in concepts
         /\ linking[l].to \notin Ref => linking[l].to \in Person
<1>1. linking[l] \in Link
  BY DEF CoverageInv, CoverageTypeOK, Idle
<1>2. QED
  BY <1>1 DEF CoverageInv, Link

\* A hold is set to a value of its own for one concept and one person at a time.
LEMMA HeldUpdated ==
  ASSUME CoverageInv, NEW c \in concepts, NEW p \in Person, NEW h \in {"living", "decayed"},
         held' = [held EXCEPT ![c][p] = h], UNCHANGED concepts
  PROVE  /\ held' \in [Concept -> [Person -> {"never", "living", "decayed"}]]
         /\ \A d \in Concept, q \in Person : held'[d][q] # "never" => d \in concepts'
  BY DEF CoverageInv, CoverageTypeOK

\* The foreign keys of the map find their rows in every reachable state.
LEMMA CoverageInvariant == CoverageSpec => []CoverageInv
<1>1. CoverageInit => CoverageInv
  BY DEF CoverageInit, CoverageInv, CoverageTypeOK, Idle
<1>2. CoverageInv /\ [CoverageNext]_coverageVars => CoverageInv'
  <2> SUFFICES ASSUME CoverageInv, [CoverageNext]_coverageVars PROVE CoverageInv'
    OBVIOUS
  <2>1. ASSUME NEW l \in Linker, NEW c \in Concept, AddConcept(l, c) PROVE CoverageInv'
    BY <2>1 DEF AddConcept, CoverageInv, CoverageTypeOK, Idle
  <2>2. ASSUME NEW l \in Linker, NEW link \in Link, EnsureExists(l, link) PROVE CoverageInv'
    BY <2>2, CoverageAssumption DEF EnsureExists, CoverageInv, CoverageTypeOK, Idle
  <2>3. ASSUME NEW l \in Linker, InsertLink(l) PROVE CoverageInv'
    <3> DEFINE link == linking[l]
    <3>1. /\ link \in Link /\ link.concept \in concepts
          /\ link.to \notin Ref => link.to \in Person
      BY <2>3, LinkAtHand DEF InsertLink
    <3>2. linking' = [linking EXCEPT ![l] = NoLink] /\ UNCHANGED concepts
      BY <2>3 DEF InsertLink
    <3>3. /\ linking' \in [Linker -> Link \cup {NoLink}]
          /\ \A k \in Linker : linking'[k] # NoLink => linking'[k].concept \in concepts'
      BY <3>2 DEF CoverageInv, CoverageTypeOK, Idle
    <3>4. /\ references' \subseteq Link
          /\ \A r \in references' : r.to \in Ref /\ r.concept \in concepts'
      BY <2>3, <3>1, <3>2 DEF InsertLink, CoverageInv, CoverageTypeOK
    <3>5. /\ held' \in [Concept -> [Person -> {"never", "living", "decayed"}]]
          /\ \A d \in Concept, q \in Person : held'[d][q] # "never" => d \in concepts'
      <4>1. CASE link.to \in Ref
        BY <2>3, <3>2, <4>1 DEF InsertLink, CoverageInv, CoverageTypeOK
      <4>2. CASE link.to \notin Ref
        <5>1. held' = [held EXCEPT ![link.concept][link.to] = "living"]
          BY <2>3, <4>2 DEF InsertLink
        <5>2. QED
          BY <3>1, <3>2, <4>2, <5>1, HeldUpdated
      <4>3. QED
        BY <4>1, <4>2
    <3>6. QED
      BY <3>2, <3>3, <3>4, <3>5 DEF CoverageInv, CoverageTypeOK, Idle
  <2>4. ASSUME NEW l \in Linker, LinkFails(l) PROVE CoverageInv'
    BY <2>4 DEF LinkFails, CoverageInv, CoverageTypeOK, Idle
  <2>5. ASSUME NEW l \in Linker, NEW c \in Concept, NEW p \in Person, Decay(l, c, p)
        PROVE  CoverageInv'
    <3>1. c \in concepts
      BY <2>5 DEF Decay, CoverageInv, CoverageTypeOK
    <3>2. QED
      BY <2>5, <3>1, HeldUpdated DEF Decay, CoverageInv, CoverageTypeOK, Idle
  <2>6. CASE UNCHANGED coverageVars
    BY <2>6 DEF coverageVars, CoverageInv, CoverageTypeOK, Idle
  <2>7. QED
    BY <2>1, <2>2, <2>3, <2>4, <2>5, <2>6 DEF CoverageNext, LinkerStep
<1>3. QED
  BY <1>1, <1>2, PTL DEF CoverageSpec

\* No call forgets a concept, and what becomes of a living hold is decay at worst.
LEMMA HoldsOnlyDecay ==
  ASSUME CoverageInv, [CoverageNext]_coverageVars
  PROVE  /\ concepts \subseteq concepts'
         /\ \A c \in Concept, p \in Person :
              held[c][p] = "living" => held'[c][p] \in {"living", "decayed"}
<1>1. ASSUME NEW l \in Linker, InsertLink(l)
      PROVE  /\ concepts \subseteq concepts'
             /\ \A c \in Concept, p \in Person :
                  held[c][p] = "living" => held'[c][p] \in {"living", "decayed"}
  BY <1>1 DEF InsertLink, CoverageInv, CoverageTypeOK
<1>2. ASSUME NEW l \in Linker, NEW d \in Concept, NEW q \in Person, Decay(l, d, q)
      PROVE  /\ concepts \subseteq concepts'
             /\ \A c \in Concept, p \in Person :
                  held[c][p] = "living" => held'[c][p] \in {"living", "decayed"}
  BY <1>2 DEF Decay, CoverageInv, CoverageTypeOK
<1>3. QED
  BY <1>1, <1>2
  DEF CoverageNext, LinkerStep, AddConcept, EnsureExists, LinkFails, coverageVars

\* Darkness tells the truth about people, in any number of threads and beside the
\* other stores: the code's living_actors_for and dark_concepts.
THEOREM DarknessIsTrue == KnowledgeSpec => DarknessTells
<1>1. CoverageInv /\ [CoverageNext]_coverageVars =>
        [\A c \in Concept :
           /\ c \in Dark /\ c \notin Dark' => Holders(c)' # {}
           /\ c \notin Dark /\ c \in Dark' =>
                \/ c \notin concepts
                \/ \A p \in Holders(c) : held'[c][p] = "decayed"]_coverageVars
  BY HoldsOnlyDecay DEF Dark, Holders
<1>2. QED
  BY <1>1, CoverageAlone, CoverageInvariant, PTL DEF CoverageSpec, DarknessTells

\* A nonempty set of natural numbers has a least element.
LEMMA LeastNatural ==
  ASSUME NEW T \in SUBSET Nat, T # {}
  PROVE  \E n \in T : \A m \in T : n <= m
<1>1. \A x, y \in Nat : x < y => <<x, y>> \in OpToRel(<, Nat)
  BY DEF OpToRel
<1>2. PICK n \in T : \A m \in T : <<m, n>> \notin OpToRel(<, Nat)
  <2>1. \E n \in T : \A m \in T : <<m, n>> \notin OpToRel(<, Nat)
    BY NatLessThanWellFounded, WFMin
  <2>2. QED
    BY <2>1
<1>3. ASSUME NEW m \in T
      PROVE  n <= m
  <2>1. n \in Nat /\ m \in Nat
    OBVIOUS
  <2>2. ~(m < n)
    BY <1>1, <1>2, <2>1
  <2>3. QED
    BY <2>1, <2>2
<1>4. QED
  BY <1>3

-----------------------------------------------------------------------------
(* Rationales. *)

\* What a record supersedes is there and about the same task, also for a record that is about
\* to be inserted; ids are nobody else's; and records can be ranked so that every correction
\* ranks above what it corrects, which is what keeps corrections from running in a circle.
RecordsAreSound == \A r \in Recorded : Supersedable(records[r].supersedes, records[r].task)

DraftsAreSound ==
  \A a \in Author : draft[a] # NoDraft =>
    /\ draft[a].id \notin Recorded
    /\ Supersedable(draft[a].record.supersedes, draft[a].record.task)
    /\ \A b \in Author : draft[b] # NoDraft /\ draft[b].id = draft[a].id => b = a

Ranks(rank, n) ==
  \A r \in Recorded :
    /\ rank[r] \in Nat /\ rank[r] <= n
    /\ records[r].supersedes # NoRationale => rank[records[r].supersedes] < rank[r]

RationaleInv ==
  /\ RationaleTypeOK /\ RecordsAreSound /\ DraftsAreSound
  /\ \E n \in Nat, rank \in [Rationale -> Nat] : Ranks(rank, n)

\* A record comes in above all that are there.
LEMMA InsertKept ==
  ASSUME RationaleInv, NEW a \in Author, Insert(a)
  PROVE  RationaleInv'
<1> DEFINE id == draft[a].id
           new == draft[a].record
<1>1. /\ draft[a] # NoDraft /\ draft[a] \in Draft /\ id \in Rationale /\ new \in Record
      /\ records' = [records EXCEPT ![id] = new] /\ draft' = [draft EXCEPT ![a] = NoDraft]
      /\ id \notin Recorded /\ Supersedable(new.supersedes, new.task) /\ new # NoRecord
      /\ records \in [Rationale -> Record \cup {NoRecord}]
      /\ draft \in [Author -> Draft \cup {NoDraft}]
  <2>1. draft[a] # NoDraft /\ draft[a] \in Draft
    BY DEF Insert, RationaleInv, RationaleTypeOK
  <2>2. id \in Rationale /\ new \in Record
    BY <2>1 DEF Draft
  <2>3. NoRecord \notin Record
    BY RationaleAssumption, DraftAssumption
  <2>4. QED
    BY <2>1, <2>2, <2>3 DEF Insert, RationaleInv, RationaleTypeOK, DraftsAreSound
<1> HIDE DEF id, new
<1>2. /\ Recorded' = Recorded \cup {id} /\ records'[id] = new
      /\ \A r \in Recorded : records'[r] = records[r] /\ r # id
  BY <1>1 DEF Recorded
<1>3. ASSUME NEW target, NEW task, Supersedable(target, task)
      PROVE  target = NoRationale \/ (target \in Recorded' /\ records'[target].task = task)
  BY <1>2, <1>3 DEF Supersedable
<1>4. RationaleTypeOK'
  BY <1>1 DEF RationaleTypeOK
<1>5. RecordsAreSound'
  <2>1. ASSUME NEW r \in Recorded'
        PROVE  Supersedable(records[r].supersedes, records[r].task)'
    <3>1. CASE r = id
      <4>1. new.supersedes = NoRationale
              \/ (new.supersedes \in Recorded' /\ records'[new.supersedes].task = new.task)
        BY <1>1, <1>3
      <4>2. QED
        BY <1>2, <3>1, <4>1 DEF Supersedable
    <3>2. CASE r # id
      <4> DEFINE t == records[r].supersedes
                 k == records[r].task
      <4>1. r \in Recorded /\ records'[r] = records[r]
        BY <1>2, <3>2
      <4>2. Supersedable(t, k)
        BY <4>1 DEF RationaleInv, RecordsAreSound
      <4>3. t = NoRationale \/ (t \in Recorded' /\ records'[t].task = k)
        BY <1>3, <4>2
      <4>4. QED
        BY <4>1, <4>3 DEF Supersedable
    <3>3. QED
      BY <3>1, <3>2
  <2>2. QED
    BY <2>1 DEF RecordsAreSound
<1>6. DraftsAreSound'
  <2> SUFFICES ASSUME NEW b \in Author, draft'[b] # NoDraft
               PROVE  /\ draft'[b].id \notin Recorded'
                      /\ Supersedable(draft[b].record.supersedes, draft[b].record.task)'
                      /\ \A c \in Author :
                           draft'[c] # NoDraft /\ draft'[c].id = draft'[b].id => c = b
    BY DEF DraftsAreSound
  <2>1. \A c \in Author : draft'[c] # NoDraft => c # a /\ draft'[c] = draft[c]
    BY <1>1
  <2>2. /\ draft[b].id \notin Recorded
        /\ Supersedable(draft[b].record.supersedes, draft[b].record.task)
        /\ \A c \in Author : draft[c] # NoDraft /\ draft[c].id = draft[b].id => c = b
    BY <2>1 DEF RationaleInv, DraftsAreSound
  <2>3. draft[b].id # id
    BY <1>1, <2>1, <2>2 DEF id
  <2> DEFINE t == draft[b].record.supersedes
             k == draft[b].record.task
  <2>4. t = NoRationale \/ (t \in Recorded' /\ records'[t].task = k)
    BY <1>3, <2>2
  <2>5. Supersedable(draft[b].record.supersedes, draft[b].record.task)'
    BY <2>1, <2>4 DEF Supersedable
  <2>6. QED
    BY <1>2, <2>1, <2>2, <2>3, <2>5
<1>7. \E n \in Nat, rank \in [Rationale -> Nat] : Ranks(rank, n)'
  <2>1. PICK n \in Nat, rank \in [Rationale -> Nat] : Ranks(rank, n)
    BY DEF RationaleInv
  <2>2. PICK higher \in [Rationale -> Nat] :
          higher[id] = n + 1 /\ \A r \in Recorded : higher[r] = rank[r]
    <3>1. [rank EXCEPT ![id] = n + 1] \in [Rationale -> Nat]
      BY <1>1
    <3>2. \A r \in Recorded : r \in Rationale /\ r # id
      BY <1>2 DEF Recorded
    <3>3. QED
      BY <1>1, <3>1, <3>2
  <2>3. \A r \in Recorded : rank[r] \in Nat /\ rank[r] <= n /\ rank[r] <= n + 1 /\ rank[r] < n + 1
    BY <2>1 DEF Ranks
  <2>4. ASSUME NEW r \in Recorded
        PROVE  /\ higher[r] \in Nat /\ higher[r] <= n + 1
               /\ records'[r].supersedes # NoRationale => higher[records'[r].supersedes] < higher[r]
    <3>1. records[r].supersedes # NoRationale => records[r].supersedes \in Recorded
      BY DEF RationaleInv, RecordsAreSound, Supersedable
    <3>2. records[r].supersedes # NoRationale => rank[records[r].supersedes] < rank[r]
      BY <2>1 DEF Ranks
    <3>3. QED
      BY <1>2, <2>2, <2>3, <3>1, <3>2
  <2>5. new.supersedes # NoRationale => higher[new.supersedes] < n + 1
    BY <1>1, <2>2, <2>3 DEF Supersedable
  <2>6. Ranks(higher, n + 1)'
    BY <1>2, <2>2, <2>4, <2>5 DEF Ranks
  <2>7. QED
    BY <2>2, <2>6
<1>8. QED
  BY <1>4, <1>5, <1>6, <1>7 DEF RationaleInv

LEMMA RationaleInvariant == RationaleSpec => []RationaleInv
<1>1. RationaleInit => RationaleInv
  <2> SUFFICES ASSUME RationaleInit
               PROVE  RationaleInv
    OBVIOUS
  <2>1. Recorded = {} /\ \A a \in Author : draft[a] = NoDraft
    BY DEF RationaleInit, Recorded
  <2>2. RationaleTypeOK
    BY DEF RationaleInit, RationaleTypeOK
  <2>3. [r \in Rationale |-> 0] \in [Rationale -> Nat]
    OBVIOUS
  <2>4. Ranks([r \in Rationale |-> 0], 0)
    BY <2>1 DEF Ranks
  <2>5. QED
    BY <2>1, <2>2, <2>3, <2>4 DEF RationaleInv, RecordsAreSound, DraftsAreSound
<1>2. RationaleInv /\ [RationaleNext]_rationaleVars => RationaleInv'
  <2> SUFFICES ASSUME RationaleInv, [RationaleNext]_rationaleVars
               PROVE  RationaleInv'
    OBVIOUS
  <2>1. ASSUME NEW a \in Author, Insert(a)
        PROVE  RationaleInv'
    BY <2>1, InsertKept
  <2>2. ASSUME records' = records, RationaleTypeOK', DraftsAreSound'
        PROVE  RationaleInv'
    <3>1. Recorded' = Recorded
      BY <2>2 DEF Recorded
    <3>2. RecordsAreSound'
      BY <2>2, <3>1 DEF RationaleInv, RecordsAreSound, Supersedable
    <3>3. \A n, rank : Ranks(rank, n)' <=> Ranks(rank, n)
      BY <2>2, <3>1 DEF Ranks
    <3>4. QED
      BY <2>2, <3>2, <3>3 DEF RationaleInv
  <2>3. ASSUME NEW a \in Author, NEW id \in Rationale, NEW record \in Record, Append(a, id, record)
        PROVE  RationaleInv'
    <3> DEFINE d == [id |-> id, record |-> record]
    <3>1. /\ draft' = [draft EXCEPT ![a] = d] /\ records' = records /\ d \in Draft
          /\ id \notin Recorded /\ Supersedable(record.supersedes, record.task)
          /\ \A b \in Author : draft[b] # NoDraft => draft[b].id # id
      BY <2>3 DEF Append, Draft
    <3>2. RationaleTypeOK'
      BY <3>1 DEF RationaleInv, RationaleTypeOK
    <3>3. d.id = id /\ d.record = record
      OBVIOUS
    <3>4. draft'[a] = d /\ \A b \in Author : b # a => draft'[b] = draft[b]
      BY <3>1 DEF RationaleInv, RationaleTypeOK
    <3> HIDE DEF d
    <3>5. DraftsAreSound'
      BY <3>1, <3>3, <3>4 DEF RationaleInv, DraftsAreSound, Recorded, Supersedable
    <3>6. QED
      BY <2>2, <3>1, <3>2, <3>5
  <2>4. ASSUME NEW a \in Author, InsertFails(a)
        PROVE  RationaleInv'
    <3>1. draft' = [draft EXCEPT ![a] = NoDraft] /\ records' = records
      BY <2>4 DEF InsertFails
    <3>2. RationaleTypeOK'
      BY <3>1 DEF RationaleInv, RationaleTypeOK
    <3>3. \A b \in Author : draft'[b] # NoDraft => draft'[b] = draft[b]
      BY <3>1 DEF RationaleInv, RationaleTypeOK
    <3>4. DraftsAreSound'
      BY <3>1, <3>3 DEF RationaleInv, DraftsAreSound, Recorded, Supersedable
    <3>5. QED
      BY <2>2, <3>1, <3>2, <3>4
  <2>5. CASE UNCHANGED rationaleVars
    BY <2>2, <2>5 DEF rationaleVars, RationaleInv, RationaleTypeOK, DraftsAreSound, Recorded, Supersedable
  <2>6. QED
    BY <2>1, <2>3, <2>4, <2>5 DEF RationaleNext, AuthorStep
<1>3. QED
  BY <1>1, <1>2, PTL DEF RationaleSpec

\* Whatever the threads do elsewhere, the records move as RationaleLedger says.
LEMMA RationaleAlone == KnowledgeSpec => RationaleSpec
<1>1. KnowledgeInit => RationaleInit
  BY DEF KnowledgeInit
<1>2. [KnowledgeNext]_knowledgeVars => [RationaleNext]_rationaleVars
  BY KnowledgeAssumption DEF KnowledgeNext, RationaleNext, knowledgeVars
<1>3. QED
  BY <1>1, <1>2, PTL DEF KnowledgeSpec, RationaleSpec

\* A correction stays with its task: the records of a task are closed under superseding.
LEMMA CorrectionsKeepTheTask ==
  ASSUME RationaleInv, NEW x \in Recorded, NEW y \in Recorded, records[y].supersedes = x
  PROVE  records[y].task = records[x].task
<1>1. x # NoRationale
  BY RationaleAssumption DEF Recorded
<1>2. QED
  BY <1>1 DEF RationaleInv, RecordsAreSound, Supersedable

\* Following corrections from a record comes to an end, at one nothing corrects.
LEMMA CorrectionsEnd ==
  ASSUME RationaleInv, NEW r \in Recorded
  PROVE  \E s \in Recorded : Corrects(s, r) /\ \A y \in Recorded : records[y].supersedes # s
<1>1. PICK n \in Nat, rank \in [Rationale -> Nat] : Ranks(rank, n)
  BY DEF RationaleInv
<1>2. \A s \in Recorded : s \in Rationale /\ rank[s] \in Nat /\ rank[s] <= n /\ n - rank[s] \in Nat
  BY <1>1 DEF Ranks, Recorded
<1> DEFINE Up == {s \in Recorded : Corrects(s, r)}
           Gaps == {n - rank[s] : s \in Up}
<1>3. r \in Up
  BY DEF Corrects
<1>4. Gaps \in SUBSET Nat /\ Gaps # {}
  BY <1>2, <1>3
<1>5. PICK g \in Gaps : \A m \in Gaps : g <= m
  <2> HIDE DEF Gaps
  <2>1. QED
    BY <1>4, LeastNatural
<1>6. PICK s \in Up : g = n - rank[s]
  OBVIOUS
<1>7. ASSUME NEW y \in Recorded, records[y].supersedes = s
      PROVE  FALSE
  <2>1. y \in Up
    BY <1>7 DEF Corrects
  <2>2. n - rank[y] \in Gaps
    BY <2>1
  <2>3. s # NoRationale
    BY RationaleAssumption DEF Recorded
  <2>4. rank[s] < rank[y]
    BY <1>1, <1>7, <2>3 DEF Ranks
  <2> HIDE DEF Gaps
  <2>5. n - rank[s] <= n - rank[y]
    BY <1>5, <1>6, <2>2
  <2> HIDE DEF Up
  <2>6. s \in Recorded
    BY DEF Up
  <2>7. QED
    BY <1>2, <2>4, <2>5, <2>6
<1>8. QED
  BY <1>6, <1>7

\* The current view of the rationales is sound and complete, for any number of authors and
\* records and beside the other stores: the code's current_for_task.
THEOREM CurrentViewHolds == KnowledgeSpec => []CurrentViewIsSound
<1>1. RationaleInv => CurrentViewIsSound
  <2> SUFFICES ASSUME RationaleInv, NEW r \in Recorded
               PROVE  IF r \in CurrentForTask(records[r].task)
                      THEN \A s \in Recorded : records[s].supersedes # r
                      ELSE \E s \in CurrentForTask(records[r].task) : Corrects(s, r)
    BY DEF CurrentViewIsSound
  <2>1. CASE r \in CurrentForTask(records[r].task)
    BY <2>1, CorrectionsKeepTheTask DEF CurrentForTask, ForTask
  <2>2. PICK s \in Recorded : Corrects(s, r) /\ \A y \in Recorded : records[y].supersedes # s
    BY CorrectionsEnd
  <2>3. records[s].task = records[r].task
    <3> DEFINE Same == {x \in Recorded : records[x].task = records[r].task}
    <3>1. Same \in SUBSET Recorded /\ r \in Same
      OBVIOUS
    <3>2. \A x \in Same, y \in Recorded : records[y].supersedes = x => y \in Same
      BY CorrectionsKeepTheTask
    <3>3. s \in Same
      BY <2>2, <3>1, <3>2 DEF Corrects
    <3>4. QED
      BY <3>3
  <2>4. s \in CurrentForTask(records[r].task)
    BY <2>2, <2>3 DEF CurrentForTask, ForTask
  <2>5. QED
    BY <2>1, <2>2, <2>4
<1>2. QED
  BY <1>1, RationaleAlone, RationaleInvariant, PTL

-----------------------------------------------------------------------------
\* A thread in a call of one store is in none of the others.
OneCallAtATime ==
  \A w \in Worker :
    \/ InsightIdle(w) /\ RationaleIdle(w)
    \/ InsightIdle(w) /\ Idle(w)
    \/ RationaleIdle(w) /\ Idle(w)

\* What a step of one thread leaves alone in the store it works on: the other threads' calls.
LEMMA OthersStayInTheirCall ==
  ASSUME InsightTypeOK, RationaleTypeOK, CoverageTypeOK, NEW w \in Worker, NEW v \in Worker, v # w
  PROVE  /\ WorkerStep(w) => (InsightIdle(v)' <=> InsightIdle(v))
         /\ AuthorStep(w) => (RationaleIdle(v)' <=> RationaleIdle(v))
         /\ LinkerStep(w) => (Idle(v)' <=> Idle(v))
<1>1. WorkerStep(w) => step'[v] = step[v]
  BY DEF WorkerStep, Store, Lookup, StoreNew, UpdateOld, CallFails, Return, Goto, InsightTypeOK
<1>2. AuthorStep(w) => draft'[v] = draft[v]
  BY KnowledgeAssumption DEF AuthorStep, Append, Insert, InsertFails, RationaleTypeOK
<1>3. LinkerStep(w) => linking'[v] = linking[v]
  BY KnowledgeAssumption
  DEF LinkerStep, AddConcept, EnsureExists, InsertLink, LinkFails, Decay, CoverageTypeOK
<1>4. QED
  BY <1>1, <1>2, <1>3 DEF InsightIdle, RationaleIdle, Idle

\* The stores stay well typed, and each thread is in one call at a time.
THEOREM KnowledgeTypeCorrect == KnowledgeSpec => []KnowledgeTypeOK
<1>1. KnowledgeInit => OneCallAtATime
  BY KnowledgeAssumption DEF KnowledgeInit, InsightInit, RationaleInit, OneCallAtATime, InsightIdle, RationaleIdle
<1>2. InsightInv /\ RationaleInv /\ CoverageInv /\ OneCallAtATime /\ [KnowledgeNext]_knowledgeVars
        => OneCallAtATime'
  <2> SUFFICES ASSUME InsightTypeOK, RationaleTypeOK, CoverageTypeOK, OneCallAtATime,
                      [KnowledgeNext]_knowledgeVars, NEW v \in Worker
               PROVE  \/ InsightIdle(v)' /\ RationaleIdle(v)'
                      \/ InsightIdle(v)' /\ Idle(v)'
                      \/ RationaleIdle(v)' /\ Idle(v)'
    BY DEF OneCallAtATime, InsightInv, RationaleInv, CoverageInv
  <2>1. /\ UNCHANGED insightVars => (InsightIdle(v)' <=> InsightIdle(v))
        /\ UNCHANGED rationaleVars => (RationaleIdle(v)' <=> RationaleIdle(v))
        /\ UNCHANGED coverageVars => (Idle(v)' <=> Idle(v))
    BY DEF insightVars, rationaleVars, coverageVars, InsightIdle, RationaleIdle, Idle
  <2>2. \/ InsightIdle(v) /\ RationaleIdle(v)
        \/ InsightIdle(v) /\ Idle(v)
        \/ RationaleIdle(v) /\ Idle(v)
    BY DEF OneCallAtATime
  <2>3. CASE UNCHANGED knowledgeVars
    BY <2>1, <2>2, <2>3 DEF knowledgeVars
  <2>4. ASSUME NEW w \in Worker, RationaleIdle(w), Idle(w), WorkerStep(w),
               UNCHANGED <<rationaleVars, coverageVars>>
        PROVE  \/ InsightIdle(v)' /\ RationaleIdle(v)'
               \/ InsightIdle(v)' /\ Idle(v)'
               \/ RationaleIdle(v)' /\ Idle(v)'
    BY <2>1, <2>2, <2>4, OthersStayInTheirCall
  <2>5. ASSUME NEW w \in Worker, InsightIdle(w), Idle(w), AuthorStep(w),
               UNCHANGED <<insightVars, coverageVars>>
        PROVE  \/ InsightIdle(v)' /\ RationaleIdle(v)'
               \/ InsightIdle(v)' /\ Idle(v)'
               \/ RationaleIdle(v)' /\ Idle(v)'
    BY <2>1, <2>2, <2>5, OthersStayInTheirCall
  <2>6. ASSUME NEW w \in Worker, InsightIdle(w), RationaleIdle(w), LinkerStep(w),
               UNCHANGED <<insightVars, rationaleVars>>
        PROVE  \/ InsightIdle(v)' /\ RationaleIdle(v)'
               \/ InsightIdle(v)' /\ Idle(v)'
               \/ RationaleIdle(v)' /\ Idle(v)'
    BY <2>1, <2>2, <2>6, OthersStayInTheirCall
  <2>7. QED
    BY <2>3, <2>4, <2>5, <2>6 DEF KnowledgeNext
<1>3. InsightInv /\ RationaleInv /\ CoverageInv /\ OneCallAtATime => KnowledgeTypeOK
  BY DEF InsightInv, RationaleInv, CoverageInv, OneCallAtATime, KnowledgeTypeOK
<1>4. QED
  BY <1>1, <1>2, <1>3, InsightAlone, InsightInvariant, RationaleAlone, RationaleInvariant,
     CoverageAlone, CoverageInvariant, PTL DEF KnowledgeSpec
=============================================================================
