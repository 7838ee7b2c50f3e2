---------------------------- MODULE CoverageMap ----------------------------
(***************************************************************************)
(* The coverage map (crates/plugin-coverage-map/src/lib.rs): concepts, the *)
(* artifacts that refer to them and the people who hold them.  A concept   *)
(* nobody living holds is dark.  A link is made in two lock acquisitions:  *)
(* the concept is looked up and then the link is inserted; other threads   *)
(* pass between them.                                                      *)
(***************************************************************************)
CONSTANTS
  Concept, \* ids of concepts
  Person,  \* people who hold concepts
  Ref,     \* references to artifacts
  Linker,  \* threads that call the map
  NoLink   \* a thread that is in no call

\* A link from a concept, to a person or to an artifact.
Link == [concept : Concept, to : Person \cup Ref]

ASSUME CoverageAssumption == Person \cap Ref = {} /\ NoLink \notin Link

VARIABLES
  concepts,   \* rows of concepts
  references, \* rows of concept_artifacts
  held,       \* concept_actors: never, living or decayed
  linking     \* the link each thread is about to insert

coverageVars == <<concepts, references, held, linking>>

CoverageInit ==
  /\ concepts = {}
  /\ references = {}
  /\ held = [c \in Concept |-> [p \in Person |-> "never"]]
  /\ linking = [l \in Linker |-> NoLink]

Idle(l) == linking[l] = NoLink

-----------------------------------------------------------------------------
\* Mutant: INSERT OR REPLACE, which takes the links of the old row along.
AddConcept_Replace(l, c) ==
  /\ Idle(l)
  /\ concepts' = concepts \cup {c}
  /\ references' = {r \in references : r.concept # c}
  /\ held' = [held EXCEPT ![c] = [p \in Person |-> "never"]]
  /\ UNCHANGED linking

\* add_concept: registering again only renews component and label.
AddConcept(l, c) ==
  /\ Idle(l)
  /\ concepts' = concepts \cup {c}
  /\ UNCHANGED <<references, held, linking>>

\* ensure_concept_exists of link_artifact and link_actor; an unknown concept ends
\* the call.
EnsureExists(l, link) ==
  /\ Idle(l)
  /\ link.concept \in concepts
  /\ linking' = [linking EXCEPT ![l] = link]
  /\ UNCHANGED <<concepts, references, held>>

InsertLink(l) ==
  /\ ~Idle(l)
  /\ LET link == linking[l] IN
       IF link.to \in Ref
       THEN references' = references \cup {link} /\ UNCHANGED held
       ELSE held' = [held EXCEPT ![link.concept][link.to] = "living"] /\ UNCHANGED references
  /\ linking' = [linking EXCEPT ![l] = NoLink]
  /\ UNCHANGED concepts

\* The insert fails or the process ends.
LinkFails(l) ==
  /\ ~Idle(l)
  /\ linking' = [linking EXCEPT ![l] = NoLink]
  /\ UNCHANGED <<concepts, references, held>>

\* decay_actor_link; without a row it does nothing.
Decay(l, c, p) ==
  /\ Idle(l)
  /\ held[c][p] # "never"
  /\ held' = [held EXCEPT ![c][p] = "decayed"]
  /\ UNCHANGED <<concepts, references, linking>>

LinkerStep(l) ==
  \/ \E c \in Concept : AddConcept(l, c)
  \/ \E link \in Link : EnsureExists(l, link)
  \/ InsertLink(l) \/ LinkFails(l)
  \/ \E c \in Concept, p \in Person : Decay(l, c, p)

CoverageNext == \E l \in Linker : LinkerStep(l)

CoverageSpec == CoverageInit /\ [][CoverageNext]_coverageVars
-----------------------------------------------------------------------------
\* living_actors_for and dark_concepts.
Holders(c) == {p \in Person : held[c][p] = "living"}
Dark == {c \in concepts : Holders(c) = {}}
-----------------------------------------------------------------------------
(* Properties. *)

\* Links are only of concepts in the inventory: each foreign key finds its row.
CoverageTypeOK ==
  /\ concepts \subseteq Concept
  /\ references \subseteq Link /\ \A r \in references : r.to \in Ref /\ r.concept \in concepts
  /\ held \in [Concept -> [Person -> {"never", "living", "decayed"}]]
  /\ \A c \in Concept, p \in Person : held[c][p] # "never" => c \in concepts
  /\ linking \in [Linker -> Link \cup {NoLink}]

\* Darkness tells the truth about people (CG-19): a concept leaves the dark only
\* when somebody comes to hold it, and falls into it only when it is registered or
\* when the last one's hold decays: not by registering it again, by an artifact, or
\* by a call that failed half way.
DarknessTells ==
  [][\A c \in Concept :
       /\ c \in Dark /\ c \notin Dark' => Holders(c)' # {}
       /\ c \notin Dark /\ c \in Dark' =>
            \/ c \notin concepts
            \/ \A p \in Holders(c) : held'[c][p] = "decayed"]_coverageVars
=============================================================================
