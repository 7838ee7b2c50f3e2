---------------------------- MODULE InsightStore ----------------------------
(***************************************************************************)
(* The insight artifacts (crates/plugin-insight-artifact/src/lib.rs).  An  *)
(* artifact is stored once and later superseded by another one; supersede  *)
(* takes the connection lock three times, to look the successor up, to     *)
(* store it if it is not there, and to update the old row.  Between the    *)
(* three, other threads (or processes on the same file) pass.              *)
(*                                                                         *)
(* Of an artifact the model keeps its status.  A caller passes artifacts   *)
(* it has made itself, which are living, or has read from the store.       *)
(***************************************************************************)
CONSTANTS
  Artifact, \* the uuids artifacts are made with
  Worker,   \* threads that call the store
  Missing,  \* no such row
  Living,   \* Status::Living; Superseded { by } is the artifact by itself
  NoWork    \* a thread that is in no call

ASSUME InsightAssumption ==
  /\ Missing \notin Artifact /\ Living \notin Artifact
  /\ Missing # Living

VARIABLES
  status,      \* the status column of each row
  step,        \* where each thread is in supersede, or idle
  asked,       \* the call it is in: the old artifact and the new one
  acknowledged \* history variable: artifacts whose supersession returned Ok

insightVars == <<status, step, asked, acknowledged>>

Supersede == [old : Artifact, new : Artifact]

ASSUME NoWorkAssumption == NoWork \notin Supersede

InsightInit ==
  /\ status = [a \in Artifact |-> Missing]
  /\ step = [w \in Worker |-> "idle"]
  /\ asked = [w \in Worker |-> NoWork]
  /\ acknowledged = {}

Stored == {a \in Artifact : status[a] # Missing}

Goto(w, next) == step' = [step EXCEPT ![w] = next]

\* The call returns; on an error this is all that happens.
Return(w) ==
  /\ Goto(w, "idle")
  /\ asked' = [asked EXCEPT ![w] = NoWork]

-----------------------------------------------------------------------------
\* store, called directly; an id that is taken is an error.
Store(w, a) ==
  /\ step[w] = "idle"
  /\ a \notin Stored
  /\ status' = [status EXCEPT ![a] = Living]
  /\ UNCHANGED <<step, asked, acknowledged>>

\* Mutant: the successor is taken to be there already.
Lookup_Trusting(w, old, new) ==
  /\ step[w] = "idle"
  /\ old # new
  /\ asked' = [asked EXCEPT ![w] = [old |-> old, new |-> new]]
  /\ Goto(w, "update")
  /\ UNCHANGED <<status, acknowledged>>

\* get(new.id); an artifact cannot supersede itself.
Lookup(w, old, new) ==
  /\ step[w] = "idle"
  /\ old # new
  /\ asked' = [asked EXCEPT ![w] = [old |-> old, new |-> new]]
  /\ Goto(w, IF new \in Stored THEN "update" ELSE "store")
  /\ UNCHANGED <<status, acknowledged>>

\* store(new): another thread may have stored it in the meantime.
StoreNew(w) ==
  /\ step[w] = "store"
  /\ asked[w].new \notin Stored
  /\ status' = [status EXCEPT ![asked[w].new] = Living]
  /\ Goto(w, "update")
  /\ UNCHANGED <<asked, acknowledged>>

\* Mutant: the number of rows affected is not looked at.
UpdateOld_AnyCount(w) ==
  /\ step[w] = "update"
  /\ status' = [a \in Artifact |-> IF a \in Stored \cap {asked[w].old} THEN asked[w].new ELSE status[a]]
  /\ acknowledged' = acknowledged \cup {asked[w].old}
  /\ Return(w)

\* UPDATE ... SET status = Superseded { by: new.id } WHERE id = old: one row.
UpdateOld(w) ==
  /\ step[w] = "update"
  /\ asked[w].old \in Stored
  /\ status' = [status EXCEPT ![asked[w].old] = asked[w].new]
  /\ acknowledged' = acknowledged \cup {asked[w].old}
  /\ Return(w)

\* Mutant: the call stays on record after it returned.
CallFails_KeepsCall(w) ==
  /\ step[w] \in {"store", "update"}
  /\ Goto(w, "idle")
  /\ UNCHANGED <<status, asked, acknowledged>>

\* The id of the successor is taken by now, there is no old row, a statement
\* fails, or the process ends: the call goes no further, what it stored stays.
CallFails(w) ==
  /\ step[w] \in {"store", "update"}
  /\ Return(w)
  /\ UNCHANGED <<status, acknowledged>>

WorkerStep(w) ==
  \/ \E a \in Artifact : Store(w, a)
  \/ \E old, new \in Artifact : Lookup(w, old, new)
  \/ StoreNew(w) \/ UpdateOld(w) \/ CallFails(w)

InsightNext == \E w \in Worker : WorkerStep(w)

InsightSpec == InsightInit /\ [][InsightNext]_insightVars
-----------------------------------------------------------------------------
(* Properties. *)

InsightTypeOK ==
  /\ status \in [Artifact -> Artifact \cup {Missing, Living}]
  /\ step \in [Worker -> {"idle", "store", "update"}]
  /\ asked \in [Worker -> Supersede \cup {NoWork}]
  /\ \A w \in Worker : asked[w] = NoWork <=> step[w] = "idle"
  /\ acknowledged \subseteq Artifact

\* The chain of understanding has no loose end: the artifact a superseded one
\* names is in the store, at every moment, whatever fails or ends in between.
SuccessorIsStored ==
  \A a \in Artifact : status[a] \in Artifact => status[a] \in Stored /\ status[a] # a

\* Nothing brings a superseded insight back, and nothing is ever deleted: storing
\* an artifact that another thread has stored and superseded does not revive it.
SupersededForGood ==
  [][\A a \in Stored : status'[a] = status[a] \/ status'[a] \in Artifact]_insightVars

\* A supersede that was acknowledged took effect, and lasts: from then on the old
\* artifact is superseded, if not by the one that was asked for then by a later one.
OkMeansSuperseded == \A a \in acknowledged : status[a] \in Artifact
=============================================================================
