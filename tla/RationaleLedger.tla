--------------------------- MODULE RationaleLedger ---------------------------
(***************************************************************************)
(* The rationale ledger (crates/plugin-rationale-ledger/src/lib.rs):       *)
(* append-only records, each about a task, each perhaps a correction of an *)
(* earlier one.  append looks at the record it is to supersede and then    *)
(* inserts its own; it holds the lock of its connection, but processes     *)
(* that share the file pass between the two.                               *)
(*                                                                         *)
(* Of a record the model keeps its task and what it supersedes.  Times are *)
(* left out: they order the listings and decide nothing.                   *)
(***************************************************************************)
CONSTANTS
  Rationale,   \* uuids of records
  Subject,     \* the tasks records are about
  Author,      \* processes that append
  NoRationale, \* supersedes: None
  NoRecord,    \* no row with this id
  NoDraft      \* an author that is in no call

ASSUME RationaleAssumption == NoRationale \notin Rationale

Record == [task : Subject, supersedes : Rationale \cup {NoRationale}]
Draft == [id : Rationale, record : Record]

ASSUME DraftAssumption == NoRecord \notin Record /\ NoDraft \notin Draft

VARIABLES
  records, \* the rows
  draft    \* the record each author is about to insert

rationaleVars == <<records, draft>>

Recorded == {r \in Rationale : records[r] # NoRecord}

RationaleInit ==
  /\ records = [r \in Rationale |-> NoRecord]
  /\ draft = [a \in Author |-> NoDraft]

-----------------------------------------------------------------------------
\* Mutant: the task of the target is not compared.
Supersedable_AnyTask(target, task) ==
  target = NoRationale \/ target \in Recorded

\* None, or an existing record about the same task.
Supersedable(target, task) ==
  target = NoRationale \/ (target \in Recorded /\ records[target].task = task)

\* append up to the INSERT.  The id is fresh; a target that is refused ends the
\* call with nothing changed.
Append(a, id, record) ==
  /\ draft[a] = NoDraft
  /\ id \notin Recorded \cup {draft[b].id : b \in {b \in Author : draft[b] # NoDraft}}
  /\ Supersedable(record.supersedes, record.task)
  /\ draft' = [draft EXCEPT ![a] = [id |-> id, record |-> record]]
  /\ UNCHANGED records

Insert(a) ==
  /\ draft[a] # NoDraft
  /\ records' = [records EXCEPT ![draft[a].id] = draft[a].record]
  /\ draft' = [draft EXCEPT ![a] = NoDraft]

\* The INSERT fails or the process ends.
InsertFails(a) ==
  /\ draft[a] # NoDraft
  /\ draft' = [draft EXCEPT ![a] = NoDraft]
  /\ UNCHANGED records

AuthorStep(a) ==
  \/ \E id \in Rationale, record \in Record : Append(a, id, record)
  \/ Insert(a) \/ InsertFails(a)

RationaleNext == \E a \in Author : AuthorStep(a)

RationaleSpec == RationaleInit /\ [][RationaleNext]_rationaleVars
-----------------------------------------------------------------------------
(* What callers read. *)

ForTask(t) == {r \in Recorded : records[r].task = t}

\* current_for_task: no record about this task supersedes it.
CurrentForTask(t) ==
  {r \in ForTask(t) : \A s \in ForTask(t) : records[s].supersedes # r}
-----------------------------------------------------------------------------
(* Properties. *)

RationaleTypeOK ==
  /\ records \in [Rationale -> Record \cup {NoRecord}]
  /\ draft \in [Author -> Draft \cup {NoDraft}]

\* s corrects r directly or over several steps, or is r: it is in every set that holds r
\* and, with a record, all that supersede it.
Corrects(s, r) ==
  \A S \in SUBSET Recorded :
    r \in S /\ (\A x \in S, y \in Recorded : records[y].supersedes = x => y \in S) => s \in S

\* The current view is sound and complete, however corrections race: a record is
\* in it exactly if nothing supersedes it, whatever task that is about, and every
\* other record was corrected, directly or over several steps, by one that is: no
\* task with records ever shows none, and no correction leaves its task.
CurrentViewIsSound ==
  \A r \in Recorded :
    IF r \in CurrentForTask(records[r].task)
    THEN \A s \in Recorded : records[s].supersedes # r
    ELSE \E s \in CurrentForTask(records[r].task) : Corrects(s, r)
=============================================================================
