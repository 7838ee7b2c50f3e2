# Wyrtloom in TLA+

This directory holds a formal model of Wyrtloom: TLA+ modules for the parts of the system that keep state or
decide something, TLC configurations that check them on small instances, and TLAPS proofs of what matters most for
instances of any size. Paths below are relative to the repository's root.

- [1 The system](#1-the-system) - its parts, what they keep, how they interact, what is hard about them
- [2 The modules](#2-the-modules) - which models what, and how state and actions correspond to code
- [3 The runs](#3-the-runs) - what each checks, its bounds, its fairness
- [4 The proofs](#4-the-proofs)
- [5 Where code and documents part](#5-where-code-and-documents-part)
- [6 What is not modelled](#6-what-is-not-modelled)
- [7 Plan](#7-plan)

`PROJECT.json` lists all of it for tools: components, runs, the lines each definition stands for, the hazards, and
for each property a mutation of the code that the property catches.

To check a run: `tlc -config Pipeline.cfg MCPipeline`. To check the proofs: `tlapm KanbanBoardProofs.tla`, and likewise
`KanbanStoreProofs`, `WyrtloomProofs`, `AuditChainProofs`, `GatedWorkflowProofs`, `KnowledgeProofs`, `PracticeProofs` and
`TeamProofs`.


## 1 The system

Wyrtloom runs work of language models over a Kanban board. `crates/core` holds the contracts (traits, messages,
the security module, the bootstrap); plugins implement the contracts (SQLite stores, the gate engine, a WASM
sandbox, a model provider, a terminal for escalations); a second family of plugins keeps the humans in practice
(ledgers, maps, schedulers, probes, hunts). The binary wires one of each and drives one task through the pipeline.

The program is synchronous Rust with threads. State is shared in three ways, and these are where it is hard:

- **one SQLite file, several processes** (board, call log, insights, rationale, coverage, calibration): a mutex
  serialises one process' statements; processes meet at every statement outside a transaction;
- **one object, several threads** (security module, sandbox, stores): a lock is often taken several times in one
  call;
- **one board, several callers**: pipeline, gate engine and operators read it, decide and write it in separate calls.

| Part (source) | State | Operations | Meets | What makes it correct |
|---|---|---|---|---|
| Kanban contract (`crates/core/src/kanban.rs`) | task states, legal moves | the trait | everyone who moves tasks | only legal moves, dependencies first, exclusive claims, a full trail |
| SqliteKanbanBoard (`crates/plugin-kanban-sqlite`) | tables `tasks`, `history`; a connection per process | `create`, `transition`, `claim`, `block`, `get`, `list` | other processes on the file | each call atomic, whatever fails or ends |
| Pipeline runner (`src/pipeline.rs`) | the run's task, answer and outcome | `run`, `handle_blocked` | board, provider, logger, human | success is earned; the outcome is what the board shows; each run returns |
| Security module (`crates/core/src/security.rs`) | chain head, log, file, revoked stamps | `audit`, `verify_chain`, `with_audit_file`, `invalidate`, `stamp`, `is_valid` | its threads, its next process | one unforked chain, nothing lost, revocation on record |
| Gate engine (`crates/plugin-gate-engine`) | none of its own: tokens are values with a stamp | `issue_token`, `guarded_transition` | board, security module, logger | no move without a fitting token, issued against a digest; every decision recorded |
| Insight artifacts (`crates/plugin-insight-artifact`) | artifacts, living or superseded by another | `store`, `supersede`, `get`, `all` | threads and processes on the file | supersession is for good and its successor exists |
| Rationale ledger (`crates/plugin-rationale-ledger`) | append-only records | `append` and views | processes on the file | the current view has exactly the uncorrected records |
| Coverage map (`crates/plugin-coverage-map`) | concepts, links to artifacts and people | `add_concept`, `link_*`, `decay_actor_link`, `dark_concepts` | threads | dark means nobody living holds it |
| Calibration ledger (`crates/plugin-calibration-ledger`) | graded answers | `record`, `mastery`, `team_concept_redundancy`, `delete_actor`, `prune_older_than` | threads | answers move mastery the right way; team views tell the truth of their time |
| WASM sandbox (`crates/plugin-sandbox-wasmtime`) | epoch, cache, executions | `execute` | hunt harness; a ticker thread | every execution comes back; a result is the module's |
| Hunt harness (`crates/plugin-hunt-harness`) | defects, ladder of a hunt | `run`, `escalate` | sandbox | a verdict is never made by load |
| Rotation scheduler (`crates/plugin-rotation-scheduler`) | a policy | `assign`, `handoffs` | agents | everybody gets every role; pinned roles are with humans |
| Agent messages (`crates/core/src/agent.rs`) | values | `validate` | rotation, router | bounded hops |
| Interest router (`crates/plugin-interest-router`) | a baseline | `derive_signals`, `route`, `resolve` | messages, humans | faults and open delegations are seen |
| Host (`crates/core/src/bootstrap.rs`, `plugin.rs`, `security.rs`) | registered plugins, its stage, granted and denied manifests | `register_plugin`, `run` | plugins, security module, bus | nothing runs before every plugin is verified; what is granted stays within the policy whatever a path is spelled like |
| Bus (`crates/core/src/bus.rs`, `crates/plugin-bus-tokio`) | a channel per topic, receivers | `publish`, `subscribe` | everyone | a subscriber gets what is due to it, in order, once, up to the lag |
| Call log (`crates/plugin-logger-sqlite`) | rows | `record`, `all_logs` | pipeline, gate engine | what is read back is what was written |
| Provider (`crates/plugin-provider-ollama`) | - | `generate` | pipeline | an error status is never success; bounded time |
| Escalation (`crates/plugin-escalation-cli`) | - | `escalate` | pipeline, the human | the option that was chosen is the one that is acted upon |
| Mastery policy (`crates/plugin-mastery-policy`) | the policy in force | `from_json`, `validate` | probe ladder | what is in force can be worked by |
| Probe ladder (`crates/plugin-probe-ladder`) | rung, credited concepts, signals | `select_probes`, `grade`, `run` | coverage map, mastery policy | selections stay right while they are worked through; the staircase follows the reader |
| Workflow profile (`crates/plugin-workflow-profile`) | the profile in force | `from_json`, `validate` | gate engine | every gate of a profile in force can open, and no other with it |
| Digest generator (`crates/plugin-digest-generator`) | - | `generate` | gate engine, provider | digests fade with calibration and stay with the concepts in play |
| Withdrawal scheduler (`crates/plugin-withdrawal-scheduler`) | the accepted policy; flights are values | `new`, `plan`, `begin`, `complete`, `abort` | calibration | intervals expand for every accepted policy |
| Persistence, users, client authentication (`crates/core`) | - | traits only | - | `put_if_absent` should be atomic |


## 2 The modules

```
KanbanStates <-- TaskLifecycle            abstract: what the columns of a board may do
     ^                ^  (refined by)
     +----------- KanbanBoard  <----------------------- KanbanBoardProofs
     |              ^   ^   ^                                 ^     ^
     |              |   |   +-- KanbanStore (refines it) <----|- KanbanStoreProofs
     |              |   +------ Pipeline <-- Wyrtloom <-- WyrtloomProofs
     |              |             ^  Provider, Terminal, CallLog
     |              |                          ^ Host <-- Bus
     |              +---------- GateEngine <-- GatedWorkflow <-- GatedWorkflowProofs
     +-- WorkflowProfile, DigestGenerator <-------+
AuditChain <-- AuditChainProofs                  the security module's chain and revocations
Sandbox <-- HuntHarness <-- Practice <-- PracticeProofs
CoverageMap, MasteryPolicy <-- ProbeLadder <--+
InsightStore, RationaleLedger, CoverageMap <-- Knowledge <-- KnowledgeProofs
CalibrationLedger, Teamwork, Withdrawal <-- Team <-- TeamProofs
MC<name>                                         definitions and symmetry for TLC, one per run's module
```

Conventions. An operator or action has the name of its function where there is one. A definition `X_Something` right
before `X` is a mutation of the code: nothing uses it, it is the plausible mistake that a property must catch.
"History variable" marks a variable no action reads. Model values stand for SQL NULL (`Nobody`, `NoReason`), for a
missing row (`Absent`, `Missing`, `NoRecord`) and for a thread that is in no call (`NoCall`, `NoDraft`, ...).

**KanbanStates** is the enum of states and `is_legal_transition`. **TaskLifecycle** is the contract in two columns: a
task appears in Backlog, needing only what existed; it makes legal moves; it enters Ready only when all it needs is Done.

**KanbanBoard** is the board as its callers see it, each method one step. `state`, `assignee`, `dependsOn` and
`blockReason` are the columns of `tasks`, `history` the rows of the second table per task. `Create`, `Transition`,
`Claim` and `Block` are the methods when they succeed; `TransitionErrors` and the other `*Errors` say when they are
refused and how, in the code's order of checks, so that callers can be composed with the refusals too. Every move clears
the actor (`actor = NULL` in the UPDATE of `transition_inner`) and leaves the reason of an earlier block in place, as in
the code. `ImplementsLifecycle` maps it onto TaskLifecycle.

**KanbanStore** is the same board statement by statement: BEGIN IMMEDIATE, the reads and checks, UPDATE, INSERT, COMMIT
or ROLLBACK, for several processes on the file. A connection in a transaction works on a copy (`work`). SQLite is
external and modelled by what the code relies on: one write lock, statements that take effect or fail, a COMMIT that may
come back busy and then leaves the transaction open. The result of COMMIT is dropped by the code (`lib.rs:136`), which
`CommitBusy` has as it is. The transaction then stays open: the next BEGIN of the process fails and its call returns before any ROLLBACK, `create` and
`claim` run in the open transaction, and the end of the process loses it. `StoreImplementsBoard` is the refinement: the committed tables behave like
KanbanBoard. `before` is a history variable: what was committed when a call's BEGIN succeeded, with which `ErrMeansUnchanged` compares what an error leaves.

**Pipeline** is `Pipeline::run`, one step per call it makes of the board, the provider, the logger or the human, for
several runs on one board. `calm` is chosen at the start: in a calm world board and logger work and the runs are alone
with the board; in the other every call may fail and `Others` moves, claims and blocks tasks between the run's calls.
What the run is told goes through three small modules. **Provider** is what the server may do (`ReplyType`: no answer, a status, a body
as a sequence of fragments), `generate`'s chain of checks (`GenerateError`) and `parse_llm_output` (`ParseOutput`). **Terminal** is what a human
types, line by line, and how `escalate` reads it (`Answered`). **CallLog** is a row as it is written and as it is read back.

**Bus** is both implementations: one channel for all topics (`BootstrapBus`) or one per topic, made by whoever asks first
(`TokioMessageBus`). The channel is tokio's broadcast channel: it keeps its last `Capacity` events, and a receiver that falls behind goes on with
the oldest kept (`Lag`). **Host** is registration and `Bootstrapper::run`: self check, then manifest by manifest the name, contract versions, the
class, and the capabilities against the policy (`CheckFilePath`, suffixes of host names), a grant or denial in the audit log, the boot event.
**Wyrtloom** is the program: nothing runs or publishes before the host has booted. After that, runs and events share no state, so a behaviour
follows one `part`: the seed that `main()` is, a bus, or the boot of a host with any other plugins.

**GateEngine** is token issue and `guarded_transition`: the checks that read nothing of the board (`Present`), `board.get`
(`Lookup`), `board.transition` (`Apply`) and the record in the log (`Audit`). The board may fail in both of its calls. A stamp is a MAC over all fields of a token, so a token
verifies exactly if it was issued with these fields and is not revoked. `calm` again is the world in which no other
call of the board falls into a guarded transition, `logging` the one in which the logger works.

**WorkflowProfile** is `validate` with each check and the first error it reports, and the profile that stays in force when another is refused.
**DigestGenerator** is `generate`: calibration to form, coherence filter, budget. **GatedWorkflow** puts both beside the gate engine, which reads neither
(a token's gate and digest are given to it), so again one `part` moves.

**AuditChain** is `audit` with its three locks (`Link`, then `WriteEntry` and `WriteNewline` for the two writes of
`writeln!`, then `Push`; `FailWrite` loses an entry or its newline, `TearWrite` leaves a part of an entry, and a file with a torn line
does not parse), `invalidate` (audit first, revoke after), `verify_chain`, and the end of a process and
`with_audit_file` of the next. Entries are their numbers in the order of linking and `prev` is whom each authenticates.
`orderly` selects the world of one audit at a time, working writes and restarts only at rest.

**Sandbox** is `execute`: compile, deadline, instantiate (with the module's start function), run. There is one epoch for all
executions; `left` is an execution's deadline less the epoch and `Tick` moves all of them. A module is what it does: whether it
compiles and fits, its pieces of work in start and in run, and how run ends. **HuntHarness** turns results into verdicts and defects
and offers the next rung (`BreakItAgain`, of `escalate`).

**MasteryPolicy** is parsing and `validate`, check by check; a quota that is not finite is no JSON and already a Parse error. **ProbeLadder** is `select_probes` over the dark concepts of CoverageMap and the policy in
force (the order of ids is expressed by counting, `InOrder`; TLC compares it with the filter of the sorted list), and the staircase: probes carry the rung they were made for, may be answered late or never, and `Run` grades them. `streak` is a history
variable. **Practice** puts them beside the hunts.

**InsightStore** has `supersede` as its three lock acquisitions (get, store, update), **RationaleLedger** `append` as lookup and
insert, **CoverageMap** links as `ensure_concept_exists` and insert. **Knowledge** puts them under the same threads.

**CalibrationLedger** has the answers per person and concept, the Bayesian update in fixed point with four decimals, and
`team_concept_redundancy` as one step for the list of pairs and one for each of them (`LookAt`), as the code takes its lock. Fixed point
and the code's floating point agree on who is at the threshold for up to eight answers per pair; `MaxEvents` keeps runs below that.
**Teamwork** is the rotation (`ActorFor`, `Assignable`, and `Assign` with the hand-offs it writes; an override pins a role for one criticality, and the
sum of term and ordinal wraps at `Word`, 2^64 in the code, as in a release build: a debug build panics there), the agents' messages (external: agents
delegate on, answer once or twice, fail), and the router (`Signals`, `Route`, `Resolve`). The messages are a bag, since `derive_signals`
only counts them and takes maxima. **Withdrawal** is the scheduler: `Accepted` is what `new` demands of a policy, `IntervalDays` and `SessionsOf` the plan
in whole days, with the saturation of index and date; `planned` keeps what `plan` returned, seed by seed; `Begin` and `End` are a flight, a value of which a copy may be left behind.
**Team** puts ledger, work and sessions side by side. They share nothing, so a behaviour has one of them moving.


## 3 The runs

The runs in this table end with no error; the four whose names have an underscore exhibit one disagreement each (section 5).
Sizes are distinct states.

| Run | Asks | Bounds |
|---|---|---|
| KanbanBoard (386,000) | `DependencyGate`, `HistoryIsTrail`, `ClaimHeldUntilMove`, `StrandedStaysStranded`, `ImplementsLifecycle` | 3 tasks, an unknown dependency, 2 actors, 5 moves per task |
| KanbanStore (118,000) | `StoreImplementsBoard`, `ErrMeansUnchanged` | 2 processes, 2 tasks, 3 moves each; faulty writes and busy commits |
| Pipeline (423,000) | `OutcomeMatchesBoard`, `DoneIsEarned`, `ModelNeedsRunning`, `VerifiedBeforeUse`, `BusDelivers`, `RunsReturn` | 2 runs calm, or 1 run among others who may make 4 moves of its task; 14 replies, 10 ways to type; the six shipped plugins or 2 of 35 others; 2 topics, 2 subscribers, channels of 2, 5 events |
| AuditChain (4.6 million) | `NoFork`, `NothingLost`, `RevocationIsAudited`, `FileIsLog` | 3 threads, 4 entries, 2 stops, lost and torn writes, crashes anywhere |
| GateEngine (40,000) | `EveryDecisionIsLogged`, `LeavesTokenStage`, `GatesOpen`, `DigestFades` | 2 callers, 2 requests, 1 token, 1 task with 4 moves; profiles of up to 3 stages and 2 gates; lists of up to 5 enrichments |
| Knowledge (126,000) | `SuccessorIsStored`, `OkMeansSuperseded`, `CurrentViewIsSound`, `DarknessTells` | 2 threads, 3 artifacts, 3 records on 2 tasks, 1 concept, 2 people |
| HuntHarness (589,000) | `VerdictIsUnhurried`, `SelectionHolds`, `StaircaseFollows`, `ExecutionsReturn` | 2 hunters, 6 kinds of module, deadline of 2 ticks, one escalation; 2 concepts, every mode of policy; 2 probes open, 5 rungs |
| Team (165,000) | `ViewIsOfItsTime`, `AnswersMoveMastery`, `RotationIsFair`, `OpenDelegationIsSeen`, `SessionsExpand` | 2 people, 5 answers; 2 tasks, 6 messages, hops below 4, 3 rotation policies, terms and sums below 12 (`Word`); 7 expansion policies, plans of 3 sessions |

All but KanbanStore, whose refinement says more, and AuditChain check a type invariant as well. What the properties mean stands before each in its
module. What the runs show:

- *KanbanBoard.* The code asks for dependencies only on Todo to Ready, yet no task gets past that gate, by rework or
  any other route, with a dependency that is not finished: a finished task moves only to Archived. The other side of this is
  `StrandedStaysStranded`: archiving a dependency of a task that was sent back to Todo strands it for ever. Three tasks make chains and
  common dependencies; five moves are Backlog to Done and one rework (a longer path repeats states).
- *KanbanStore.* Transactions make the statements of a call atomic for other processes and for crashes (finding 005 of the repository's
  hardening log), even in the presence of commits that are silently not made: tables never show a half call. An error leaves them
  as the call's BEGIN found them, with no transaction open, whichever statements had run. Two processes are enough for every conflict over the one write lock.
- *Pipeline.* In a calm world outcome, board and call log, as it is read back, agree at the end of each run. Among failures and other callers less
  holds, and it is stated separately: Done only after an answer without an error status that ends in a `done` object, or after a human typed the number of
  `skip`; a model call only after the task was moved to Running; and no run that hangs other than at the human's terminal. Four moves of
  others can take a task anywhere in the graph of states; the replies have a status on each side of every line `generate` draws.
  The host: no task is created and no event but the boot event published before every plugin has been granted, in order, and a granted path lies within a
  prefix of the policy even with `.` and empty components and a neighbour of a longer name. The bus: whoever made the channel first, nobody misses an event
  unless a full channel of later ones came after. A channel of two with five events lets a receiver lag twice.
- *AuditChain.* The chain never forks and memory loses nothing under any interleaving, lost or torn write or crash; when audits do
  not overlap file and log agree and each restart is accepted. Three threads show overtaking twice; four entries have one before, two
  overlapping and one after; two stops are needed for a fault of the first restart to be met by the second.
- *GateEngine.* If nothing overlaps a guarded move leaves the stage its token was issued
  for, whatever happened to the task before; the log has a row for each request and a Completed row for each move while the logger works. Every gate of
  a profile that was accepted is a legal move of the board, and no two gates are the same move; three names, three states and three stages make every check of
  `validate` bite alone and together. A reader of a higher score is shown the beginning of what one of a lower score is shown, for scores on both sides of each
  threshold, beyond the scale and NaN.
- *Knowledge.* Supersession has no loose end under any interleaving and failure, and racing corrections may fork the current view
  but neither hide nor revive a record; registering a concept again never changes who holds it. Three artifacts give chains and races for
  one successor.
- *HuntHarness.* Slow hosts cost verdicts, they never make them, for tests without a start function; a looping module always
  comes back. Two ticks let a module be cut at its first check, between pieces and not at all. What is selected for probing stays right while
  other concepts leave the dark, and leaves out no (critical) concept under a strict (hybrid) policy; so many passes in a row bring the ladder at least so
  high, wherever stale probes had set it: streaks are as long as the ladder.
- *Team.* A team view that overlaps erasure and pruning counts between the people always and ever at the threshold meanwhile; a right answer
  raises mastery and a wrong one lowers it, by what the answers before it allow. Rotation reaches everybody with any cadence, zero included, as long as the sum of term and ordinal does not wrap; every open delegation is
  seen unless a result came twice. The policies have rosters as long as, longer and shorter than the roles, one of them with somebody listed twice. Sessions of every accepted expansion policy come later and
  after longer intervals until the cap, the last index or the last date: truncation to whole days freezes no accepted policy. The policies grow quickly, slowly,
  not at all, or only if nothing is truncated.

**Deadlock** is checked in Knowledge, HuntHarness and Team. Elsewhere it is off: boards, requests and audit entries are bounded, a refused
audit file is the end of a process' start, and a pipeline whose human never answers stops there.

**Symmetry** is used for actors, threads and uuids, which no code compares other than for equality, and only in runs without
liveness properties.

**Fairness.** `WyrtloomSpec` is weakly fair in the registration of the shipped plugins and the steps of the boot, which `main()` takes one after the other, and
in each run's own steps: a run is a thread, its board calls are bounded by SQLite's busy timeout and its model call by 30 seconds
(`plugin-provider-ollama`). It is not fair in `AskHuman`, in further registrations, or in publishing and receiving: nobody makes a human answer, and `RunsReturn` counts
waiting there as an end. `FairPracticeSpec` is weakly fair in the steps of each execution, and not in `Tick`: termination does not rest on
the ticker thread, because modules in the model do a finite amount of work (fuel), which is what `consume_fuel` provides. Nobody has to probe.


## 4 The proofs

`KanbanBoardProofs` proves about `KanbanBoard!Spec`, for any sets of tasks, actors, reasons and unknown ids and any bound on history,
under `BoardAssumption` alone (NULLs and Absent are not values of the columns, unknown ids are not tasks):

| Theorem | States | Argument |
|---|---|---|
| `TypeCorrect` | `[]TypeOK` | inductive as it stands; one step per operation |
| `GateHolds` | `[]DependencyGate` | inductive with `TypeOK`: by `ColumnsMove` a step creates a task in Backlog, or makes one guarded legal move; the moving task is itself guarded or was past the gate, and as a dependency of others it was finished, from where legal moves lead only to Archived |
| `TrailHolds` | `[]HistoryIsTrail` | by `RecordExtendsTrail`: appending a legal move from the state the row shows keeps the trail gapless; with `TypeOK` |
| `ClaimsExclusive` | `ClaimHeldUntilMove` | needs the invariant `FreshRowsUnheld`: an id without a row has no holder, so `Create` replaces none |
| `Stranding` | `StrandedStaysStranded` | from `ColumnsMove` and the guard of Ready |
| `BoardImplementsLifecycle` | `Spec => Lifecycle!Spec` | initial states map to initial states; by `ColumnsMove` each step is `Appear`, `Move` or a stutter |

The lemmas `MoveGuard` and `BlockGuard` are what a successful `transition` and `block` imply. The runs check the same
six properties on the small instance; the theorems remove the bounds on tasks, actors and history.

`KanbanStoreProofs` proves about `StoreSpec`, for any number of processes, under `BoardAssumption` and `StoreAssumption` (no marker is a copy of the tables):

| Theorem | States | Argument |
|---|---|---|
| `StoreRefinesBoard` | `StoreSpec => StoreImplementsBoard` | the invariant `StoreInv`: one transaction is open at a time, also one a busy COMMIT left open; the copy of a call is the committed tables until its UPDATE, those with the row updated until its INSERT, and complete (`Completed`) before COMMIT; what it checked still holds, as nobody publishes meanwhile (`OthersKept`). So COMMIT is one step of the board (`CommitIsStep`), and every other step a stutter or a single statement |
| `StoreKeepsThePromises` | `[](DependencyGate /\ HistoryIsTrail)` | by the refinement and the board's theorems |
| `RefusalsChangeNothing` | `ErrMeansUnchanged` | `StoreInv` says that the tables are those of the call's BEGIN until the call returns (its lock keeps all others from publishing, its own statements work on a copy), and that only the last step of a call ends its transaction (`EndOfCall`) |

`WyrtloomProofs` proves about `WyrtloomSpec`, for any number of runs and tasks and any server and human, any topics, subscribers and channel capacity, any plugins
and any policy, under `BoardAssumption`, `PipelineAssumption`, `BusAssumption`, `HostAssumption` and `ProgramAssumption`:

| Theorem | States | Argument |
|---|---|---|
| `SuccessIsEarned` | `[]DoneIsEarned` | `ProgramInv`: where a run stands and what it holds there (`RunsAreSound`: one about to finish has a verdict, one about to skip an answer), and what the verdict `done` (`VerdictDone`) and the answer `skip` (`SkipIsSecond`) come from; `RunStepIsSound` goes through the steps of a run |
| `ModelIsForRunning` | `[]ModelNeedsRunning` | `WorkedOn` (a task that is Running or Blocked was moved from Ready to Running once, for that is the only way in); trails only grow (`WentToRunningLasts`), whatever others do with the task |
| `ReportsAreTrue` | `[]OutcomeMatchesBoard` | `CalmInv`: in a calm world where a run stands is where its task stands (`RunShown`), its one row is in the log exactly from the logging step on, and no two runs share a task (`NothingShared`); `CallsOnly`: a call about one task changes nothing of another |
| `SubscribersAreServed` | `[]BusDelivers` | `BusInv`: what a subscriber has got was due to it and lies behind its place; what was due, lies behind and is not got was followed by at least a channel full of due events. After a lag a receiver goes on with the oldest kept, which is found by counting from the end (`TailExists`, `LagKept`) |
| `PluginsAreVerified` | `[]VerifiedBeforeUse` | `HostInv`: the loop has passed the first manifests and granted each in its turn, and nothing is registered once it has begun; what passes `Refusal` is `Admitted` (`PassedIsAdmitted`). A path is walked component by component: without `..` the walk only goes down (`WalkGoesDown`), and two that begin alike share where they come by (`WalksShare`), so a path that begins as a prefix of the policy lies within it (`CheckedIsWithin`) |
| `ProgramTypeCorrect` | `[]WyrtloomTypeOK` | with the invariants above; only one `part` moves |

`AuditChainProofs` proves about AuditChain's `Spec`, for any number of threads, entries and stops, under `AuditAssumption`:

| Theorem | States | Argument |
|---|---|---|
| `ChainNeverForks` | `[]NoFork` | `ChainInv`: no entry that is anywhere follows the head (`HeadOK`), so the next one forks with none; an entry is in one hand, and in the file once (`Once`). After a restart the head is the last line's entry: a file that verifies and has each entry once has none that follows its last, which is what makes `Reopen` safe |
| `MemoryIsComplete` | `[]NothingLost` | `LostInv`: every entry follows an earlier one, so following back ends (`BackUnfolds`) and is not changed by a new entry (`BackStays`); what the head leads back to is in the log or in somebody's hand, nothing in both or twice |
| `RevocationsOnRecord` | `[]RevocationIsAudited` | a thread on its way to revoke has its stamp's entry in the log (`RevocationInv`), and the log of a process only grows (`RecordLasts`) |
| `OrderlyRestarts` | `[]FileIsLog` | `OrderlyInv`: one thread audits at a time, the file is the log but for its entry, and both are a chain that ends at the head; writing the next line keeps it one (`LineAdded`), and stops come in between |

A torn write puts no entry into the file, at most a line without one (`TearFile`), and a file with it is refused at the next start.

`GatedWorkflowProofs` proves about `WorkflowSpec`, for any number of callers, gates and tokens, any profiles and offers, under `BoardAssumption`, `GateAssumption`,
`ProfileAssumption` and `DigestAssumption`:

| Theorem | States | Argument |
|---|---|---|
| `TokensFitTheStage` | `[]LeavesTokenStage` | `GateInv`: in a calm world at most one request is under way, nobody else calls the board meanwhile, and so the stage that was looked up is the one the move leaves |
| `DecisionsAreLogged` | `[]EveryDecisionIsLogged` | `RecordInv`: a request is a row or somebody's business, and a move is a row marked Completed or about to be one (`Balanced`); a row at the end counts once (`RowCounted`) |
| `GatesCanOpen` | `[]GatesOpen` | `ProfileInv`: the profile in force is the empty one or passed its checks; a check that finds no error holds of every gate |
| `DigestsFade` | `[]DigestFades` | `DigestInv`: the last digest is what `generate` makes of its request; the coherent part of a list is told by counting, so a smaller budget shows a beginning of what a larger one shows, and a higher score has the smaller budget |
| `WorkflowTypeCorrect` | `[]WorkflowTypeOK` | `GateTypeInv`, `ProfileInv` and `DigestInv` |

`KnowledgeProofs` proves first about `InsightSpec`, for any sets of artifacts and threads, under `InsightAssumption` and `NoWorkAssumption` (markers are not artifacts,
`NoWork` is no call). `SuccessorIsStored` is not inductive: `UpdateOld` writes the successor's id without looking. `InsightInvariant` adds `CallIsSound`: a thread asks
for two different artifacts, and one about to update has its successor stored. That lasts because no step deletes a row (`StoredGrows`). `AcknowledgedLasts` says what
a step may do to a stored row: nothing, or supersede it. Then the theorems are carried to the composed `KnowledgeSpec`, and the other two stores are added:

| Theorem | States | Argument |
|---|---|---|
| `NoLooseEnd` | `[]SuccessorIsStored` | `InsightAlone`: a step of Knowledge is one of InsightStore or leaves it alone; then `SuccessorsStored` |
| `OkIsSuperseded` | `[]OkMeansSuperseded` | likewise, with `Acknowledged` |
| `NeverRevived` | `SupersededForGood` | likewise, with `ForGood`; this one is proved only, no run repeats it |
| `CurrentViewHolds` | `[]CurrentViewIsSound` | `RationaleInv`: what a record supersedes is there and of the same task, also for a record about to be inserted, and records can be ranked so that corrections rank higher, with a highest rank (`Ranks`); the highest record that corrects a given one is superseded by none (`CorrectionsEnd`). A correction over several steps is told by closed sets, which needs no recursion |
| `DarknessIsTrue` | `DarknessTells` | `CoverageAlone`; the invariant `CoverageInv` (a link about to be inserted is of a registered concept, for nothing removes one after the lookup); by `HoldsOnlyDecay` what becomes of a living hold is decay at worst |
| `KnowledgeTypeCorrect` | `[]KnowledgeTypeOK` | the invariants of the three stores, and `OneCallAtATime` |

They need `KnowledgeAssumption` (the stores have the same callers), `RationaleAssumption` and `DraftAssumption` (markers) and `CoverageAssumption` (people are not
artifacts) besides.

`PracticeProofs` proves about `FairPracticeSpec`, for any number of executions, any modules and any budget, any concepts, links, policies and order of ids, under
`SandboxAssumption`, `HuntAssumption`, `CoverageAssumption`, `MasteryAssumption` and `ProbeAssumption`:

| Theorem | States | Argument |
|---|---|---|
| `LoadMakesNoVerdict` | `[]VerdictIsUnhurried` | what `execute` returns for a module with an empty start function is how it ends or a timeout (`ExecutionOK`), for an epoch interruption needs a check that such a module meets only in run; and a timeout is no verdict (`VerdictOfReturn`) |
| `SelectionsDoHold` | `[]SelectionHolds` | a selection is what `Select` makes of what was seen by a policy that passed its checks (`SelectionInv`, `PoliciesAreValid`: a sample is never empty); `InOrder` lists a set once and in order (`OrderedList`, `AllInOrder`), and taking a concept out of the set only moves others forward (`RankIsStrict`, `SampleHolds`), so one that is still dark keeps its place in a sample |
| `StaircaseIsFollowed` | `[]StaircaseFollows` | `LadderInv`: the streak bounds the rung from below and from above; `StreakGoesOn` is one more answer, whatever rung the probe was made for |
| `PracticeTypeCorrect` | `[]PracticeTypeOK` | the hunts' types (`ExecuteStepTyped`) and `SelectionInv`, `LadderInv`; credit only for concepts a probe was kept for |

`TeamProofs` proves about Team's `Spec`, for any people, concepts, tasks, rosters, roles, cadences, expansion policies and seeds, under `CalibrationAssumption`, `NoViewAssumption`,
`TeamworkAssumption` and `WithdrawalAssumption`:

| Theorem | States | Argument |
|---|---|---|
| `NobodyKeepsARole` | `[]RotationIsFair` | the sums involved do not wrap (`NoWrap`) and terms go round the roster: division with remainder is unique (`DivisionIsUnique`), so consecutive terms meet every place once (`RotationOfAnyCycle`); the first human is found by the least index (`FirstHumanIsHuman`) |
| `AnswersMove` | `AnswersMoveMastery` | the recursion of `Mastery` is told by the function that replays a list (`ReplayExists`, `ReplayIsUnique`), so an answer is one `Update` (`MasteryUnfolds`); mastery stays between a floor above 0 and 1 (`MasteryStaysWithin`), and there a right answer does not lower it and a wrong one does not raise it (`UpdateMoves`) |
| `ViewsAreOfTheirTime` | `[]ViewIsOfItsTime` | `LedgerInv`: what was at the threshold all the time is so now, what is so now was so at some time, and the counts lie between the two on the pairs that were looked at; only finitely many pairs have answers |
| `SessionsDoExpand` | `[]SessionsExpand` | a policy is accepted only if its first truncated step grows or there is nowhere to grow, and then each step grows (`GrowthStep`, `IntervalsExpand`) up to the cap; dates follow (`PlansExpand`); the policy never changes (`WithdrawalInv`) |
| `OpenDelegationsAreSeen` | `[]OpenDelegationIsSeen` | `TeamInv`: until a result comes twice, the delegations sent are the results sent and those still open. The numbers are sums over a bag; sums over finite sets are the totals of a sequence of additions (`AddsExists`, `SumsAreTotals`), and sending adds what is sent (`SendAdds`) |
| `TeamTypeCorrect` | `[]TypeOK` | the invariants above; the weight of a signal is a number of messages or of hops there can be (`SignalsAreTyped`) |

**What the proofs assume.** Nothing but the named assumptions on constants; TLC evaluates each on the instance of a run. Most say that a marker is not a value, or that
what is offered to a component has its type. The others are: a board has ids and a team finitely many tasks (`TaskId # {}` in `GateAssumption`, `IsFiniteSet(Task)` in
`TeamworkAssumption`), the hop limit is above three (`agent.rs` has 16), rotation policies list no role twice (`IsPolicy`; section 5), machine words are not empty (`Word`), and ids are in an order (`ProbeAssumption`).

**Induction.** No theorem of the library that takes a predicate is used. Where a proof needs induction - lists of answers, chains, ranks, intervals, sums - it takes the least
counterexample (`LeastNatural`, from the well-foundedness of the order on the naturals) and goes one step below it. That is also why some definitions count where the code
filters (`Coherent`, `InOrder`): the assumptions `FilterAssumption` and `OrderAssumption` of the MC modules have TLC compare them with the filter.

**Only model-checked**: `RunsReturn` and `ExecutionsReturn`, since liveness under fairness is beyond the prover. Every other property of the runs that pass is a
theorem. The four runs that end in a violation (section 5) show what the theorems cannot say: without `calm` and `orderly`, less holds.


## 5 Where code and documents part

With a run that exhibits it:

- **A busy COMMIT is reported as Ok** (`Store_OkMeansRecorded`; `crates/plugin-kanban-sqlite/src/lib.rs:136`). The result of COMMIT is
  dropped. If it is busy the call returns Ok and the transaction stays open. The next BEGIN of the process fails before any ROLLBACK, `create` and `claim`
  join the open transaction, and the end of the process loses the acknowledged move; `docs/contracts.md:154` has every transition recorded.
- **An intact audit chain can be reported broken** (`Audit_IntactChainVerifies`; `crates/core/src/security.rs:471`). The head's lock is released before
  the entry is pushed; two threads push in the other order. No fork, but `verify_chain` compares neighbours (`docs/security-overview.md:100`).
- **A crash inside a line makes a later start fail** (`Audit_ChainSurvivesRestart`; `security.rs:467`). Entry and newline are two
  writes. Between them the file still loads; the next entry lands on the same line, and the start after that is refused (`docs/security-overview.md:115`).
- **A stale token can move a task** (`Gate_StaleTokensMoveNothing`; `crates/plugin-gate-engine/src/lib.rs:304`). Stage and transition are two calls of the board;
  a move in between is not noticed (`lib.rs:302-303`).

Met while modelling; the model does what the code does:

- `docs/contracts.md:151` has a running task held by one worker; `transition` clears the actor, so a Running task has no holder.
- `docs/contracts.md:153` asks for a reason to enter Blocked; `transition(.., Blocked)` needs none, and no later move clears an old reason.
- `docs/architecture.md:104` and `:102` tie outcome Done to the board and each call to a log row; both results are dropped (`pipeline.rs:139`, `:176`), which is
  why `OutcomeMatchesBoard` is about a calm world. `pipeline.rs:8-10` says board failures are logged; some are dropped.
- A human's `retry` is taken like free text (`pipeline.rs:230`): the run ends blocked, without a second model call. The words "skip" and "retry", typed out, are
  free text, too: options are chosen by number (`plugin-escalation-cli/src/lib.rs:71`).
- `pipeline.rs:50-54` speaks of prose before the model's object. Prose after it makes the text unreadable and the task is escalated: a candidate is the whole rest of
  the text. Of two objects the last one counts. A redirect is read like a 200.
- `bootstrap.rs:3-4` has a failure at any stage halt "with a logged reason"; names, versions and safe plugins that ask for capabilities are refused without an audit entry.
  The same refusal of a safe plugin in `SecurityModule::verify` cannot be reached from the bootstrap. Two plugins of one name are both registered.
- `MasteryPolicy::validate` does not look at the withdrawal cadence, so the scheduler can refuse what the policy accepted; the hybrid mode of the policy has no sample size,
  the ladder's has.
- A probe that was made at an earlier rung sets the ladder to its own neighbour, and a concept can be crystallised twice.
- A flight is a value: a copy of it can be completed after it was aborted (`plugin-withdrawal-scheduler/src/lib.rs:295`).
- A token is good for as many moves as the task returns to its stage, though `plugin-gate-engine/src/lib.rs:25` speaks of one transition; if the log
  fails after the move, the caller gets an error for a move that was made (`:158-159`).
- Revoked stamps are forgotten by a restart that keeps the key (`security.rs:168-171`).
- An epoch interruption inside a start function comes back from `linker.instantiate` as `Trap` (`plugin-sandbox-wasmtime/src/lib.rs:181`) and the harness takes
  it for a break (`plugin-hunt-harness/src/lib.rs:262`), though `:265-270` there say that load must not make a defect. `VerdictIsUnhurried` is therefore about modules
  without start function. `MemoryExceeded` and `HostAccessAttempted` (`docs/contracts.md:554`) are never returned; such modules trap, too.
- Supersessions can close a cycle that leaves no living insight (`plugin-insight-artifact/src/lib.rs:288`); reachable states of Knowledge contain it.
- `plugin-rationale-ledger/src/lib.rs:147` takes the time before the lock, so listings by time can grow in their middle.
- A result that comes twice hides an open delegation: `plugin-interest-router/src/lib.rs:373` speaks of a *matching* result, `:379` compares numbers.
- `plugin-rotation-scheduler/src/lib.rs:210-215`: distinct roles have distinct actors "when the roster is large enough" means a roster of four
  even for two roles, since the offset is the ordinal among all four; a pinned human may hold a second role; slots are in the policy's order, not the canonical one. Nothing keeps a policy from listing a role twice, and
  `handoffs` numbers the slots without a look at the hop limit: a list of more than 17 would make messages that `validate` refuses.
- `plugin-rotation-scheduler/src/lib.rs:243`: the sum of term and ordinal overflows for the last terms there are. A debug build panics, a release build goes on
  at another place of the roster, where two roles can meet in one person.
- The probe ladder goes up on scaffolded passes as well (`plugin-probe-ladder/src/lib.rs:196`, against `:19-20`); `NotDark` is never returned.
- `BootstrapBus::subscribe` ignores its topic (`crates/core/src/bus.rs:62`); the boot event is published before anybody can subscribe (`bootstrap.rs:81-84`).


## 6 What is not modelled

- Text: prompts, titles, digests, block reasons beyond their identity, log rows beyond task and outcome.
- Time as a number. Order decides in every place that is modelled; listings sorted by time are left out.
- Cryptography: a MAC verifies what was made with it. Tampering with the audit file is not a step of the model.
- Caches and memory: the sandbox' module cache (never evicted) and its limiter, which makes a module a misfit.
- Reads that only return rows (`get`, `list`, `all`, exports), the provider's `models`, and what is refused before anything starts: the base URL, the path of the
  database, key files.
- The cleaning of terminal output and of request bodies.
- The traits for persistence, users and client authentication: the repository implements them in tests only, and nothing calls them.
- The sandbox demonstration in `main()`: one module, one execution, printed.
- Mastery policy: spacing, criticality overrides and role assignments are data that no code of the repository decides by.


## 7 Plan

Done, in this order: board and lifecycle with proofs; store; pipeline; audit chain; gate engine; knowledge stores; sandbox
and hunts; ledger and teamwork; proofs about the knowledge stores; provider, terminal and call log within the pipeline; bus, host and the program; probe ladder
with mastery policy; workflow profile and digests; withdrawal; proofs about program, audit chain, store, gate engine and hunts; the remaining safety properties of
the runs, up to bus, boot, digests, current view, selections, team views, plans and signals.

What could follow, by weight:

1. **Persistence**: an abstract store with `put_if_absent` atomic, and the default of the trait, which is not, once something in the repository calls it.
2. What holds of the store in the presence of a busy COMMIT, beyond the refinement: which acknowledged moves can be lost, as a theorem that bounds the disagreement of section 5.
3. The same for the gate engine without `calm`: what a redeemed token still guarantees when the board moves between its two calls.
