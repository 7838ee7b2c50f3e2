----------------------------- MODULE AuditChain -----------------------------
(***************************************************************************)
(* The audit chain and the revocation set of SecurityModule                *)
(* (crates/core/src/security.rs).  Threads audit decisions: an entry is    *)
(* linked to the chain head under one lock, written to the JSONL file      *)
(* under a second one and pushed to the in-memory log under a third, and   *)
(* between the three every other thread may pass.  The process may stop    *)
(* and start again with the same key and the same file.                    *)
(*                                                                         *)
(* An entry is its number, in the order of linking; prev_hash is the       *)
(* number of the entry it authenticates, 0 for the empty string.  The key  *)
(* is durable and nobody rewrites the file: this is the chain without an   *)
(* adversary.                                                              *)
(***************************************************************************)
EXTENDS Naturals, Sequences

CONSTANTS
  Thread,        \* threads that share the SecurityModule
  Stamp,         \* stamps that may be invalidated
  Decision,      \* any other audited decision
  NoThread,      \* nobody holds the file lock
  LossyWrites,   \* writing to the file may fail; writeln's result is dropped
  CrashAnywhere, \* the process may stop in the middle of an audit
  MaxEntries,    \* bound: entries ever linked
  MaxStops       \* bound: times the process stops

ASSUME AuditAssumption ==
  /\ Decision \notin Stamp
  /\ NoThread \notin Thread
  /\ LossyWrites \in BOOLEAN /\ CrashAnywhere \in BOOLEAN
  /\ MaxEntries \in Nat /\ MaxStops \in Nat

VARIABLES
  orderly,   \* one audit at a time, writes succeed, stops only in between
  prev,      \* prev_hash of every entry ever linked
  about,     \* what it records: the stamp it invalidates, or Decision
  pc,        \* where each thread is in audit, or in invalidate after it
  entry,     \* the entry a thread has in hand
  topic,     \* what the thread is auditing
  lastHash,  \* last_hash
  fileLock,  \* the thread in the middle of a line
  auditLog,  \* audit_log
  lines,     \* audit_file: the entries on each line
  lineOpen,  \* the last line has no newline yet
  torn,      \* some line holds a part of an entry
  revoked,   \* invalidated, of the module that runs or ran last
  phase,     \* running, down, or refused by with_audit_file
  stops

vars == <<orderly, prev, about, pc, entry, topic, lastHash, fileLock, auditLog, lines, lineOpen,
          torn, revoked, phase, stops>>

Init ==
  /\ orderly \in BOOLEAN
  /\ prev = <<>> /\ about = <<>>
  /\ pc = [h \in Thread |-> "idle"]
  /\ entry = [h \in Thread |-> 0]
  /\ topic = [h \in Thread |-> Decision]
  /\ lastHash = 0
  /\ fileLock = NoThread
  /\ auditLog = <<>>
  /\ lines = <<>>
  /\ lineOpen = FALSE
  /\ torn = FALSE
  /\ revoked = {}
  /\ phase = "running"
  /\ stops = 0

-----------------------------------------------------------------------------
(* audit, one step per lock *)

Quiet == \A h \in Thread : pc[h] = "idle"

\* Mutant: invalidate revokes the stamp before it audits it.
Link_RevokeFirst(h, what) ==
  /\ phase = "running" /\ pc[h] = "idle"
  /\ orderly => Quiet
  /\ Len(prev) < MaxEntries
  /\ prev' = Append(prev, lastHash) /\ about' = Append(about, what)
  /\ entry' = [entry EXCEPT ![h] = Len(prev) + 1]
  /\ topic' = [topic EXCEPT ![h] = what]
  /\ lastHash' = Len(prev) + 1
  /\ pc' = [pc EXCEPT ![h] = "write"]
  /\ revoked' = revoked \cup ({what} \cap Stamp)
  /\ UNCHANGED <<orderly, fileLock, auditLog, lines, lineOpen, torn, phase, stops>>

\* Read the head, make the entry, advance the head: all under last_hash.
Link(h, what) ==
  /\ phase = "running" /\ pc[h] = "idle"
  /\ orderly => Quiet
  /\ Len(prev) < MaxEntries
  /\ prev' = Append(prev, lastHash) /\ about' = Append(about, what)
  /\ entry' = [entry EXCEPT ![h] = Len(prev) + 1]
  /\ topic' = [topic EXCEPT ![h] = what]
  /\ lastHash' = Len(prev) + 1
  /\ pc' = [pc EXCEPT ![h] = "write"]
  /\ UNCHANGED <<orderly, fileLock, auditLog, lines, lineOpen, torn, revoked, phase, stops>>

\* writeln! writes the entry and the newline in two calls, under the file lock.
\* An entry that follows an unfinished line ends up on that line.
WriteEntry(h) ==
  /\ pc[h] = "write" /\ fileLock = NoThread
  /\ lines' = IF lineOpen THEN [lines EXCEPT ![Len(lines)] = Append(@, entry[h])]
                          ELSE Append(lines, <<entry[h]>>)
  /\ lineOpen' = TRUE
  /\ fileLock' = h
  /\ pc' = [pc EXCEPT ![h] = "newline"]
  /\ UNCHANGED <<orderly, prev, about, entry, topic, lastHash, auditLog, torn, revoked, phase, stops>>

\* Mutant: write! instead of writeln!.
WriteNewline_Skip(h) ==
  /\ pc[h] = "newline"
  /\ fileLock' = NoThread
  /\ pc' = [pc EXCEPT ![h] = "push"]
  /\ UNCHANGED <<orderly, prev, about, entry, topic, lastHash, auditLog, lines, lineOpen, torn, revoked, phase, stops>>

WriteNewline(h) ==
  /\ pc[h] = "newline"
  /\ lineOpen' = FALSE
  /\ fileLock' = NoThread
  /\ pc' = [pc EXCEPT ![h] = "push"]
  /\ UNCHANGED <<orderly, prev, about, entry, topic, lastHash, auditLog, lines, torn, revoked, phase, stops>>

\* Either call may fail at once; writeln! then stops and the error is dropped.
FailWrite(h) ==
  /\ LossyWrites /\ ~orderly
  /\ \/ pc[h] = "write" /\ fileLock = NoThread
     \/ pc[h] = "newline"
  /\ fileLock' = NoThread
  /\ pc' = [pc EXCEPT ![h] = "push"]
  /\ UNCHANGED <<orderly, prev, about, entry, topic, lastHash, auditLog, lines, lineOpen, torn, revoked, phase, stops>>

\* A write that fails part way leaves a part of the entry on the last line, as an entry
\* would be left there; the error is dropped all the same.
TearWrite(h) ==
  /\ LossyWrites /\ ~orderly
  /\ pc[h] = "write" /\ fileLock = NoThread
  /\ lines' = IF lineOpen THEN lines ELSE Append(lines, <<>>)
  /\ lineOpen' = TRUE
  /\ torn' = TRUE
  /\ pc' = [pc EXCEPT ![h] = "push"]
  /\ UNCHANGED <<orderly, prev, about, entry, topic, lastHash, fileLock, auditLog, revoked, phase, stops>>

\* Mutant: an entry that did not reach the file is not kept in memory either.
Push_OnlyIfWritten(h) ==
  /\ pc[h] = "push"
  /\ auditLog' = IF \E i \in DOMAIN lines : \E j \in DOMAIN lines[i] : lines[i][j] = entry[h]
                 THEN Append(auditLog, entry[h]) ELSE auditLog
  /\ entry' = [entry EXCEPT ![h] = 0]
  /\ pc' = [pc EXCEPT ![h] = IF topic[h] \in Stamp THEN "revoke" ELSE "idle"]
  /\ UNCHANGED <<orderly, prev, about, topic, lastHash, fileLock, lines, lineOpen, torn, revoked, phase, stops>>

Push(h) ==
  /\ pc[h] = "push"
  /\ auditLog' = Append(auditLog, entry[h])
  /\ entry' = [entry EXCEPT ![h] = 0]
  /\ pc' = [pc EXCEPT ![h] = IF topic[h] \in Stamp THEN "revoke" ELSE "idle"]
  /\ UNCHANGED <<orderly, prev, about, topic, lastHash, fileLock, lines, lineOpen, torn, revoked, phase, stops>>

\* invalidate: the stamp is revoked once the audit of it is complete.
Revoke(h) ==
  /\ pc[h] = "revoke"
  /\ revoked' = revoked \cup {topic[h]}
  /\ topic' = [topic EXCEPT ![h] = Decision]
  /\ pc' = [pc EXCEPT ![h] = "idle"]
  /\ UNCHANGED <<orderly, prev, about, entry, lastHash, fileLock, auditLog, lines, lineOpen, torn, phase, stops>>

-----------------------------------------------------------------------------
(* verify_chain, and the life of the process *)

Verifies(log) ==
  \A i \in 1..Len(log) : prev[log[i]] = IF i = 1 THEN 0 ELSE log[i - 1]

\* The memory of the process is gone, the file stays as it is.
Stop ==
  /\ phase = "running"
  /\ stops < MaxStops
  /\ Quiet \/ (CrashAnywhere /\ ~orderly)
  /\ phase' = "down"
  /\ stops' = stops + 1
  /\ pc' = [h \in Thread |-> "idle"]
  /\ entry' = [h \in Thread |-> 0]
  /\ topic' = [h \in Thread |-> Decision]
  /\ lastHash' = 0
  /\ fileLock' = NoThread
  /\ auditLog' = <<>>
  /\ UNCHANGED <<orderly, prev, about, lines, lineOpen, torn, revoked>>

\* The entries that with_audit_file reads: a line holds one, or does not parse; nothing
\* is ever taken out of the file, so a part of an entry stays in it.
Parses == ~torn /\ \A i \in DOMAIN lines : Len(lines[i]) = 1
Loaded == [i \in DOMAIN lines |-> lines[i][1]]

\* Mutant: the file is loaded but the chain starts anew.
Reopen_NoAnchor ==
  /\ phase = "down"
  /\ Parses /\ Verifies(Loaded)
  /\ auditLog' = Loaded
  /\ revoked' = {}
  /\ phase' = "running"
  /\ UNCHANGED <<orderly, prev, about, pc, entry, topic, lastHash, fileLock, lines, lineOpen, torn, stops>>

\* A new SecurityModule: the chain goes on from the last line, no stamp is revoked.
Reopen ==
  /\ phase = "down"
  /\ Parses /\ Verifies(Loaded)
  /\ auditLog' = Loaded
  /\ lastHash' = IF lines = <<>> THEN 0 ELSE Loaded[Len(lines)]
  /\ revoked' = {}
  /\ phase' = "running"
  /\ UNCHANGED <<orderly, prev, about, pc, entry, topic, fileLock, lines, lineOpen, torn, stops>>

RefuseFile ==
  /\ phase = "down"
  /\ ~(Parses /\ Verifies(Loaded))
  /\ phase' = "refused"
  /\ UNCHANGED <<orderly, prev, about, pc, entry, topic, lastHash, fileLock, auditLog, lines, lineOpen, torn,
                 revoked, stops>>

ThreadStep(h) ==
  \/ \E what \in Stamp \cup {Decision} : Link(h, what)
  \/ WriteEntry(h) \/ WriteNewline(h) \/ FailWrite(h) \/ TearWrite(h)
  \/ Push(h) \/ Revoke(h)

Next ==
  \/ \E h \in Thread : ThreadStep(h)
  \/ Stop \/ Reopen \/ RefuseFile

Spec == Init /\ [][Next]_vars
-----------------------------------------------------------------------------
(* Properties. *)

Written == UNION {{lines[i][j] : j \in DOMAIN lines[i]} : i \in DOMAIN lines}
Logged == {auditLog[i] : i \in DOMAIN auditLog}
InHand == {entry[h] : h \in Thread} \ {0}

\* Concurrent appends cannot fork the chain (security.rs:451): of the entries in
\* memory, in the file or on their way there, no two follow the same entry,
\* across lost writes and restarts.
NoFork ==
  \A i, j \in Written \cup Logged \cup InHand : prev[i] = prev[j] => i = j

\* The memory of the process misses nothing: whatever the chain head leads back
\* to is in the log or about to be, even if the file lost it.
ChainBack == \* the entries from the head back to the start
  LET back[i \in 0..Len(prev)] == IF i = 0 THEN {} ELSE {i} \cup back[prev[i]]
  IN  back[lastHash]
NothingLost ==
  phase = "running" =>
    /\ ChainBack = Logged \cup InHand
    /\ \A i, j \in DOMAIN auditLog : auditLog[i] = auditLog[j] => i = j

\* No stamp is revoked off the record: invalidate's entry is in the log first, on
\* whatever thread.
RevocationIsAudited ==
  phase = "running" => \A s \in revoked : \E i \in DOMAIN auditLog : about[auditLog[i]] = s

\* In an orderly world, file and log are the same chain whenever no audit is under
\* way, and every restart accepts it and goes on from its end (finding 028).
FileIsLog ==
  orderly =>
    /\ phase # "refused"
    /\ phase = "running" /\ Quiet =>
         Parses /\ ~lineOpen /\ auditLog = Loaded /\ Verifies(auditLog)

\* docs/security-overview.md:101 says of concurrent appends that they "cannot fork
\* the chain", and of verify_chain that it "reports the first broken link".  The
\* order of linking is not the order of pushing: an intact chain is reported broken.
IntactChainVerifies == phase = "running" /\ Quiet => Verifies(auditLog)

\* docs/security-overview.md:115 says of the durable key file "so sessions and the
\* audit chain survive a restart".
ChainSurvivesRestart == phase # "refused"
=============================================================================
