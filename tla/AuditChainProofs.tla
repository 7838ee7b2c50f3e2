------------------------- MODULE AuditChainProofs -------------------------
(***************************************************************************)
(* Proofs about AuditChain, for any number of threads, stamps, entries and *)
(* restarts, with writes that are lost and processes that stop anywhere.   *)
(***************************************************************************)
EXTENDS AuditChain, SequenceTheorems, WellFoundedInduction, TLAPS

\* The entries in a file, and that each is there once.
Entries(file) == UNION {{file[i][j] : j \in DOMAIN file[i]} : i \in DOMAIN file}

Once(file) ==
  \A i, k \in DOMAIN file : \A j \in DOMAIN file[i], l \in DOMAIN file[k] :
    file[i][j] = file[k][l] => i = k /\ j = l

LEMMA EntryIsSomewhere ==
  ASSUME NEW file, NEW x
  PROVE  x \in Entries(file) <=> \E i \in DOMAIN file : \E j \in DOMAIN file[i] : x = file[i][j]
<1>1. Entries(file) = UNION {{file[i][j] : j \in DOMAIN file[i]} : i \in DOMAIN file}
  BY DEF Entries
<1>2. ASSUME x \in Entries(file)
      PROVE  \E i \in DOMAIN file : \E j \in DOMAIN file[i] : x = file[i][j]
  <2>1. PICK row \in {{file[i][j] : j \in DOMAIN file[i]} : i \in DOMAIN file} : x \in row
    BY <1>1, <1>2
  <2>2. PICK i \in DOMAIN file : row = {file[i][j] : j \in DOMAIN file[i]}
    BY <2>1
  <2>3. QED
    BY <2>1, <2>2
<1>3. ASSUME NEW i \in DOMAIN file, NEW j \in DOMAIN file[i]
      PROVE  file[i][j] \in Entries(file)
  <2>1. file[i][j] \in {file[i][l] : l \in DOMAIN file[i]}
    OBVIOUS
  <2>2. QED
    BY <1>1, <2>1
<1>4. QED
  BY <1>2, <1>3

\* Writing an entry, on a line of its own or at the end of the last one.
LEMMA AddToFile ==
  ASSUME NEW file \in Seq(Seq(Nat)), NEW e \in Nat, NEW new,
         \/ new = Append(file, <<e>>)
         \/ file # <<>> /\ new = [file EXCEPT ![Len(file)] = Append(@, e)]
  PROVE  /\ new \in Seq(Seq(Nat)) /\ new # <<>>
         /\ Entries(new) = Entries(file) \cup {e}
         /\ Once(file) /\ e \notin Entries(file) => Once(new)
<1>1. PICK I, J :
        /\ new \in Seq(Seq(Nat)) /\ new # <<>>
        /\ I \in DOMAIN new /\ J \in DOMAIN new[I] /\ new[I][J] = e
        /\ \A i \in DOMAIN file : \A j \in DOMAIN file[i] :
             i \in DOMAIN new /\ j \in DOMAIN new[i] /\ new[i][j] = file[i][j]
        /\ \A i \in DOMAIN new : \A j \in DOMAIN new[i] :
             \/ i \in DOMAIN file /\ j \in DOMAIN file[i] /\ new[i][j] = file[i][j]
             \/ i = I /\ j = J
  <2>1. CASE new = Append(file, <<e>>)
    <3> DEFINE n == Len(file) + 1
    <3>1. <<e>> \in Seq(Nat)
      OBVIOUS
    <3>2. /\ new \in Seq(Seq(Nat)) /\ Len(new) = n /\ n \in DOMAIN new
          /\ new[n] = <<e>> /\ \A i \in DOMAIN file : i \in DOMAIN new /\ new[i] = file[i]
          /\ \A i \in DOMAIN new : i = n \/ i \in DOMAIN file
      BY <2>1, <3>1
    <3>3. DOMAIN <<e>> = {1} /\ <<e>>[1] = e
      OBVIOUS
    <3> HIDE DEF n
    <3>4. WITNESS n, 1
    <3>5. QED
      BY <3>2, <3>3
  <2>2. CASE file # <<>> /\ new = [file EXCEPT ![Len(file)] = Append(@, e)]
    <3> DEFINE n == Len(file)
               last == file[n]
    <3>1. n \in DOMAIN file /\ last \in Seq(Nat)
      BY <2>2
    <3> HIDE DEF last
    <3>2. /\ Append(last, e) \in Seq(Nat)
          /\ Len(last) + 1 \in DOMAIN Append(last, e)
          /\ Append(last, e)[Len(last) + 1] = e
          /\ \A j \in DOMAIN last : j \in DOMAIN Append(last, e) /\ Append(last, e)[j] = last[j]
          /\ \A j \in DOMAIN Append(last, e) : j = Len(last) + 1 \/ j \in DOMAIN last
      BY <3>1
    <3>3. new = [file EXCEPT ![n] = Append(last, e)]
      BY <2>2 DEF last
    <3> HIDE DEF n
    <3>4. /\ DOMAIN new = DOMAIN file /\ new[n] = Append(last, e)
          /\ \A i \in DOMAIN file : i # n => new[i] = file[i]
          /\ file[n] = last
      BY <3>1, <3>3 DEF last
    <3>5. new \in Seq(Seq(Nat)) /\ new # <<>>
      BY <3>1, <3>2, <3>3
    <3> DEFINE m == Len(last) + 1
    <3>6. n \in DOMAIN new /\ m \in DOMAIN new[n] /\ new[n][m] = e
      BY <3>1, <3>2, <3>4
    <3>7. ASSUME NEW i \in DOMAIN file, NEW j \in DOMAIN file[i]
          PROVE  i \in DOMAIN new /\ j \in DOMAIN new[i] /\ new[i][j] = file[i][j]
      BY <3>2, <3>4
    <3>8. ASSUME NEW i \in DOMAIN new, NEW j \in DOMAIN new[i]
          PROVE  \/ i \in DOMAIN file /\ j \in DOMAIN file[i] /\ new[i][j] = file[i][j]
                 \/ i = n /\ j = m
      <4>1. CASE i = n
        BY <3>2, <3>4, <4>1
      <4>2. CASE i # n
        BY <3>4, <4>2
      <4>3. QED
        BY <4>1, <4>2
    <3> HIDE DEF m
    <3>9. WITNESS n, m
    <3>10. QED
      BY <3>5, <3>6, <3>7, <3>8
  <2>3. QED
    BY <2>1, <2>2
<1>2. /\ \A i \in DOMAIN file : \A j \in DOMAIN file[i] :
           i \in DOMAIN new /\ j \in DOMAIN new[i] /\ new[i][j] = file[i][j]
      /\ I \in DOMAIN new /\ J \in DOMAIN new[I] /\ new[I][J] = e
  BY <1>1
<1>3. \A i \in DOMAIN new : \A j \in DOMAIN new[i] :
        \/ i \in DOMAIN file /\ j \in DOMAIN file[i] /\ new[i][j] = file[i][j]
        \/ i = I /\ j = J
  BY <1>1
<1>4. Entries(new) = Entries(file) \cup {e}
  <2>1. ASSUME NEW x \in Entries(new) PROVE x \in Entries(file) \cup {e}
    <3>1. PICK i, j : i \in DOMAIN new /\ j \in DOMAIN new[i] /\ x = new[i][j]
      BY <2>1, EntryIsSomewhere
    <3>2. CASE i \in DOMAIN file /\ j \in DOMAIN file[i] /\ new[i][j] = file[i][j]
      BY <3>1, <3>2, EntryIsSomewhere
    <3>3. QED
      BY <1>2, <1>3, <3>1, <3>2
  <2>2. ASSUME NEW x \in Entries(file) PROVE x \in Entries(new)
    <3>1. PICK i, j : i \in DOMAIN file /\ j \in DOMAIN file[i] /\ x = file[i][j]
      BY <2>2, EntryIsSomewhere
    <3>2. QED
      BY <1>2, <3>1, EntryIsSomewhere
  <2>3. e \in Entries(new)
    BY <1>2, EntryIsSomewhere
  <2>4. QED
    BY <2>1, <2>2, <2>3
<1>5. ASSUME Once(file), e \notin Entries(file)
      PROVE  Once(new)
  <2>1. ASSUME NEW i \in DOMAIN file, NEW j \in DOMAIN file[i]
        PROVE  file[i][j] # e
    BY <1>5, EntryIsSomewhere
  <2>2. SUFFICES ASSUME NEW i \in DOMAIN new, NEW k \in DOMAIN new,
                        NEW j \in DOMAIN new[i], NEW l \in DOMAIN new[k],
                        new[i][j] = new[k][l]
                 PROVE  i = k /\ j = l
    BY Zenon DEF Once
  <2>3. CASE i \in DOMAIN file /\ j \in DOMAIN file[i] /\ new[i][j] = file[i][j]
    <3>1. new[i][j] # e
      BY <2>1, <2>3
    <3>2. ~(k = I /\ l = J)
      BY <1>2, <2>2, <3>1
    <3>3. k \in DOMAIN file /\ l \in DOMAIN file[k] /\ new[k][l] = file[k][l]
      BY <1>3, <2>2, <3>2
    <3>4. file[i][j] = file[k][l]
      BY <2>2, <2>3, <3>3
    <3>5. QED
      BY <1>5, <2>3, <3>3, <3>4 DEF Once
  <2>4. CASE i = I /\ j = J
    <3>1. new[k][l] = e
      BY <1>2, <2>2, <2>4
    <3>2. ~(k \in DOMAIN file /\ l \in DOMAIN file[k] /\ new[k][l] = file[k][l])
      BY <2>1, <3>1
    <3>3. k = I /\ l = J
      BY <1>3, <2>2, <3>2
    <3>4. QED
      BY <2>4, <3>3
  <2>5. QED
    BY <1>3, <2>2, <2>3, <2>4
<1>6. QED
  BY <1>1, <1>4, <1>5

\* A file whose lines with entries are lines of another one has no other entries.
LEMMA NoOtherEntries ==
  ASSUME NEW file, NEW new,
         \A i \in DOMAIN new : \A j \in DOMAIN new[i] : i \in DOMAIN file /\ new[i] = file[i]
  PROVE  Entries(new) \subseteq Entries(file)
<1>1. SUFFICES ASSUME NEW x \in Entries(new)
               PROVE  x \in Entries(file)
  OBVIOUS
<1>2. PICK i, j : i \in DOMAIN new /\ j \in DOMAIN new[i] /\ x = new[i][j]
  BY <1>1, EntryIsSomewhere
<1>3. i \in DOMAIN file /\ j \in DOMAIN file[i] /\ x = file[i][j]
  BY <1>2
<1>4. QED
  BY <1>3, EntryIsSomewhere

\* A line that holds a part of an entry only.
LEMMA TearFile ==
  ASSUME NEW file \in Seq(Seq(Nat)), NEW new, new = Append(file, <<>>)
  PROVE  /\ new \in Seq(Seq(Nat)) /\ new # <<>>
         /\ Entries(new) = Entries(file)
         /\ Once(file) => Once(new)
<1> DEFINE n == Len(file) + 1
<1>1. <<>> \in Seq(Nat) /\ DOMAIN <<>> = {}
  OBVIOUS
<1>2. /\ new \in Seq(Seq(Nat)) /\ Len(new) = n /\ new # <<>> /\ new[n] = <<>>
      /\ \A i \in DOMAIN file : i \in DOMAIN new /\ new[i] = file[i]
      /\ \A i \in DOMAIN new : i = n \/ i \in DOMAIN file
  BY <1>1
<1> HIDE DEF n
<1>3. \A i \in DOMAIN new : \A j \in DOMAIN new[i] : i \in DOMAIN file /\ new[i] = file[i]
  BY <1>1, <1>2
<1>4. Entries(new) = Entries(file)
  <2>1. Entries(new) \subseteq Entries(file)
    BY <1>3, NoOtherEntries
  <2>2. Entries(file) \subseteq Entries(new)
    BY <1>2, NoOtherEntries
  <2>3. QED
    BY <2>1, <2>2
<1>5. ASSUME Once(file)
      PROVE  Once(new)
  BY <1>3, <1>5 DEF Once
<1>6. QED
  BY <1>2, <1>4, <1>5

-----------------------------------------------------------------------------
\* The variables have their types.
ShapeOK ==
  /\ prev \in Seq(Nat) /\ about \in Seq(Stamp \cup {Decision}) /\ Len(about) = Len(prev)
  /\ pc \in [Thread -> {"idle", "write", "newline", "push", "revoke"}]
  /\ entry \in [Thread -> Nat]
  /\ topic \in [Thread -> Stamp \cup {Decision}]
  /\ lastHash \in Nat
  /\ auditLog \in Seq(Nat)
  /\ lines \in Seq(Seq(Nat)) /\ (lineOpen => lines # <<>>)
  /\ phase \in {"running", "down", "refused"}

Live == Written \cup Logged \cup InHand

\* A thread has an entry in hand while it audits, nobody else has the same, and it is
\* not in the file before it is written; a module that is down has no threads.
HandsOK ==
  /\ \A h \in Thread : pc[h] \in {"idle", "revoke"} <=> entry[h] = 0
  /\ \A h, g \in Thread : entry[h] = entry[g] /\ entry[h] # 0 => h = g
  /\ \A h \in Thread : pc[h] = "write" => entry[h] \notin Written
  /\ phase # "running" => auditLog = <<>> /\ \A h \in Thread : pc[h] = "idle"

\* Entries follow entries that were linked, and nothing follows the head yet.
HeadOK ==
  /\ lastHash \in 0..Len(prev)
  /\ \A i \in DOMAIN prev : prev[i] \in 0..Len(prev)
  /\ Live \subseteq 1..Len(prev)
  /\ phase = "running" => \A e \in Live : prev[e] # lastHash

ChainInv == ShapeOK /\ HandsOK /\ HeadOK /\ Once(lines) /\ NoFork

LEMMA ShapeKept ==
  ASSUME ShapeOK, [Next]_vars
  PROVE  ShapeOK'
<1> USE DEF ShapeOK
<1>1. ASSUME NEW h \in Thread, NEW what \in Stamp \cup {Decision}, Link(h, what)
      PROVE  ShapeOK'
  BY <1>1 DEF Link
<1>2. ASSUME NEW h \in Thread, WriteEntry(h)
      PROVE  ShapeOK'
  <2>1. lines' \in Seq(Seq(Nat)) /\ lines' # <<>>
    BY <1>2, AddToFile DEF WriteEntry
  <2>2. QED
    BY <1>2, <2>1 DEF WriteEntry
<1>3. ASSUME NEW h \in Thread, WriteNewline(h) \/ FailWrite(h) \/ Push(h) \/ Revoke(h)
      PROVE  ShapeOK'
  <2>1. CASE WriteNewline(h)
    BY <2>1 DEF WriteNewline
  <2>2. CASE FailWrite(h)
    BY <2>2 DEF FailWrite
  <2>3. CASE Push(h)
    BY <2>3 DEF Push
  <2>4. CASE Revoke(h)
    BY <2>4 DEF Revoke
  <2>5. QED
    BY <1>3, <2>1, <2>2, <2>3, <2>4
<1>4. ASSUME NEW h \in Thread, TearWrite(h)
      PROVE  ShapeOK'
  <2>1. lines' \in Seq(Seq(Nat)) /\ lines' # <<>>
    BY <1>4, TearFile DEF TearWrite
  <2>2. QED
    BY <1>4, <2>1 DEF TearWrite
<1>5. CASE Stop \/ RefuseFile \/ UNCHANGED vars
  <2>1. CASE Stop
    BY <2>1 DEF Stop
  <2>2. CASE RefuseFile \/ UNCHANGED vars
    BY <2>2 DEF RefuseFile, vars
  <2>3. QED
    BY <1>5, <2>1, <2>2
<1>6. CASE Reopen
  <2>1. Loaded \in Seq(Nat) /\ Len(Loaded) = Len(lines)
    <3>1. Parses
      BY <1>6 DEF Reopen
    <3>2. ASSUME NEW i \in 1..Len(lines) PROVE lines[i][1] \in Nat
      <4>1. lines[i] \in Seq(Nat)
        OBVIOUS
      <4>2. Len(lines[i]) = 1
        BY <3>1 DEF Parses
      <4>3. QED
        BY <4>1, <4>2
    <3>3. Loaded = [i \in 1..Len(lines) |-> lines[i][1]] /\ Len(lines) \in Nat
      BY DEF Loaded
    <3>4. QED
      BY <3>2, <3>3
  <2>2. QED
    BY <1>6, <2>1 DEF Reopen
<1>7. QED
  BY <1>1, <1>2, <1>3, <1>4, <1>5, <1>6 DEF Next, ThreadStep

\* A step that links nothing and brings no entry back leaves the chain as it is.
LEMMA NothingLinked ==
  ASSUME HeadOK, NoFork, Live' \subseteq Live, prev' = prev,
         lastHash' \in 0..Len(prev),
         phase' = "running" => \A e \in Live' : prev[e] # lastHash'
  PROVE  HeadOK' /\ NoFork'
BY DEF HeadOK, NoFork, Live

\* One entry is linked behind the head, and becomes the head.
LEMMA LinkKept ==
  ASSUME ChainInv, NEW h \in Thread, NEW what \in Stamp \cup {Decision}, Link(h, what)
  PROVE  HandsOK' /\ HeadOK' /\ Once(lines)' /\ NoFork'
<1> DEFINE e == Len(prev) + 1
<1>1. /\ phase = "running" /\ pc[h] = "idle" /\ entry[h] = 0
      /\ entry' = [entry EXCEPT ![h] = e] /\ pc' = [pc EXCEPT ![h] = "write"]
      /\ lastHash' = e /\ prev' = Append(prev, lastHash)
      /\ UNCHANGED <<auditLog, lines, phase>>
      /\ prev \in Seq(Nat) /\ entry \in [Thread -> Nat]
      /\ pc \in [Thread -> {"idle", "write", "newline", "push", "revoke"}]
  BY DEF Link, ChainInv, HandsOK, ShapeOK
<1>2. /\ e \in Nat /\ e \notin 1..Len(prev) /\ e # 0 /\ lastHash \in Nat
      /\ Len(prev') = e /\ DOMAIN prev' = 1..e /\ prev'[e] = lastHash
      /\ \A i \in 1..Len(prev) : prev'[i] = prev[i] /\ prev[i] \in 0..Len(prev)
      /\ 1..e = 1..Len(prev) \cup {e}
  <2>1. lastHash \in Nat /\ \A i \in 1..Len(prev) : prev[i] \in 0..Len(prev)
    <3>1. DOMAIN prev = 1..Len(prev)
      BY <1>1
    <3>2. QED
      BY <3>1 DEF ChainInv, HeadOK, ShapeOK
  <2>2. /\ Len(prev') = e /\ DOMAIN prev' = 1..e /\ prev'[e] = lastHash
        /\ \A i \in 1..Len(prev) : prev'[i] = prev[i]
    <3>1. prev \in Seq(Nat) /\ prev' = Append(prev, lastHash)
      BY <1>1
    <3>2. QED
      BY <2>1, <3>1, AppendProperties
  <2>3. e \in Nat /\ e \notin 1..Len(prev) /\ e # 0 /\ 1..e = 1..Len(prev) \cup {e}
    <3>1. Len(prev) \in Nat
      BY <1>1
    <3>2. QED
      BY <3>1
  <2>4. QED
    BY <2>1, <2>2, <2>3
<1> HIDE DEF e
<1>3. Written' = Written /\ Logged' = Logged
  BY <1>1 DEF Written, Logged
<1>4. InHand' = InHand \cup {e}
  BY <1>1, <1>2 DEF InHand
<1>5. Live' = Live \cup {e} /\ Live \subseteq 1..Len(prev) /\ e \notin Live
  BY <1>2, <1>3, <1>4 DEF Live, ChainInv, HeadOK
<1>6. \A i \in Live : prev'[i] = prev[i] /\ prev[i] # lastHash /\ prev[i] # e
  BY <1>1, <1>2, <1>5 DEF ChainInv, HeadOK
<1>7. HeadOK'
  <2>1. lastHash \in 0..Len(prev) /\ lastHash # e
    BY <1>2 DEF ChainInv, HeadOK
  <2>2. \A i \in 1..e : prev'[i] \in 0..e
    BY <1>2, <2>1
  <2>3. \A i \in Live' : prev'[i] # e
    BY <1>2, <1>5, <1>6, <2>1
  <2>4. QED
    BY <1>1, <1>2, <1>5, <2>2, <2>3 DEF HeadOK
<1>8. NoFork'
  BY <1>2, <1>3, <1>4, <1>5, <1>6 DEF NoFork, Live, ChainInv
<1>9. HandsOK'
  <2>1. \A g \in Thread : entry[g] # e /\ e \notin Written
    BY <1>1, <1>2, <1>5 DEF Live, InHand
  <2>2. QED
    BY <1>1, <1>2, <1>3, <2>1 DEF HandsOK, ChainInv
<1>10. QED
  BY <1>1, <1>7, <1>8, <1>9 DEF ChainInv, Once

\* An entry in hand reaches the file.
LEMMA WriteKept ==
  ASSUME ChainInv, NEW h \in Thread, WriteEntry(h)
  PROVE  HandsOK' /\ HeadOK' /\ Once(lines)' /\ NoFork'
<1>1. /\ pc[h] = "write" /\ pc' = [pc EXCEPT ![h] = "newline"]
      /\ entry[h] # 0 /\ entry[h] \notin Written /\ entry[h] \in Nat
      /\ UNCHANGED <<prev, entry, lastHash, auditLog, phase>>
      /\ pc \in [Thread -> {"idle", "write", "newline", "push", "revoke"}]
  BY DEF WriteEntry, ChainInv, HandsOK, ShapeOK
<1>2. Written = Entries(lines) /\ Written' = Entries(lines')
  BY DEF Written, Entries
<1>3. Entries(lines') = Entries(lines) \cup {entry[h]} /\ Once(lines')
  <2>1. lines \in Seq(Seq(Nat)) /\ Once(lines) /\ (lineOpen => lines # <<>>)
    BY DEF ChainInv, ShapeOK
  <2>2. lines' = IF lineOpen THEN [lines EXCEPT ![Len(lines)] = Append(@, entry[h])]
                             ELSE Append(lines, <<entry[h]>>)
    BY DEF WriteEntry
  <2>3. \/ lines' = Append(lines, <<entry[h]>>)
        \/ lines # <<>> /\ lines' = [lines EXCEPT ![Len(lines)] = Append(@, entry[h])]
    BY <2>1, <2>2, Zenon
  <2> HIDE DEF Once
  <2>4. QED
    BY <1>1, <1>2, <2>1, <2>3, AddToFile
<1>4. entry[h] \in InHand /\ InHand' = InHand /\ Logged' = Logged
  BY <1>1 DEF InHand, Logged
<1>5. Live' \subseteq Live
  BY <1>2, <1>3, <1>4 DEF Live
<1>6. HeadOK' /\ NoFork'
  <2>1. lastHash' \in 0..Len(prev) /\ (phase' = "running" => \A e \in Live' : prev[e] # lastHash')
    BY <1>1, <1>5 DEF ChainInv, HeadOK
  <2>2. QED
    BY <1>1, <1>5, <2>1, NothingLinked DEF ChainInv
<1>7. HandsOK'
  BY <1>1, <1>2, <1>3 DEF HandsOK, ChainInv
<1>8. QED
  BY <1>3, <1>6, <1>7 DEF Once

\* The rest of an audit: a newline, a lost write, the push, the revocation.
LEMMA FinishKept ==
  ASSUME ChainInv, NEW h \in Thread,
         WriteNewline(h) \/ FailWrite(h) \/ TearWrite(h) \/ Push(h) \/ Revoke(h)
  PROVE  HandsOK' /\ HeadOK' /\ Once(lines)' /\ NoFork'
<1>1. /\ UNCHANGED <<prev, lastHash, phase>>
      /\ lines' = lines \/ lines' = Append(lines, <<>>)
  BY DEF WriteNewline, FailWrite, TearWrite, Push, Revoke
<1>2. /\ Written' = Written /\ Once(lines')
      /\ pc \in [Thread -> {"idle", "write", "newline", "push", "revoke"}]
      /\ entry \in [Thread -> Nat]
  <2>1. Written = Entries(lines) /\ Written' = Entries(lines')
    BY DEF Written, Entries
  <2>2. lines \in Seq(Seq(Nat)) /\ Once(lines)
    BY DEF ChainInv, ShapeOK
  <2> HIDE DEF Once
  <2>3. Entries(lines') = Entries(lines) /\ Once(lines')
    BY <1>1, <2>2, TearFile
  <2>4. QED
    BY <2>1, <2>3 DEF ChainInv, ShapeOK
<1>3. Live' \subseteq Live /\ HandsOK'
  <2>1. CASE WriteNewline(h) \/ FailWrite(h) \/ TearWrite(h)
    <3>1. /\ UNCHANGED <<entry, auditLog>> /\ pc' = [pc EXCEPT ![h] = "push"]
          /\ pc[h] \in {"write", "newline"}
      BY <2>1 DEF WriteNewline, FailWrite, TearWrite
    <3>2. Live' \subseteq Live
      BY <1>2, <3>1 DEF Live, Logged, InHand
    <3>3. QED
      BY <1>1, <1>2, <3>1, <3>2 DEF HandsOK, ChainInv
  <2>2. CASE Push(h)
    <3>1. /\ auditLog \in Seq(Nat) /\ auditLog' = Append(auditLog, entry[h])
          /\ pc[h] = "push" /\ entry[h] # 0
          /\ entry' = [entry EXCEPT ![h] = 0]
          /\ pc'[h] \in {"idle", "revoke"} /\ pc' = [pc EXCEPT ![h] = pc'[h]]
      BY <1>2, <2>2 DEF Push, ChainInv, HandsOK, ShapeOK
    <3>2. Logged' \subseteq Logged \cup {entry[h]}
      BY <1>2, <3>1, AppendProperties DEF Logged
    <3>3. InHand' \subseteq InHand /\ entry[h] \in InHand
      BY <1>2, <3>1 DEF InHand
    <3>4. Live' \subseteq Live
      BY <1>2, <3>2, <3>3 DEF Live
    <3>5. QED
      BY <1>1, <1>2, <3>1, <3>4 DEF HandsOK, ChainInv
  <2>3. CASE Revoke(h)
    <3>1. /\ UNCHANGED <<entry, auditLog>> /\ pc' = [pc EXCEPT ![h] = "idle"] /\ pc[h] = "revoke"
      BY <2>3 DEF Revoke
    <3>2. QED
      BY <1>1, <1>2, <3>1 DEF Live, Logged, InHand, HandsOK, ChainInv
  <2>4. QED
    BY <2>1, <2>2, <2>3
<1>4. lastHash' \in 0..Len(prev) /\ (phase' = "running" => \A e \in Live' : prev[e] # lastHash')
  BY <1>1, <1>3 DEF ChainInv, HeadOK
<1>5. QED
  BY <1>1, <1>2, <1>3, <1>4, NothingLinked DEF ChainInv, Once

\* A restart goes on from the last line: nothing in the file follows it, as a file
\* that holds each entry once verifies only if each line follows the one before it.
LEMMA RestartKept ==
  ASSUME ChainInv, Stop \/ Reopen \/ RefuseFile
  PROVE  HandsOK' /\ HeadOK' /\ Once(lines)' /\ NoFork'
<1>1. /\ UNCHANGED <<prev, lines>>
      /\ entry \in [Thread -> Nat] /\ Written' = Written /\ lines \in Seq(Seq(Nat))
  <2>1. UNCHANGED <<prev, lines>>
    BY DEF Stop, Reopen, RefuseFile
  <2>2. QED
    BY <2>1 DEF Written, ChainInv, ShapeOK
<1>2. CASE Stop
  <2>1. /\ pc' = [g \in Thread |-> "idle"] /\ entry' = [g \in Thread |-> 0]
        /\ auditLog' = <<>> /\ lastHash' = 0 /\ phase' = "down"
    BY <1>2 DEF Stop
  <2>2. Live' \subseteq Live
    BY <1>1, <2>1 DEF Live, Logged, InHand
  <2>3. HeadOK' /\ NoFork'
    <3>1. 0 \in 0..Len(prev)
      BY DEF ChainInv, HeadOK
    <3>2. QED
      BY <1>1, <2>1, <2>2, <3>1, NothingLinked DEF ChainInv
  <2>4. HandsOK'
    BY <2>1 DEF HandsOK
  <2>5. QED
    BY <1>1, <2>3, <2>4 DEF ChainInv, Once
<1>3. CASE RefuseFile
  <2>1. UNCHANGED <<pc, entry, auditLog, lastHash>> /\ phase = "down" /\ phase' = "refused"
    BY <1>3 DEF RefuseFile
  <2>2. Live' \subseteq Live /\ lastHash' \in 0..Len(prev)
    BY <1>1, <2>1 DEF Live, Logged, InHand, ChainInv, HeadOK
  <2>3. HeadOK' /\ NoFork'
    BY <1>1, <2>1, <2>2, NothingLinked DEF ChainInv
  <2>4. QED
    BY <1>1, <2>1, <2>3 DEF ChainInv, HandsOK, Once
<1>4. CASE Reopen
  <2>1. /\ UNCHANGED <<pc, entry>> /\ phase = "down" /\ phase' = "running"
        /\ Parses /\ Verifies(Loaded) /\ auditLog' = Loaded
        /\ lastHash' = IF lines = <<>> THEN 0 ELSE Loaded[Len(lines)]
    BY <1>4 DEF Reopen
  <2>2. /\ Len(lines) \in Nat /\ DOMAIN lines = 1..Len(lines)
        /\ Len(Loaded) = Len(lines) /\ DOMAIN Loaded = DOMAIN lines
        /\ \A i \in DOMAIN lines : Loaded[i] = lines[i][1] /\ DOMAIN lines[i] = {1}
    <3>1. DOMAIN lines = 1..Len(lines) /\ Len(lines) \in Nat
      BY <1>1
    <3>2. ASSUME NEW i \in DOMAIN lines PROVE DOMAIN lines[i] = {1}
      <4>1. lines[i] \in Seq(Nat) /\ Len(lines[i]) = 1
        BY <1>1, <2>1 DEF Parses
      <4>2. QED
        BY <4>1
    <3>3. QED
      BY <3>1, <3>2 DEF Loaded
  <2>3. \A i \in DOMAIN lines : Loaded[i] \in Written
    BY <2>2, EntryIsSomewhere DEF Written, Entries
  <2>4. \A e \in Written : \E i \in DOMAIN lines : e = Loaded[i]
    BY <2>2, EntryIsSomewhere DEF Written, Entries
  <2>5. Logged' \subseteq Written /\ InHand' = {}
    BY <2>1, <2>2, <2>3 DEF Logged, InHand, ChainInv, HandsOK
  <2>6. Live' \subseteq Written /\ Written \subseteq Live
    BY <1>1, <2>5 DEF Live
  <2>7. Written \subseteq 1..Len(prev)
    BY <2>6 DEF ChainInv, HeadOK
  <2>8. ASSUME NEW e \in Written
        PROVE  prev[e] # lastHash'
    <3>1. PICK i \in DOMAIN lines : e = Loaded[i]
      BY <2>4
    <3>2. prev[e] = IF i = 1 THEN 0 ELSE Loaded[i - 1]
      BY <2>1, <2>2, <3>1 DEF Verifies
    <3> DEFINE n == Len(lines)
    <3>3. n \in DOMAIN lines /\ lastHash' = Loaded[n] /\ Loaded[n] # 0
      <4>1. lines # <<>> /\ n \in DOMAIN lines
        BY <1>1, <2>2
      <4>2. QED
        BY <2>1, <2>3, <2>7, <4>1
    <3>4. ASSUME i # 1 PROVE Loaded[i - 1] # Loaded[n]
      <4>1. i - 1 \in DOMAIN lines /\ i - 1 # n
        BY <2>2, <3>4
      <4>2. 1 \in DOMAIN lines[i - 1] /\ 1 \in DOMAIN lines[n]
        BY <2>2, <3>3, <4>1
      <4>3. lines[i - 1][1] # lines[n][1]
        BY <3>3, <4>1, <4>2 DEF ChainInv, Once
      <4>4. QED
        BY <2>2, <3>3, <4>1, <4>3
    <3>5. QED
      BY <3>2, <3>3, <3>4
  <2>9. lastHash' \in 0..Len(prev)
    BY <1>1, <2>1, <2>2, <2>3, <2>7 DEF ChainInv, HeadOK
  <2>10. HeadOK' /\ NoFork'
    BY <1>1, <2>6, <2>8, <2>9, NothingLinked DEF ChainInv
  <2>11. HandsOK'
    BY <1>1, <2>1 DEF ChainInv, HandsOK
  <2>12. QED
    BY <1>1, <2>10, <2>11 DEF ChainInv, Once
<1>5. QED
  BY <1>2, <1>3, <1>4

-----------------------------------------------------------------------------
LEMMA ChainHolds == Spec => []ChainInv
<1>1. Init => ChainInv
  BY DEF Init, ChainInv, ShapeOK, HandsOK, HeadOK, NoFork, Live, Once, Written, Logged, InHand
<1>2. ChainInv /\ [Next]_vars => ChainInv'
  <2> SUFFICES ASSUME ChainInv, [Next]_vars PROVE ChainInv'
    OBVIOUS
  <2>1. ShapeOK'
    BY ShapeKept DEF ChainInv
  <2>2. HandsOK' /\ HeadOK' /\ Once(lines)' /\ NoFork'
    <3>1. ASSUME NEW h \in Thread, ThreadStep(h)
          PROVE  HandsOK' /\ HeadOK' /\ Once(lines)' /\ NoFork'
      BY <3>1, LinkKept, WriteKept, FinishKept DEF ThreadStep
    <3>2. CASE UNCHANGED vars
      BY <3>2 DEF vars, ChainInv, HandsOK, HeadOK, NoFork, Live, Once, Written, Logged, InHand
    <3>3. QED
      BY <3>1, <3>2, RestartKept DEF Next
  <2>3. QED
    BY <2>1, <2>2 DEF ChainInv
<1>3. QED
  BY <1>1, <1>2, PTL DEF Spec

\* The chain never forks.
THEOREM ChainNeverForks == Spec => []NoFork
<1>1. ChainInv => NoFork
  BY DEF ChainInv
<1>2. QED
  BY <1>1, ChainHolds, PTL

-----------------------------------------------------------------------------
\* The log says that a stamp was invalidated.
OnRecord(s) == \E i \in DOMAIN auditLog : about[auditLog[i]] = s

\* What a thread has in hand is about its topic; by the time it revokes, that is on
\* record.
RevocationInv ==
  /\ \A h \in Thread : entry[h] # 0 => about[entry[h]] = topic[h]
  /\ \A h \in Thread : pc[h] = "revoke" => topic[h] \in Stamp /\ OnRecord(topic[h])
  /\ phase = "running" => \A s \in revoked : OnRecord(s)

\* The record only grows while the process runs.
LEMMA RecordLasts ==
  ASSUME ChainInv, NEW h \in Thread, ThreadStep(h), NEW s, OnRecord(s)
  PROVE  OnRecord(s)'
<1>1. PICK i \in DOMAIN auditLog : about[auditLog[i]] = s
  BY DEF OnRecord
<1>2. auditLog[i] \in 1..Len(about) /\ auditLog \in Seq(Nat) /\ about \in Seq(Stamp \cup {Decision})
  <2>1. auditLog[i] \in Live /\ Live \subseteq 1..Len(prev) /\ Len(about) = Len(prev)
    BY <1>1 DEF Live, Logged, ChainInv, HeadOK, ShapeOK
  <2>2. QED
    BY <2>1 DEF ChainInv, ShapeOK
<1>3. CASE \E what \in Stamp \cup {Decision} : Link(h, what)
  <2>1. PICK what \in Stamp \cup {Decision} : Link(h, what)
    BY <1>3
  <2>2. auditLog' = auditLog /\ about' = Append(about, what)
    BY <2>1 DEF Link
  <2>3. about'[auditLog[i]] = s
    BY <1>1, <1>2, <2>2
  <2>4. QED
    BY <1>1, <2>2, <2>3 DEF OnRecord
<1>4. CASE Push(h)
  <2>1. about' = about /\ auditLog' = Append(auditLog, entry[h]) /\ entry[h] \in Nat
    BY <1>4 DEF Push, ChainInv, ShapeOK
  <2>2. i \in DOMAIN auditLog' /\ auditLog'[i] = auditLog[i]
    BY <1>2, <2>1
  <2>3. QED
    BY <1>1, <2>1, <2>2 DEF OnRecord
<1>5. CASE WriteEntry(h) \/ WriteNewline(h) \/ FailWrite(h) \/ TearWrite(h) \/ Revoke(h)
  <2>1. auditLog' = auditLog /\ about' = about
    BY <1>5 DEF WriteEntry, WriteNewline, FailWrite, TearWrite, Revoke
  <2>2. QED
    BY <1>1, <2>1 DEF OnRecord
<1>6. QED
  BY <1>3, <1>4, <1>5 DEF ThreadStep

LEMMA RevocationKept ==
  ASSUME ChainInv, RevocationInv, [Next]_vars
  PROVE  RevocationInv'
<1>1. ASSUME NEW h \in Thread, ThreadStep(h)
      PROVE  RevocationInv'
  <2> DEFINE Types == /\ pc \in [Thread -> {"idle", "write", "newline", "push", "revoke"}]
                      /\ entry \in [Thread -> Nat]
                      /\ topic \in [Thread -> Stamp \cup {Decision}]
  <2>1. Types /\ phase' = phase /\ (\A g \in Thread : pc[g] \in {"idle", "revoke"} <=> entry[g] = 0)
    BY <1>1 DEF ThreadStep, Link, WriteEntry, WriteNewline, FailWrite, TearWrite, Push, Revoke,
                ChainInv, ShapeOK, HandsOK
  <2> DEFINE Recorded(s) == \E i \in DOMAIN auditLog' : about'[auditLog'[i]] = s
             Kept == /\ \A g \in Thread : entry'[g] # 0 => about'[entry'[g]] = topic'[g]
                     /\ \A g \in Thread :
                          pc'[g] = "revoke" => topic'[g] \in Stamp /\ Recorded(topic'[g])
                     /\ phase' = "running" => \A s \in revoked' : Recorded(s)
  <2>2. ASSUME NEW s, OnRecord(s)
        PROVE  Recorded(s)
    BY <1>1, <2>2, RecordLasts DEF OnRecord
  <2> SUFFICES Kept
    BY DEF RevocationInv, OnRecord
  <2> HIDE DEF Recorded
  <2>3. ASSUME NEW what \in Stamp \cup {Decision}, Link(h, what)
        PROVE  Kept
    <3>1. /\ pc[h] = "idle" /\ entry' = [entry EXCEPT ![h] = Len(prev) + 1]
          /\ topic' = [topic EXCEPT ![h] = what] /\ pc' = [pc EXCEPT ![h] = "write"]
          /\ about' = Append(about, what) /\ revoked' = revoked
      BY <2>3 DEF Link
    <3>2. /\ about \in Seq(Stamp \cup {Decision}) /\ Len(about) = Len(prev)
          /\ \A g \in Thread : entry[g] # 0 => entry[g] \in 1..Len(about)
      BY DEF ChainInv, ShapeOK, HeadOK, Live, InHand
    <3>3. /\ about'[Len(prev) + 1] = what
          /\ \A g \in Thread : entry[g] # 0 => about'[entry[g]] = about[entry[g]]
      BY <3>1, <3>2
    <3>4. \A g \in Thread : entry'[g] # 0 => about'[entry'[g]] = topic'[g]
      BY <2>1, <3>1, <3>3 DEF RevocationInv
    <3>5. \A g \in Thread : pc'[g] = "revoke" => topic'[g] \in Stamp /\ OnRecord(topic[g])
                                                /\ topic'[g] = topic[g]
      BY <2>1, <3>1 DEF RevocationInv
    <3>6. QED
      BY <2>1, <2>2, <3>1, <3>4, <3>5 DEF RevocationInv
  <2>4. CASE WriteEntry(h) \/ WriteNewline(h) \/ FailWrite(h) \/ TearWrite(h)
    <3>1. /\ UNCHANGED <<entry, topic, about, revoked, auditLog>>
          /\ \E next \in {"newline", "push"} : pc' = [pc EXCEPT ![h] = next]
      BY <2>4 DEF WriteEntry, WriteNewline, FailWrite, TearWrite
    <3>2. QED
      BY <2>1, <2>2, <3>1 DEF RevocationInv
  <2>5. CASE Push(h)
    <3>1. /\ pc[h] = "push" /\ entry[h] # 0 /\ UNCHANGED <<topic, about, revoked>>
          /\ auditLog' = Append(auditLog, entry[h]) /\ auditLog \in Seq(Nat)
          /\ entry' = [entry EXCEPT ![h] = 0] /\ entry[h] \in Nat
          /\ pc' = [pc EXCEPT ![h] = IF topic[h] \in Stamp THEN "revoke" ELSE "idle"]
      BY <2>1, <2>5 DEF Push, ChainInv, ShapeOK
    <3>2. about[entry[h]] = topic[h]
      BY <3>1 DEF RevocationInv
    <3>3. Len(auditLog) + 1 \in DOMAIN auditLog' /\ auditLog'[Len(auditLog) + 1] = entry[h]
      BY <3>1
    <3>4. Recorded(topic[h])
      BY <3>1, <3>2, <3>3 DEF Recorded
    <3>5. \A g \in Thread : pc'[g] = "revoke" => topic[g] \in Stamp /\ Recorded(topic'[g])
      BY <2>1, <2>2, <3>1, <3>4 DEF RevocationInv
    <3>6. \A g \in Thread : entry'[g] # 0 => about'[entry'[g]] = topic'[g]
      BY <2>1, <3>1 DEF RevocationInv
    <3>7. QED
      BY <2>1, <2>2, <3>1, <3>5, <3>6 DEF RevocationInv
  <2>6. CASE Revoke(h)
    <3>1. /\ pc[h] = "revoke" /\ entry[h] = 0 /\ UNCHANGED <<entry, about, auditLog>>
          /\ revoked' = revoked \cup {topic[h]} /\ topic' = [topic EXCEPT ![h] = Decision]
          /\ pc' = [pc EXCEPT ![h] = "idle"]
      BY <2>1, <2>6 DEF Revoke
    <3>2. /\ topic[h] \in Stamp /\ OnRecord(topic[h])
          /\ \A g \in Thread : /\ entry'[g] # 0 => about'[entry'[g]] = topic'[g]
                               /\ pc'[g] = "revoke" => topic'[g] = topic[g] /\ pc[g] = "revoke"
      BY <2>1, <3>1 DEF RevocationInv
    <3>3. \A s \in revoked' : phase = "running" => Recorded(s)
      BY <2>2, <3>1, <3>2 DEF RevocationInv
    <3>4. \A g \in Thread : pc'[g] = "revoke" => topic'[g] \in Stamp /\ Recorded(topic'[g])
      BY <2>2, <3>2 DEF RevocationInv
    <3>5. QED
      BY <2>1, <3>2, <3>3, <3>4
  <2>7. QED
    BY <1>1, <2>3, <2>4, <2>5, <2>6 DEF ThreadStep
<1>2. CASE Stop \/ Reopen \/ RefuseFile
  <2>1. CASE Stop
    BY <2>1 DEF Stop, RevocationInv
  <2>2. CASE Reopen
    <3>1. /\ UNCHANGED <<entry, about, topic, pc>> /\ revoked' = {}
          /\ \A h \in Thread : pc[h] = "idle"
      BY <2>2 DEF Reopen, ChainInv, HandsOK
    <3>2. QED
      BY <3>1 DEF RevocationInv
  <2>3. CASE RefuseFile
    <3>1. /\ UNCHANGED <<entry, about, topic, pc>> /\ phase' # "running"
          /\ \A h \in Thread : pc[h] = "idle"
      BY <2>3 DEF RefuseFile, ChainInv, HandsOK
    <3>2. QED
      BY <3>1 DEF RevocationInv
  <2>4. QED
    BY <1>2, <2>1, <2>2, <2>3
<1>3. CASE UNCHANGED vars
  BY <1>3 DEF vars, RevocationInv, OnRecord
<1>4. QED
  BY <1>1, <1>2, <1>3 DEF Next

\* Every stamp that is revoked was audited first, on whatever thread.
THEOREM RevocationsOnRecord == Spec => []RevocationIsAudited
<1>1. Init => RevocationInv
  BY DEF Init, RevocationInv
<1>2. ChainInv /\ RevocationInv /\ [Next]_vars => RevocationInv'
  BY RevocationKept
<1>3. RevocationInv => RevocationIsAudited
  BY DEF RevocationInv, OnRecord, RevocationIsAudited
<1>4. QED
  BY <1>1, <1>2, <1>3, ChainHolds, PTL DEF Spec

-----------------------------------------------------------------------------
\* The last entry of a log, 0 if there is none.
LastOf(log) == IF log = <<>> THEN 0 ELSE log[Len(log)]

\* In an orderly world the file is the log, but for the entry of the one thread that
\* is between writing and pushing it; both are a chain that ends at the head, but for
\* the entry that is still to be written.
Settled == Loaded = auditLog /\ lastHash = LastOf(auditLog) /\ lineOpen = FALSE

Alone == \A h, g \in Thread : pc[h] # "idle" /\ pc[g] # "idle" => h = g

MidAudit(h) ==
  /\ pc[h] \in {"write", "newline", "push"} => lastHash = entry[h]
  /\ pc[h] = "write" => /\ Loaded = auditLog /\ lineOpen = FALSE
                        /\ prev[entry[h]] = LastOf(auditLog)
  /\ pc[h] \in {"newline", "push"} => Loaded = Append(auditLog, entry[h])
  /\ pc[h] = "push" => lineOpen = FALSE

OrderlyInv ==
  orderly =>
    /\ phase # "refused" /\ Parses /\ Verifies(Loaded)
    /\ Alone
    /\ phase = "running" /\ (\A h \in Thread : pc[h] \in {"idle", "revoke"}) => Settled
    /\ \A h \in Thread : MidAudit(h)
    /\ phase = "down" => lineOpen = FALSE

\* A line of its own for an entry that follows the last one.
LEMMA LineAdded ==
  ASSUME ChainInv, Parses, Verifies(Loaded), NEW e \in 1..Len(prev),
         prev[e] = LastOf(Loaded), prev' = prev, torn' = torn,
         lines' = Append(lines, <<e>>)
  PROVE  Parses' /\ Loaded' = Append(Loaded, e) /\ Verifies(Loaded)'
<1>1. /\ lines \in Seq(Seq(Nat)) /\ <<e>> \in Seq(Nat) /\ Len(<<e>>) = 1 /\ <<e>>[1] = e
      /\ Len(lines) \in Nat /\ DOMAIN lines = 1..Len(lines)
  <2>1. e \in Nat /\ lines \in Seq(Seq(Nat))
    BY DEF ChainInv, ShapeOK
  <2>2. QED
    BY <2>1
<1>2. /\ DOMAIN lines' = 1..(Len(lines) + 1) /\ lines'[Len(lines) + 1] = <<e>>
      /\ \A i \in 1..Len(lines) : lines'[i] = lines[i]
  BY <1>1
<1>3. Parses'
  BY <1>1, <1>2 DEF Parses
<1>4. ASSUME NEW i \in 1..Len(lines)
      PROVE  lines[i][1] \in Nat /\ i \in DOMAIN lines
  <2>1. lines[i] \in Seq(Nat) /\ i \in DOMAIN lines
    BY <1>1
  <2>2. Len(lines[i]) = 1
    BY <2>1 DEF Parses
  <2>3. QED
    BY <2>1, <2>2
<1>5. /\ Loaded \in Seq(Nat) /\ Len(Loaded) = Len(lines)
      /\ \A i \in 1..Len(lines) : Loaded[i] = lines[i][1]
  BY <1>1, <1>4 DEF Loaded
<1>6. e \in Nat
  OBVIOUS
<1>7. Loaded' = Append(Loaded, e)
  <2> DEFINE n == Len(lines) + 1
  <2>1. /\ Append(Loaded, e) \in Seq(Nat) /\ Len(Append(Loaded, e)) = n
        /\ Append(Loaded, e)[n] = e
        /\ \A i \in 1..Len(lines) : Append(Loaded, e)[i] = lines[i][1]
    BY <1>5, <1>6, AppendProperties
  <2>2. Loaded' = [i \in 1..n |-> lines'[i][1]]
    BY <1>2 DEF Loaded
  <2>3. ASSUME NEW i \in 1..n
        PROVE  lines'[i][1] = Append(Loaded, e)[i] /\ lines'[i][1] \in Nat
    <3>1. i \in 1..Len(lines) \/ i = n
      BY <1>1
    <3>2. QED
      BY <1>1, <1>2, <1>4, <1>6, <2>1, <3>1
  <2>4. n \in Nat
    BY <1>1
  <2> HIDE DEF n
  <2>5. /\ Loaded' \in Seq(Nat) /\ Len(Loaded') = n
        /\ \A i \in 1..n : Loaded'[i] = Append(Loaded, e)[i]
    <3> DEFINE f == [i \in 1..n |-> lines'[i][1]]
    <3>1. f \in [1..n -> Nat] /\ \A i \in 1..n : f[i] = Append(Loaded, e)[i]
      BY <2>3
    <3>2. Loaded' = f
      BY <2>2
    <3> HIDE DEF f, Loaded
    <3>3. f \in Seq(Nat) /\ Len(f) = n
      BY <2>4, <3>1, SeqDef, LenProperties
    <3>4. QED
      BY <3>1, <3>2, <3>3
  <2>6. Loaded' = Append(Loaded, e)
    <3>1. \A i \in 1..Len(Loaded') : Loaded'[i] = Append(Loaded, e)[i]
      BY <2>5
    <3>2. Len(Loaded') = Len(Append(Loaded, e))
      BY <2>1, <2>5
    <3> HIDE DEF Loaded
    <3>3. QED
      BY <2>1, <2>5, <3>1, <3>2, SeqEqual
  <2>7. QED
    BY <2>6
<1>8. Verifies(Loaded)'
  <2> DEFINE log == Append(Loaded, e)
  <2>1. /\ Len(log) = Len(lines) + 1 /\ log[Len(lines) + 1] = e
        /\ \A i \in 1..Len(lines) : log[i] = Loaded[i]
    BY <1>1, <1>5, <1>6
  <2>2. \A i \in 1..Len(lines) : prev[Loaded[i]] = IF i = 1 THEN 0 ELSE Loaded[i - 1]
    BY <1>5 DEF Verifies
  <2>3. Len(lines) = 0 <=> Loaded = <<>>
    BY <1>5
  <2> HIDE DEF log
  <2>4. ASSUME NEW i \in 1..(Len(lines) + 1)
        PROVE  prev[log[i]] = IF i = 1 THEN 0 ELSE log[i - 1]
    <3>1. CASE i = Len(lines) + 1
      <4>1. prev[log[i]] = LastOf(Loaded)
        BY <2>1, <3>1
      <4>2. CASE Len(lines) = 0
        BY <2>3, <3>1, <4>1, <4>2 DEF LastOf
      <4>3. CASE Len(lines) # 0
        <5>1. i # 1 /\ i - 1 = Len(lines) /\ Len(lines) \in 1..Len(lines)
          BY <1>1, <3>1, <4>3
        <5>2. LastOf(Loaded) = Loaded[Len(lines)]
          BY <1>5, <2>3, <4>3 DEF LastOf
        <5>3. log[i - 1] = Loaded[Len(lines)]
          BY <2>1, <5>1
        <5>4. QED
          BY <4>1, <5>1, <5>2, <5>3
      <4>4. QED
        BY <4>2, <4>3
    <3>2. CASE i # Len(lines) + 1
      <4>1. i \in 1..Len(lines) /\ (i # 1 => i - 1 \in 1..Len(lines))
        BY <1>1, <3>2
      <4>2. QED
        BY <2>1, <2>2, <4>1
    <3>3. QED
      BY <3>1, <3>2
  <2>5. QED
    BY <1>7, <2>1, <2>4 DEF Verifies, log
<1>9. QED
  BY <1>3, <1>7, <1>8

\* The file as it is read does not depend on entries that are linked later.
LEMMA SameFile ==
  ASSUME lines' = lines, torn' = torn
  PROVE  Loaded' = Loaded /\ Parses' = Parses
BY DEF Loaded, Parses

\* A step of one thread in an orderly world: the others are idle.
LEMMA OrderlyThread ==
  ASSUME ChainInv, OrderlyInv, orderly, NEW h \in Thread, ThreadStep(h)
  PROVE  OrderlyInv'
<1> DEFINE Others == \A g \in Thread : g # h => pc[g] = "idle"
<1>1. /\ orderly' = orderly /\ phase' = phase /\ phase = "running"
      /\ pc \in [Thread -> {"idle", "write", "newline", "push", "revoke"}]
      /\ \E next : pc' = [pc EXCEPT ![h] = next]
  BY DEF ThreadStep, Link, WriteEntry, WriteNewline, FailWrite, TearWrite, Push, Revoke,
         ChainInv, ShapeOK, HandsOK
<1>2. Others
  <2>1. CASE \E what \in Stamp \cup {Decision} : Link(h, what)
    BY <2>1 DEF Link, Quiet
  <2>2. CASE \/ WriteEntry(h) \/ WriteNewline(h) \/ FailWrite(h) \/ TearWrite(h)
             \/ Push(h) \/ Revoke(h)
    BY <2>2 DEF WriteEntry, WriteNewline, FailWrite, TearWrite, Push, Revoke, OrderlyInv, Alone
  <2>3. QED
    BY <2>1, <2>2 DEF ThreadStep
<1>3. /\ \A g \in Thread : g # h => pc'[g] = "idle"
      /\ Alone'
  BY <1>1, <1>2 DEF Alone
<1>4. SUFFICES /\ Parses' /\ Verifies(Loaded)'
               /\ pc'[h] \in {"idle", "revoke"} => Settled'
               /\ MidAudit(h)'
  <2>1. ASSUME MidAudit(h)', NEW g \in Thread
        PROVE  MidAudit(g)'
    BY <1>3, <2>1 DEF MidAudit
  <2>2. QED
    BY <1>1, <1>3, <2>1 DEF OrderlyInv
<1>5. Parses /\ Verifies(Loaded) /\ MidAudit(h)
  BY DEF OrderlyInv
<1>6. CASE \E what \in Stamp \cup {Decision} : Link(h, what)
  <2>1. /\ prev' = Append(prev, lastHash) /\ lastHash' = Len(prev) + 1
        /\ entry' = [entry EXCEPT ![h] = Len(prev) + 1] /\ pc'[h] = "write"
        /\ UNCHANGED <<auditLog, lines, lineOpen, torn>>
        /\ \A g \in Thread : pc[g] \in {"idle", "revoke"}
    BY <1>1, <1>2, <1>6 DEF Link
  <2>2. Settled
    BY <1>1, <2>1 DEF OrderlyInv
  <2>3. /\ entry'[h] = Len(prev) + 1 /\ prev'[Len(prev) + 1] = lastHash
        /\ \A e \in 1..Len(prev) : prev'[e] = prev[e]
    BY <2>1 DEF ChainInv, ShapeOK, HeadOK
  <2>4. Loaded' = Loaded /\ Parses'
    BY <1>5, <2>1, SameFile
  <2>5. Loaded = auditLog /\ auditLog \in Seq(Nat)
        /\ \A i \in 1..Len(Loaded) : Loaded[i] \in 1..Len(prev)
    <3>1. \A i \in 1..Len(auditLog) : auditLog[i] \in Logged
      BY DEF Logged, ChainInv, ShapeOK
    <3>2. QED
      BY <2>2, <3>1 DEF Settled, ChainInv, HeadOK, Live, ShapeOK
  <2>6. Verifies(Loaded)'
    BY <1>5, <2>3, <2>4, <2>5 DEF Verifies
  <2>7. LastOf(auditLog)' = LastOf(auditLog)
    BY <2>1 DEF LastOf
  <2>8. QED
    BY <2>1, <2>2, <2>3, <2>4, <2>6, <2>7 DEF MidAudit, Settled
<1>7. CASE WriteEntry(h)
  <2>1. /\ pc[h] = "write" /\ pc'[h] = "newline" /\ lineOpen = FALSE
        /\ lines' = Append(lines, <<entry[h]>>)
        /\ UNCHANGED <<prev, entry, lastHash, auditLog, torn>>
    BY <1>1, <1>5, <1>7 DEF WriteEntry, MidAudit
  <2>2. entry[h] \in 1..Len(prev)
    BY <2>1 DEF ChainInv, HandsOK, HeadOK, Live, InHand
  <2>3. prev[entry[h]] = LastOf(Loaded) /\ Loaded = auditLog
    BY <1>5, <2>1 DEF MidAudit
  <2>4. Parses' /\ Loaded' = Append(Loaded, entry[h]) /\ Verifies(Loaded)'
    BY <1>5, <2>1, <2>2, <2>3, LineAdded
  <2>5. QED
    BY <1>5, <2>1, <2>3, <2>4 DEF MidAudit
<1>8. CASE WriteNewline(h)
  <2>1. /\ pc[h] = "newline" /\ pc'[h] = "push" /\ lineOpen' = FALSE
        /\ UNCHANGED <<prev, entry, lastHash, auditLog, lines, torn>>
    BY <1>1, <1>8 DEF WriteNewline
  <2>2. Loaded' = Loaded /\ Parses' /\ Verifies(Loaded)'
    BY <1>5, <2>1, SameFile DEF Verifies
  <2>3. QED
    BY <1>5, <2>1, <2>2 DEF MidAudit
<1>9. CASE FailWrite(h) \/ TearWrite(h)
  BY <1>9 DEF FailWrite, TearWrite
<1>10. CASE Push(h)
  <2>1. /\ pc[h] = "push" /\ pc'[h] \in {"idle", "revoke"}
        /\ auditLog' = Append(auditLog, entry[h])
        /\ UNCHANGED <<prev, lastHash, lines, lineOpen, torn>>
    BY <1>1, <1>10 DEF Push
  <2>2. Loaded' = Loaded /\ Parses' /\ Verifies(Loaded)'
    BY <1>5, <2>1, SameFile DEF Verifies
  <2>3. /\ Loaded' = auditLog' /\ lineOpen' = FALSE /\ lastHash' = entry[h]
        /\ auditLog \in Seq(Nat) /\ entry[h] \in Nat
    BY <1>5, <2>1, <2>2 DEF MidAudit, ChainInv, ShapeOK
  <2>4. auditLog' # <<>> /\ auditLog'[Len(auditLog')] = entry[h]
    BY <2>1, <2>3
  <2>5. QED
    BY <2>1, <2>2, <2>3, <2>4 DEF MidAudit, Settled, LastOf
<1>11. CASE Revoke(h)
  <2>1. /\ pc[h] = "revoke" /\ pc'[h] = "idle"
        /\ UNCHANGED <<prev, lastHash, auditLog, lines, lineOpen, torn>>
        /\ \A g \in Thread : pc[g] \in {"idle", "revoke"}
    BY <1>1, <1>2, <1>11 DEF Revoke
  <2>2. Loaded' = Loaded /\ Parses' /\ Verifies(Loaded)'
    BY <1>5, <2>1, SameFile DEF Verifies
  <2>3. Settled
    BY <1>1, <2>1 DEF OrderlyInv
  <2>4. QED
    BY <2>1, <2>2, <2>3 DEF MidAudit, Settled, LastOf
<1>12. QED
  BY <1>6, <1>7, <1>8, <1>9, <1>10, <1>11 DEF ThreadStep

LEMMA OrderlyKept ==
  ASSUME ChainInv, OrderlyInv, [Next]_vars
  PROVE  OrderlyInv'
<1>1. SUFFICES ASSUME orderly, orderly'
               PROVE  OrderlyInv'
  <2>1. orderly' = orderly
    BY DEF Next, ThreadStep, Link, WriteEntry, WriteNewline, FailWrite, TearWrite, Push, Revoke,
           Stop, Reopen, RefuseFile, vars
  <2>2. QED
    BY <2>1 DEF OrderlyInv
<1>2. /\ Parses /\ Verifies(Loaded) /\ Alone /\ (phase = "down" => lineOpen = FALSE)
      /\ phase # "refused"
  BY <1>1 DEF OrderlyInv
<1>3. CASE \E h \in Thread : ThreadStep(h)
  BY <1>1, <1>3, OrderlyThread
<1>4. CASE Stop
  <2>1. /\ phase = "running" /\ (\A h \in Thread : pc[h] = "idle")
        /\ phase' = "down" /\ pc' = [h \in Thread |-> "idle"]
        /\ UNCHANGED <<prev, lines, lineOpen, torn>>
    BY <1>1, <1>4 DEF Stop, Quiet
  <2>2. Settled
    BY <1>1, <2>1 DEF OrderlyInv
  <2>3. Parses' /\ Verifies(Loaded)'
    BY <1>2, <2>1, SameFile DEF Verifies
  <2>4. QED
    BY <2>1, <2>2, <2>3 DEF OrderlyInv, Alone, MidAudit, Settled
<1>5. CASE Reopen
  <2>1. /\ phase = "down" /\ phase' = "running" /\ auditLog' = Loaded
        /\ lastHash' = (IF lines = <<>> THEN 0 ELSE Loaded[Len(lines)])
        /\ UNCHANGED <<prev, pc, lines, lineOpen, torn>>
        /\ \A h \in Thread : pc[h] = "idle"
    BY <1>5 DEF Reopen, ChainInv, HandsOK
  <2>2. Loaded' = Loaded /\ Parses' /\ Verifies(Loaded)'
    BY <1>2, <2>1, SameFile DEF Verifies
  <2>3. Len(Loaded) = Len(lines) /\ (lines = <<>> <=> Loaded = <<>>)
    <3>1. lines \in Seq(Seq(Nat)) /\ Len(lines) \in Nat /\ DOMAIN lines = 1..Len(lines)
      BY DEF ChainInv, ShapeOK
    <3>2. DOMAIN Loaded = 1..Len(lines)
      BY <3>1 DEF Loaded
    <3>3. Loaded \in Seq(Nat)
      BY <3>1, <1>2 DEF Loaded, Parses
    <3>4. QED
      BY <3>1, <3>2, <3>3
  <2>4. Settled'
    BY <1>2, <2>1, <2>2, <2>3 DEF Settled, LastOf
  <2>5. QED
    BY <1>2, <2>1, <2>2, <2>4 DEF OrderlyInv, Alone, MidAudit
<1>6. CASE RefuseFile
  BY <1>2, <1>6 DEF RefuseFile
<1>7. CASE UNCHANGED vars
  <2>1. UNCHANGED <<prev, pc, entry, lastHash, auditLog, lines, lineOpen, torn, phase>>
    BY <1>7 DEF vars
  <2>2. Loaded' = Loaded /\ Parses' /\ Verifies(Loaded)'
    BY <1>2, <2>1, SameFile DEF Verifies
  <2>3. Alone' /\ LastOf(auditLog)' = LastOf(auditLog) /\ (phase' = "down" => lineOpen' = FALSE)
    BY <1>2, <2>1 DEF Alone, LastOf
  <2>4. /\ \A h \in Thread : MidAudit(h)'
        /\ phase = "running" /\ (\A h \in Thread : pc[h] \in {"idle", "revoke"}) => Settled'
    BY <1>1, <2>1, <2>2, <2>3 DEF OrderlyInv, MidAudit, Settled
  <2>5. QED
    BY <1>2, <2>1, <2>2, <2>3, <2>4 DEF OrderlyInv
<1>8. QED
  BY <1>3, <1>4, <1>5, <1>6, <1>7 DEF Next

\* Without a lost write or a stop in the middle of an audit, every restart accepts the
\* file and the log is what the file says, a chain with no break, whenever no audit is
\* under way.
THEOREM OrderlyRestarts == Spec => []FileIsLog
<1>1. Init => OrderlyInv
  BY DEF Init, OrderlyInv, Alone, MidAudit, Settled, LastOf, Parses, Verifies, Loaded
<1>2. ChainInv /\ OrderlyInv /\ [Next]_vars => OrderlyInv'
  BY OrderlyKept
<1>3. OrderlyInv => FileIsLog
  BY DEF OrderlyInv, Settled, FileIsLog, Quiet
<1>4. QED
  BY <1>1, <1>2, <1>3, ChainHolds, PTL DEF Spec

-----------------------------------------------------------------------------
(* Nothing is lost. *)

\* A nonempty set of natural numbers has a least element.
LEMMA LeastNatural ==
  ASSUME NEW T \in SUBSET Nat, T # {}
  PROVE  \E n \in T : \A m \in T : n <= m
<1>1. \A x, y \in Nat : x < y => <<x, y>> \in OpToRel(<, Nat)
  BY DEF OpToRel
<1>2. PICK n \in T : \A m \in T : <<m, n>> \notin OpToRel(<, Nat)
  <2>1. \E n \in T : \A m \in T : <<m, n>> \notin OpToRel(<, Nat)
    BY NatLessThanWellFounded, WFMin
  <2>2. QED
    BY <2>1
<1>3. ASSUME NEW m \in T
      PROVE  n <= m
  <2>1. n \in Nat /\ m \in Nat
    OBVIOUS
  <2>2. ~(m < n)
    BY <1>1, <1>2, <2>1
  <2>3. QED
    BY <2>1, <2>2
<1>4. QED
  BY <1>3

\* Every entry follows an earlier one.
Backwards(p) == \A i \in DOMAIN p : p[i] < i

\* b leads back from each of the first n entries.
Trail(p, n, b) == b = [i \in 0..n |-> IF i = 0 THEN {} ELSE {i} \cup b[p[i]]]

\* Where the chain leads back to from each entry.
Back(p) == CHOOSE b : Trail(p, Len(p), b)

LEMMA TrailGoesOn ==
  ASSUME NEW p \in Seq(Nat), Backwards(p), NEW n \in 1..Len(p), NEW b, Trail(p, n - 1, b)
  PROVE  \E c : Trail(p, n, c)
<1> DEFINE c == [i \in 0..n |-> IF i = n THEN {n} \cup b[p[n]] ELSE b[i]]
<1>1. n \in 0..n /\ 0 # n /\ \A i \in 0..n : i = n \/ i \in 0..(n - 1)
  OBVIOUS
<1>2. ASSUME NEW i \in 1..n
      PROVE  p[i] \in 0..(i - 1) /\ p[i] \in 0..(n - 1) /\ p[i] \in 0..n /\ p[i] # n
  <2>1. i \in 1..Len(p) /\ i \in DOMAIN p /\ p[i] \in Nat
    OBVIOUS
  <2>2. p[i] < i
    BY <2>1 DEF Backwards
  <2>3. QED
    BY <2>1, <2>2
<1>3. \A i \in 0..(n - 1) : b[i] = IF i = 0 THEN {} ELSE {i} \cup b[p[i]]
  <2> DEFINE Step(i) == IF i = 0 THEN {} ELSE {i} \cup b[p[i]]
  <2>1. b = [i \in 0..(n - 1) |-> Step(i)]
    BY DEF Trail
  <2> HIDE DEF Step
  <2>2. \A i \in 0..(n - 1) : b[i] = Step(i)
    BY <2>1
  <2>3. QED
    BY <2>2 DEF Step
<1>4. ASSUME NEW i \in 0..n
      PROVE  c[i] = IF i = 0 THEN {} ELSE {i} \cup c[p[i]]
  <2>1. CASE i = n
    <3>1. n \in 1..n
      BY <1>1
    <3>2. c[n] = {n} \cup b[p[n]] /\ c[p[n]] = b[p[n]]
      BY <1>1, <1>2, <3>1
    <3>3. QED
      BY <1>1, <2>1, <3>2
  <2>2. CASE i # n /\ i # 0
    <3>1. i \in 0..(n - 1) /\ i \in 1..n
      BY <2>2
    <3>2. c[i] = b[i] /\ c[p[i]] = b[p[i]]
      BY <1>2, <2>2, <3>1
    <3>3. QED
      BY <1>3, <2>2, <3>1, <3>2
  <2>3. CASE i # n /\ i = 0
    <3>1. c[i] = b[i] /\ i \in 0..(n - 1)
      BY <1>1, <2>3
    <3>2. QED
      BY <1>3, <2>3, <3>1
  <2>4. QED
    BY <2>1, <2>2, <2>3
<1>5. c = [i \in 0..n |-> c[i]]
  OBVIOUS
<1> HIDE DEF c
<1>6. c = [i \in 0..n |-> IF i = 0 THEN {} ELSE {i} \cup c[p[i]]]
  BY <1>4, <1>5
<1>7. QED
  BY <1>6 DEF Trail

LEMMA TrailExists ==
  ASSUME NEW p \in Seq(Nat), Backwards(p)
  PROVE  Trail(p, Len(p), Back(p))
<1> DEFINE without == {n \in 0..Len(p) : ~\E b : Trail(p, n, b)}
<1>1. SUFFICES without = {}
  <2>1. Len(p) \in 0..Len(p)
    OBVIOUS
  <2>2. (\E b : Trail(p, Len(p), b)) => Trail(p, Len(p), Back(p))
    BY DEF Back
  <2>3. QED
    BY <2>1, <2>2
<1>2. SUFFICES ASSUME without # {}
               PROVE  FALSE
  OBVIOUS
<1>3. PICK n \in without : \A m \in without : n <= m
  <2>1. without \in SUBSET Nat
    OBVIOUS
  <2> HIDE DEF without
  <2>2. QED
    BY <1>2, <2>1, LeastNatural
<1>4. n # 0
  <2> DEFINE b == [i \in 0..0 |-> {}]
  <2>1. \A i \in 0..0 : i = 0
    OBVIOUS
  <2>2. Trail(p, 0, b)
    BY <2>1 DEF Trail
  <2>3. QED
    BY <1>3, <2>2
<1>5. n \in 1..Len(p) /\ n - 1 \in 0..Len(p) /\ ~(n <= n - 1)
  BY <1>3, <1>4
<1>6. PICK b : Trail(p, n - 1, b)
  BY <1>3, <1>5
<1>7. QED
  BY <1>3, <1>5, <1>6, TrailGoesOn

\* Where the chain leads back to, one entry at a time.
LEMMA BackUnfolds ==
  ASSUME NEW p \in Seq(Nat), Backwards(p)
  PROVE  /\ Back(p)[0] = {}
         /\ \A i \in 1..Len(p) : Back(p)[i] = {i} \cup Back(p)[p[i]]
<1> DEFINE b == Back(p)
           Step(i) == IF i = 0 THEN {} ELSE {i} \cup b[p[i]]
<1>1. b = [i \in 0..Len(p) |-> Step(i)]
  BY TrailExists DEF Trail
<1> HIDE DEF Step, b
<1>2. \A i \in 0..Len(p) : b[i] = Step(i)
  BY <1>1
<1>3. 0 \in 0..Len(p) /\ \A i \in 1..Len(p) : i \in 0..Len(p) /\ i # 0
  OBVIOUS
<1>4. QED
  BY <1>2, <1>3 DEF Step, b

\* What is linked later does not change where the chain leads back to from before.
LEMMA BackStays ==
  ASSUME NEW p \in Seq(Nat), Backwards(p), NEW q \in Seq(Nat), Backwards(q),
         Len(p) <= Len(q), \A i \in 1..Len(p) : q[i] = p[i]
  PROVE  \A i \in 0..Len(p) : Back(q)[i] = Back(p)[i]
<1> DEFINE differ == {i \in 0..Len(p) : Back(q)[i] # Back(p)[i]}
<1>1. SUFFICES ASSUME differ # {}
               PROVE  FALSE
  OBVIOUS
<1>2. PICK i \in differ : \A j \in differ : i <= j
  <2>1. differ \in SUBSET Nat
    OBVIOUS
  <2> HIDE DEF differ
  <2>2. QED
    BY <1>1, <2>1, LeastNatural
<1>3. i # 0
  BY <1>2, BackUnfolds
<1>4. i \in 1..Len(p) /\ i \in 1..Len(q) /\ q[i] = p[i]
  <2>1. Len(p) \in Nat /\ Len(q) \in Nat
    OBVIOUS
  <2>2. QED
    BY <1>2, <1>3, <2>1
<1>5. p[i] \in 0..Len(p) /\ ~(i <= p[i])
  <2>1. i \in DOMAIN p /\ p[i] \in Nat
    BY <1>4
  <2>2. p[i] < i
    BY <2>1 DEF Backwards
  <2>3. QED
    BY <1>4, <2>1, <2>2
<1>6. Back(q)[p[i]] = Back(p)[p[i]]
  BY <1>2, <1>5
<1>7. /\ Back(p)[i] = {i} \cup Back(p)[p[i]]
      /\ Back(q)[i] = {i} \cup Back(q)[q[i]]
  BY <1>4, BackUnfolds
<1>8. Back(q)[i] = Back(p)[i]
  BY <1>4, <1>6, <1>7
<1>9. QED
  BY <1>2, <1>8

\* What the head leads back to is in the log or in hand, nothing is in both, and nothing
\* is twice in the log; every entry follows an earlier one.
LostInv ==
  /\ Backwards(prev)
  /\ phase = "running" =>
       /\ Back(prev)[lastHash] = Logged \cup InHand
       /\ Logged \cap InHand = {}
       /\ \A i, j \in DOMAIN auditLog : auditLog[i] = auditLog[j] => i = j

LEMMA ChainBackIsBack == ChainBack = Back(prev)[lastHash]
BY DEF ChainBack, Back, Trail

\* The chain that a file verifies as leads back, from each line, to the lines before it.
LEMMA FileLeadsBack ==
  ASSUME ShapeOK, HeadOK, Backwards(prev), NEW log \in Seq(1..Len(prev)), Verifies(log)
  PROVE  \A n \in 1..Len(log) : Back(prev)[log[n]] = {log[i] : i \in 1..n}
<1> DEFINE wrong == {n \in 1..Len(log) : Back(prev)[log[n]] # {log[i] : i \in 1..n}}
<1>1. SUFFICES ASSUME wrong # {}
               PROVE  FALSE
  OBVIOUS
<1>2. PICK n \in wrong : \A m \in wrong : n <= m
  <2>1. wrong \in SUBSET Nat
    OBVIOUS
  <2> HIDE DEF wrong
  <2>2. QED
    BY <1>1, <2>1, LeastNatural
<1>3. n \in 1..Len(log) /\ log[n] \in 1..Len(prev)
  BY <1>2
<1>4. Back(prev)[log[n]] = {log[n]} \cup Back(prev)[prev[log[n]]]
  <2>1. prev \in Seq(Nat)
    BY DEF ShapeOK
  <2>2. QED
    BY <1>3, <2>1, BackUnfolds
<1>5. prev[log[n]] = IF n = 1 THEN 0 ELSE log[n - 1]
  BY <1>3 DEF Verifies
<1>6. CASE n = 1
  <2>1. Back(prev)[0] = {}
    <3>1. prev \in Seq(Nat)
      BY DEF ShapeOK
    <3>2. QED
      BY <3>1, BackUnfolds
  <2>2. {log[i] : i \in 1..n} = {log[n]}
    BY <1>6
  <2>3. Back(prev)[log[n]] = {log[n]}
    BY <1>4, <1>5, <1>6, <2>1
  <2>4. QED
    BY <1>2, <2>2, <2>3
<1>7. CASE n # 1
  <2>1. n - 1 \in 1..Len(log) /\ ~(n <= n - 1)
    BY <1>3, <1>7
  <2>2. Back(prev)[log[n - 1]] = {log[i] : i \in 1..(n - 1)}
    BY <1>2, <2>1
  <2>3. {log[i] : i \in 1..n} = {log[n]} \cup {log[i] : i \in 1..(n - 1)}
    <3>1. 1..n = {n} \cup 1..(n - 1)
      BY <1>3
    <3>2. QED
      BY <3>1
  <2>4. Back(prev)[log[n]] = {log[i] : i \in 1..n}
    BY <1>4, <1>5, <1>7, <2>2, <2>3
  <2>5. QED
    BY <1>2, <2>4
<1>8. QED
  BY <1>6, <1>7

\* A thread links an entry: it is in hand, and leads back to where the head led.
LEMMA LinkLosesNothing ==
  ASSUME ChainInv, LostInv, NEW h \in Thread, NEW what \in Stamp \cup {Decision}, Link(h, what)
  PROVE  LostInv'
<1> DEFINE e == Len(prev) + 1
<1>1. /\ phase = "running" /\ phase' = phase /\ auditLog' = auditLog
      /\ entry' = [entry EXCEPT ![h] = e] /\ entry \in [Thread -> Nat] /\ entry[h] = 0
      /\ lastHash' = e /\ prev' = Append(prev, lastHash) /\ prev \in Seq(Nat)
      /\ lastHash \in 0..Len(prev) /\ Live \subseteq 1..Len(prev)
  BY DEF Link, ChainInv, ShapeOK, HandsOK, HeadOK
<1>2. /\ e \in Nat /\ e # 0 /\ e \notin 1..Len(prev) /\ Len(prev') = e
      /\ prev' \in Seq(Nat) /\ prev'[e] = lastHash /\ DOMAIN prev' = 1..e
      /\ Len(prev) <= Len(prev') /\ \A i \in 1..Len(prev) : prev'[i] = prev[i]
      /\ \A i \in 1..e : i = e \/ i \in 1..Len(prev)
      /\ e \in 1..e /\ DOMAIN prev = 1..Len(prev)
  BY <1>1
<1>3. Backwards(prev')
  <2>1. lastHash < e
    BY <1>1
  <2>2. \A i \in 1..Len(prev) : prev[i] < i
    BY <1>2 DEF LostInv, Backwards
  <2> HIDE DEF e
  <2>3. QED
    BY <1>2, <2>1, <2>2 DEF Backwards
<1> HIDE DEF e
<1>4. Back(prev')[e] = {e} \cup Back(prev)[lastHash]
  <2>1. Back(prev')[e] = {e} \cup Back(prev')[lastHash]
    BY <1>2, <1>3, BackUnfolds
  <2>2. Back(prev')[lastHash] = Back(prev)[lastHash]
    <3>1. Backwards(prev)
      BY DEF LostInv
    <3>2. \A i \in 0..Len(prev) : Back(prev')[i] = Back(prev)[i]
      BY <1>1, <1>2, <1>3, <3>1, BackStays
    <3>3. QED
      BY <1>1, <3>2
  <2>3. QED
    BY <2>1, <2>2
<1>5. Logged' = Logged /\ InHand' = InHand \cup {e}
  BY <1>1, <1>2 DEF Logged, InHand
<1>6. e \notin Logged
  BY <1>1, <1>2 DEF Live
<1>7. QED
  BY <1>1, <1>3, <1>4, <1>5, <1>6 DEF LostInv

\* The other steps of a thread keep what is in the log or in hand.
LEMMA StepsLoseNothing ==
  ASSUME ChainInv, LostInv, NEW h \in Thread,
         WriteEntry(h) \/ WriteNewline(h) \/ FailWrite(h) \/ TearWrite(h) \/ Push(h) \/ Revoke(h)
  PROVE  LostInv'
<1>1. phase' = phase /\ prev' = prev /\ lastHash' = lastHash
  BY DEF WriteEntry, WriteNewline, FailWrite, TearWrite, Push, Revoke
<1>2. CASE ~Push(h)
  <2>1. auditLog' = auditLog /\ entry' = entry
    BY <1>2 DEF WriteEntry, WriteNewline, FailWrite, TearWrite, Revoke
  <2>2. Logged' = Logged /\ InHand' = InHand
    BY <2>1 DEF Logged, InHand
  <2>3. QED
    BY <1>1, <2>1, <2>2 DEF LostInv
<1>3. CASE Push(h)
  <2> DEFINE e == entry[h]
  <2>1. /\ auditLog' = Append(auditLog, e) /\ auditLog \in Seq(Nat) /\ e \in Nat /\ e # 0
        /\ entry' = [entry EXCEPT ![h] = 0] /\ entry \in [Thread -> Nat]
        /\ \A g \in Thread : g # h => entry[g] # e
    BY <1>3 DEF Push, ChainInv, ShapeOK, HandsOK
  <2>2. e \in InHand
    BY <2>1 DEF InHand
  <2>3. InHand' = InHand \ {e}
    BY <2>1 DEF InHand
  <2> HIDE DEF e
  <2> DEFINE n == Len(auditLog) + 1
  <2>4. /\ DOMAIN auditLog' = DOMAIN auditLog \cup {n} /\ auditLog'[n] = e
        /\ \A i \in DOMAIN auditLog : auditLog'[i] = auditLog[i]
    BY <2>1
  <2> HIDE DEF n
  <2>5. Logged' = Logged \cup {e}
    BY <2>4 DEF Logged
  <2>6. ASSUME phase = "running"
        PROVE  \A i, j \in DOMAIN auditLog' : auditLog'[i] = auditLog'[j] => i = j
    <3>1. e \notin Logged
      BY <2>2, <2>6 DEF LostInv
    <3>2. \A i \in DOMAIN auditLog : auditLog[i] # e
      BY <3>1 DEF Logged
    <3>3. \A i, j \in DOMAIN auditLog : auditLog[i] = auditLog[j] => i = j
      BY <2>6 DEF LostInv
    <3>4. QED
      BY <2>4, <3>2, <3>3
  <2>7. QED
    BY <1>1, <2>2, <2>3, <2>5, <2>6 DEF LostInv
<1>4. QED
  BY <1>2, <1>3

\* A restart takes the log, and the head, from the file.
LEMMA RestartLosesNothing ==
  ASSUME ChainInv, LostInv, Reopen
  PROVE  LostInv'
<1>1. /\ prev' = prev /\ auditLog' = Loaded /\ Parses /\ Verifies(Loaded) /\ entry' = entry
      /\ lastHash' = IF lines = <<>> THEN 0 ELSE Loaded[Len(lines)]
      /\ lines \in Seq(Seq(Nat)) /\ prev \in Seq(Nat)
      /\ \A h \in Thread : entry[h] = 0
  BY DEF Reopen, ChainInv, ShapeOK, HandsOK
<1>2. InHand' = {}
  BY <1>1 DEF InHand
<1> DEFINE log == Loaded
<1>3. log \in Seq(1..Len(prev)) /\ Len(log) = Len(lines) /\ DOMAIN log = 1..Len(lines)
  <2>1. ASSUME NEW i \in 1..Len(lines)
        PROVE  lines[i][1] \in 1..Len(prev)
    <3>1. i \in DOMAIN lines /\ 1 \in DOMAIN lines[i]
      <4>1. i \in DOMAIN lines /\ lines[i] \in Seq(Nat)
        BY <1>1
      <4>2. Len(lines[i]) = 1
        BY <1>1, <4>1 DEF Parses
      <4>3. QED
        BY <4>1, <4>2
    <3>2. lines[i][1] \in Written
      BY <3>1 DEF Written
    <3>3. QED
      BY <3>2 DEF ChainInv, HeadOK, Live
  <2>2. log = [i \in 1..Len(lines) |-> lines[i][1]] /\ Len(lines) \in Nat
    BY <1>1 DEF Loaded
  <2> HIDE DEF log
  <2>3. QED
    BY <2>1, <2>2
<1>4. \A i, j \in DOMAIN log : log[i] = log[j] => i = j
  <2>1. SUFFICES ASSUME NEW i \in DOMAIN log, NEW j \in DOMAIN log, log[i] = log[j]
                 PROVE  i = j
    OBVIOUS
  <2>2. i \in DOMAIN lines /\ j \in DOMAIN lines /\ 1 \in DOMAIN lines[i] /\ 1 \in DOMAIN lines[j]
    BY <1>1, <1>3 DEF Parses
  <2>3. lines[i][1] = lines[j][1]
    BY <1>1, <2>1, <2>2 DEF Loaded
  <2>4. QED
    BY <2>2, <2>3 DEF ChainInv, Once
<1>5. Verifies(log)
  BY <1>1
<1> HIDE DEF log
<1>6. Logged' = {log[i] : i \in DOMAIN log}
  BY <1>1 DEF Logged, log
<1>7. Back(prev)[lastHash'] = {log[i] : i \in DOMAIN log}
  <2>1. CASE lines = <<>>
    <3>1. lastHash' = 0 /\ DOMAIN log = {}
      BY <1>1, <1>3, <2>1
    <3>2. Back(prev)[0] = {}
      BY <1>1, BackUnfolds DEF LostInv
    <3>3. QED
      BY <3>1, <3>2
  <2>2. CASE lines # <<>>
    <3>1. Len(lines) \in 1..Len(log) /\ lastHash' = log[Len(lines)]
      BY <1>1, <1>3, <2>2 DEF log
    <3>2. \A n \in 1..Len(log) : Back(prev)[log[n]] = {log[i] : i \in 1..n}
      BY <1>3, <1>5, FileLeadsBack DEF ChainInv, LostInv
    <3>3. QED
      BY <1>3, <3>1, <3>2
  <2>3. QED
    BY <2>1, <2>2
<1>8. QED
  BY <1>1, <1>2, <1>4, <1>6, <1>7 DEF LostInv, log

\* Whatever the chain head leads back to is in the log of the process or about to be, and
\* once, even if the file lost it, across lost writes and restarts.
THEOREM MemoryIsComplete == Spec => []NothingLost
<1>1. Init => LostInv
  <2> SUFFICES ASSUME Init
               PROVE  LostInv
    OBVIOUS
  <2>1. prev = <<>> /\ lastHash = 0 /\ auditLog = <<>> /\ \A h \in Thread : entry[h] = 0
    BY DEF Init
  <2>2. prev \in Seq(Nat) /\ Backwards(prev)
    BY <2>1 DEF Backwards
  <2>3. Back(prev)[lastHash] = {}
    BY <2>1, <2>2, BackUnfolds
  <2>4. Logged = {} /\ InHand = {}
    BY <2>1 DEF Logged, InHand
  <2>5. QED
    BY <2>1, <2>2, <2>3, <2>4 DEF LostInv
<1>2. ChainInv /\ LostInv /\ [Next]_vars => LostInv'
  <2> SUFFICES ASSUME ChainInv, LostInv, [Next]_vars
               PROVE  LostInv'
    OBVIOUS
  <2>1. ASSUME NEW h \in Thread, ThreadStep(h)
        PROVE  LostInv'
    BY <2>1, LinkLosesNothing, StepsLoseNothing DEF ThreadStep
  <2>2. CASE Stop \/ RefuseFile
    BY <2>2 DEF Stop, RefuseFile, LostInv
  <2>3. CASE UNCHANGED vars
    BY <2>3 DEF vars, LostInv, Logged, InHand
  <2>4. QED
    BY <2>1, <2>2, <2>3, RestartLosesNothing DEF Next
<1>3. LostInv => NothingLost
  BY ChainBackIsBack DEF LostInv, NothingLost
<1>4. QED
  BY <1>1, <1>2, <1>3, ChainHolds, PTL DEF Spec
=============================================================================
