------------------------ MODULE DurableFiles_proofs ------------------------
(***************************************************************************)
(* Proofs about the two kinds of file that must survive a crash, for every *)
(* set of processes and every bound.                                       *)
(*                                                                         *)
(* JournalFile: type correctness, and the four properties the run checks.  *)
(* ManifestStore: what save() answered stays the manifest of its           *)
(* deployment, and commissioning history is not rewritten.                 *)
(***************************************************************************)
EXTENDS JournalFile, ManifestStore, SequenceTheorems, TLAPS

-----------------------------------------------------------------------------
(* Sequences of records.                                                   *)

\* _verify: the verified prefix and what follows it are the whole file.
LEMMA VerifiedIsWhole ==
  ASSUME TypeOK, NEW p \in Processes
  PROVE  Verified(p) = lines
<1> DEFINE v == view[p]
<1>1. v \in Seq(Record) /\ lines \in Seq(Record) /\ Len(v) \in Nat /\ Len(lines) \in Nat
  BY LenProperties DEF TypeOK
<1>2. CASE ~IsPrefix(v, lines)
  BY <1>2 DEF Verified, PrefixUnchanged
<1>3. CASE IsPrefix(v, lines)
  <2>1. Len(v) <= Len(lines) /\ SubSeq(v, 1, Len(v)) = SubSeq(lines, 1, Len(v))
    BY <1>3 DEF IsPrefix
  <2>2. v = SubSeq(lines, 1, Len(v))
    BY <1>1, <2>1, SubSeqFull
  <2>3. SubSeq(lines, 1, Len(v)) \o SubSeq(lines, Len(v) + 1, Len(lines)) = SubSeq(lines, 1, Len(lines))
    <3>1. 1 \in 1 .. Len(lines) + 1 /\ Len(v) \in 1 - 1 .. Len(lines) /\ Len(lines) \in Len(v) .. Len(lines)
      BY <1>1, <2>1
    <3> HIDE DEF v
    <3> QED
      BY <1>1, <3>1, ConcatAdjacentSubSeq
  <2>4. v \o SubSeq(lines, Len(v) + 1, Len(lines)) = lines
    BY <1>1, <2>2, <2>3, SubSeqFull
  <2> QED
    BY <1>3, <2>4 DEF Verified, PrefixUnchanged
<1> QED
  BY <1>2, <1>3

\* The lines of one append: how many they are and what they are.
LEMMA NewLinesFacts ==
  ASSUME TypeOK, NEW p \in Processes, NEW n \in Nat
  PROVE  /\ NewLines(p, n) \in Seq(Record)
         /\ Len(NewLines(p, n)) = n
         /\ \A i \in 1 .. n : /\ NewLines(p, n)[i].seq = Len(view[p]) + i
                              /\ NewLines(p, n)[i].id = issued + i
<1>1. Len(view[p]) \in Nat /\ issued \in Nat
  BY LenProperties DEF TypeOK
<1>2. \A i \in 1 .. n : [seq |-> Len(view[p]) + i, id |-> issued + i] \in Record
  BY <1>1 DEF Record
<1> DEFINE b == NewLines(p, n)
<1>3. b \in [1 .. n -> Record]
  BY <1>2 DEF NewLines
<1>4. b \in Seq(Record)
  BY <1>3, SeqDef
<1>5. Len(b) = n
  <2>1. Len(b) \in Nat /\ 1 .. Len(b) = 1 .. n
    <3> HIDE DEF b
    <3>1. DOMAIN b = 1 .. n
      BY <1>3
    <3>2. DOMAIN b = 1 .. Len(b) /\ Len(b) \in Nat
      BY <1>4, LenProperties
    <3> QED
      BY <3>1, <3>2
  <2> QED
    BY <2>1
<1>6. \A i \in 1 .. n : b[i] = [seq |-> Len(view[p]) + i, id |-> issued + i]
  BY DEF NewLines
<1> QED
  BY <1>4, <1>5, <1>6

\* What follows the old lines are the new ones.
LEMMA Appended ==
  ASSUME NEW s \in Seq(Record), NEW b \in Seq(Record)
  PROVE  /\ s \o b \in Seq(Record) /\ Len(s \o b) = Len(s) + Len(b)
         /\ Len(s) \in Nat /\ Len(b) \in Nat
         /\ \A i \in 1 .. Len(s) : (s \o b)[i] = s[i]
         /\ \A i \in 1 .. Len(b) : (s \o b)[Len(s) + i] = b[i]
         /\ \A i \in Len(s) + 1 .. Len(s) + Len(b) : i - Len(s) \in 1 .. Len(b) /\ (s \o b)[i] = b[i - Len(s)]
<1>1. Len(s) \in Nat /\ Len(b) \in Nat
  BY LenProperties
<1> QED
  BY <1>1

\* What a loss of power leaves of the lines.
LEMMA PrefixFacts ==
  ASSUME TypeOK, NEW n \in durable .. Len(lines)
  PROVE  /\ n \in Nat /\ n <= Len(lines) /\ SubSeq(lines, 1, n) \in Seq(Record) /\ Len(SubSeq(lines, 1, n)) = n
         /\ \A i \in 1 .. n : SubSeq(lines, 1, n)[i] = lines[i]
<1>1. lines \in Seq(Record) /\ durable \in 0 .. Len(lines) /\ Len(lines) \in Nat
  BY LenProperties DEF TypeOK
<1>2. n \in Nat /\ n <= Len(lines) /\ \A i \in 1 .. n : lines[i] \in Record
  BY <1>1, ElementOfSeq
<1>3. 1 \in Int /\ n \in Int /\ (IF 1 <= n THEN n - 1 + 1 ELSE 0) = n /\ 1 .. n = 1 .. n - 1 + 1
      /\ \A i \in 1 .. n : 1 + i - 1 = i
  BY <1>2
<1>4. /\ SubSeq(lines, 1, n) \in Seq(Record) /\ Len(SubSeq(lines, 1, n)) = n
      /\ \A i \in 1 .. n : SubSeq(lines, 1, n)[i] = lines[1 + i - 1]
  BY <1>2, <1>3, SubSeqProperties
<1> QED
  BY <1>2, <1>3, <1>4

\* The last line of a lock holder's append is the last line of the file, under its own number.
LEMMA LastLine ==
  ASSUME TypeOK, LockInv, IssuedInv, NEW p \in Processes, Writing(p)
  PROVE  /\ Len(lines) \in Nat \ {0} /\ Last(batch[p]) = Last(lines)
         /\ Last(lines) \in Record /\ Last(lines).seq = Len(lines)
         /\ Last(lines).id <= issued /\ Len(batch[p]) \in Nat \ {0}
<1>1. /\ view[p] \in Seq(Record) /\ batch[p] \in Seq(Record) /\ lines \in Seq(Record)
      /\ batch[p] # <<>> /\ view[p] \o batch[p] = lines
  BY DEF TypeOK, LockInv
<1>2. Len(batch[p]) \in Nat \ {0} /\ Len(view[p]) \in Nat
  BY <1>1, EmptySeq, LenProperties
<1> DEFINE v == view[p]
           b == batch[p]
<1>3. Len(lines) = Len(v) + Len(b) /\ \A i \in 1 .. Len(b) : lines[Len(v) + i] = b[i]
  <2>1. Len(v \o b) = Len(v) + Len(b) /\ \A i \in 1 .. Len(b) : (v \o b)[Len(v) + i] = b[i]
    <3> HIDE DEF v, b
    <3> QED
      BY <1>1, Appended
  <2> QED
    BY <1>1, <2>1
<1>4. lines[Len(lines)] = b[Len(b)] /\ Len(lines) \in Nat \ {0}
  <2>1. Len(b) \in 1 .. Len(b)
    BY <1>2
  <2> HIDE DEF v, b
  <2>2. lines[Len(v) + Len(b)] = b[Len(b)]
    BY <1>3, <2>1
  <2>3. Len(b) \in Nat \ {0} /\ Len(v) \in Nat
    BY <1>2 DEF v, b
  <2> QED
    BY <1>3, <2>2, <2>3
<1>5. Last(batch[p]) = Last(lines) /\ Last(lines) = lines[Len(lines)]
  BY <1>4 DEF Last
<1>6. lines[Len(lines)] \in Record
  BY <1>1, <1>4, ElementOfSeq
<1>7. lines[Len(lines)].seq = Len(lines) /\ lines[Len(lines)].id <= issued
  BY <1>4 DEF IssuedInv, Numbered
<1> QED
  BY <1>2, <1>4, <1>5, <1>6, <1>7
-----------------------------------------------------------------------------
(* Type correctness.                                                       *)

Inv == TypeOK /\ JournalInv

LEMMA InitialInv == Init => Inv
<1> SUFFICES ASSUME Init PROVE Inv
  OBVIOUS
<1>1. TypeOK
  <2>1. <<>> \in Seq(Record) /\ Len(<<>>) = 0
    BY EmptySeq
  <2>2. lines \in Seq(Record) /\ durable \in 0 .. Len(lines)
    BY <2>1 DEF Init
  <2>3. view \in [Processes -> Seq(Record)] /\ batch \in [Processes -> Seq(Record)]
    BY <2>1 DEF Init
  <2> QED
    BY <2>2, <2>3 DEF Init, TypeOK, Anchors, Verdicts
<1>2. Len(<<>>) = 0 /\ \A p \in Processes : Len(batch[p]) = 0
  BY DEF Init
<1>3. LockInv
  BY JournalAssumption DEF Init, LockInv, Holds, Writing
<1>4. IssuedInv /\ AnchorInv /\ AnchorNeverLeads
  BY <1>2 DEF Init, IssuedInv, Numbered, AnchorInv, Holds, AnchorNeverLeads
<1> QED
  BY <1>1, <1>3, <1>4 DEF Inv, JournalInv

\* The lines a write leaves behind, whole or cut short, are lines.
LEMMA WrittenLines ==
  ASSUME TypeOK, NEW p \in Processes, NEW n \in 1 .. MaxBatch, NEW k \in 0 .. n
  PROVE  /\ SubSeq(NewLines(p, n), 1, k) \in Seq(Record)
         /\ Len(SubSeq(NewLines(p, n), 1, k)) = k
         /\ \A i \in 1 .. k : SubSeq(NewLines(p, n), 1, k)[i] = NewLines(p, n)[i]
<1>1. n \in Nat /\ k \in Nat
  BY JournalAssumption
<1> DEFINE b == NewLines(p, n)
<1>2. b \in Seq(Record) /\ Len(b) = n
  BY <1>1, NewLinesFacts
<1>3. \A i \in 1 .. k : b[i] \in Record
  <2> HIDE DEF b
  <2> QED
    BY <1>1, <1>2, ElementOfSeq
<1>4. 1 \in Int /\ k \in Int /\ (IF 1 <= k THEN k - 1 + 1 ELSE 0) = k /\ 1 .. k = 1 .. k - 1 + 1
      /\ \A i \in 1 .. k : 1 + i - 1 = i
  BY <1>1
<1> HIDE DEF b
<1>5. SubSeq(b, 1, k) \in Seq(Record) /\ Len(SubSeq(b, 1, k)) = k /\ \A i \in 1 .. k : SubSeq(b, 1, k)[i] = b[1 + i - 1]
  BY <1>1, <1>3, <1>4, SubSeqProperties
<1> QED
  BY <1>4, <1>5 DEF b

\* _check_anchor: what the verdict is on lines of the right type.
LEMMA AnchorVerdictType ==
  ASSUME TypeOK, NEW s \in Seq(Record)
  PROVE  /\ AnchorVerdict(s) \in Verdicts
         /\ AnchorVerdict(s) = "ok" => \/ anchor = NoAnchor /\ s = <<>>
                                       \/ anchor # NoAnchor /\ anchor.records <= Len(s) /\ s[anchor.records] = anchor.last
<1>1. Len(s) \in Nat /\ (anchor # NoAnchor => anchor.records \in Nat)
  BY LenProperties DEF TypeOK, Anchors
<1>2. CASE anchor = NoAnchor
  BY <1>2 DEF AnchorVerdict, Verdicts
<1>3. CASE anchor # NoAnchor /\ Len(s) < anchor.records
  BY <1>1, <1>3 DEF AnchorVerdict, Verdicts
<1>4. CASE anchor # NoAnchor /\ Len(s) >= anchor.records
  BY <1>1, <1>4 DEF AnchorVerdict, Verdicts
<1> QED
  BY <1>1, <1>2, <1>3, <1>4

LEMMA VerdictType ==
  ASSUME TypeOK, NEW p \in Processes
  PROVE  Verdict(p) \in Verdicts
<1>1. AnchorVerdict(Verified(p)) \in Verdicts
  BY VerifiedIsWhole, AnchorVerdictType DEF TypeOK
<1> QED
  BY <1>1 DEF Verdict, Verdicts

\* Every step keeps the types.
LEMMA TypeStep ==
  ASSUME TypeOK, LockInv, IssuedInv, [Next]_vars
  PROVE  TypeOK'
<1> USE DEF TypeOK
<1>1. ASSUME NEW p \in Processes, Read(p) PROVE TypeOK'
  BY <1>1, VerifiedIsWhole, VerdictType DEF Read, End, diskVars, worldVars, historyVars
<1>2. ASSUME NEW p \in Processes, ReadAbsent(p) PROVE TypeOK'
  BY <1>2 DEF ReadAbsent, diskVars, worldVars, historyVars
<1>3. ASSUME NEW p \in Processes, ReadAnchorOfAbsent(p) PROVE TypeOK'
  <2>1. AnchorVerdict(<<>>) \in Verdicts
    BY EmptySeq, AnchorVerdictType
  <2> QED
    BY <1>3, <2>1 DEF ReadAnchorOfAbsent, End, diskVars, worldVars, historyVars
<1>4. ASSUME NEW p \in Processes, Open(p) PROVE TypeOK'
  BY <1>4 DEF Open, worldVars, historyVars
<1>5. ASSUME NEW p \in Processes, Lock(p) PROVE TypeOK'
  BY <1>5, VerifiedIsWhole, VerdictType DEF Lock, End, diskVars, worldVars, historyVars
<1>6. ASSUME NEW p \in Processes, DecideNothing(p) PROVE TypeOK'
  BY <1>6 DEF DecideNothing, End, diskVars, worldVars, historyVars, Verdicts
<1>7. ASSUME NEW p \in Processes, Write(p) PROVE TypeOK'
  <2>1. PICK n \in 1 .. MaxBatch : /\ batch' = [batch EXCEPT ![p] = NewLines(p, n)]
                                   /\ lines' = lines \o NewLines(p, n) /\ issued' = issued + n
    BY <1>7 DEF Write
  <2>2. n \in Nat
    BY JournalAssumption
  <2>3. NewLines(p, n) \in Seq(Record) /\ Len(NewLines(p, n)) = n
    BY <2>2, NewLinesFacts
  <2>4. lines' \in Seq(Record) /\ Len(lines') = Len(lines) + n /\ Len(lines) \in Nat
    <3>1. lines \in Seq(Record)
      OBVIOUS
    <3>2. lines \o NewLines(p, n) \in Seq(Record)
      BY <2>3, <3>1
    <3>3. Len(lines \o NewLines(p, n)) = Len(lines) + n /\ Len(lines) \in Nat
      BY <2>3, <3>1, Appended
    <3> QED
      BY <2>1, <3>2, <3>3
  <2>5. durable' \in 0 .. Len(lines') /\ issued' \in Nat
    <3>1. durable' = durable /\ durable \in 0 .. Len(lines)
      BY <1>7 DEF Write
    <3> QED
      BY <2>1, <2>2, <2>4, <3>1
  <2>6. batch' \in [Processes -> Seq(Record)]
    BY <2>1, <2>3
  <2> QED
    BY <1>7, <2>4, <2>5, <2>6 DEF Write, worldVars
<1>8. ASSUME NEW p \in Processes, Sync(p) PROVE TypeOK'
  <2>1. Len(lines) \in 0 .. Len(lines)
    BY LenProperties
  <2> QED
    BY <1>8, <2>1 DEF Sync, worldVars, historyVars
<1>9. ASSUME NEW p \in Processes, WriteAnchor(p) PROVE TypeOK'
  <2>1. Last(batch[p]) \in Record /\ Last(batch[p]).seq \in Nat \ {0}
    BY <1>9, LastLine DEF WriteAnchor, Writing
  <2> QED
    BY <1>9, <2>1 DEF WriteAnchor, Anchors, worldVars, historyVars
<1>10. ASSUME NEW p \in Processes, Return(p) PROVE TypeOK'
  <2>1. ToSet(batch[p]) \subseteq Record
    BY ElementOfSeq, LenProperties DEF ToSet
  <2>2. batch' \in [Processes -> Seq(Record)]
    BY <1>10, EmptySeq DEF Return
  <2> QED
    BY <1>10, <2>1, <2>2 DEF Return, End, Verdicts, worldVars
<1>11. ASSUME NEW p \in Processes, Die(p) PROVE (owner \in Processes \cup {NoProcess}
          /\ pc \in [Processes -> {"idle", "absent", "opened", "deciding", "written", "synced", "anchored"}]
          /\ view \in [Processes -> Seq(Record)] /\ batch \in [Processes -> Seq(Record)]
          /\ verdict \in [Processes -> Verdicts])'
  BY <1>11, EmptySeq DEF Die, Verdicts
<1>12. ASSUME NEW p \in Processes, Crash(p) PROVE TypeOK'
  BY <1>11, <1>12 DEF Crash, diskVars, worldVars, historyVars
<1>13. ASSUME NEW p \in Processes, CrashWriting(p) PROVE TypeOK'
  <2>1. PICK n \in 1 .. MaxBatch : /\ \E k \in 0 .. n : lines' = lines \o SubSeq(NewLines(p, n), 1, k)
                                   /\ issued' = issued + n
    BY <1>13 DEF CrashWriting
  <2>2. PICK k \in 0 .. n : lines' = lines \o SubSeq(NewLines(p, n), 1, k)
    BY <2>1
  <2>3. n \in Nat /\ k \in Nat
    BY JournalAssumption
  <2>4. SubSeq(NewLines(p, n), 1, k) \in Seq(Record) /\ Len(SubSeq(NewLines(p, n), 1, k)) = k
    BY WrittenLines
  <2>5. lines' \in Seq(Record) /\ Len(lines') = Len(lines) + k /\ Len(lines) \in Nat
    BY <2>2, <2>4, Appended
  <2>6. durable' \in 0 .. Len(lines') /\ issued' \in Nat
    BY <1>13, <2>1, <2>3, <2>5 DEF CrashWriting
  <2> QED
    BY <1>11, <1>13, <2>5, <2>6 DEF CrashWriting, worldVars
<1>14. CASE PowerFailure
  <2>1. PICK n \in durable .. Len(lines) : lines' = SubSeq(lines, 1, n) /\ durable' = n
    BY <1>14 DEF PowerFailure
  <2>2. lines' \in Seq(Record) /\ Len(lines') = n
    BY <2>1, PrefixFacts
  <2>3. durable' \in 0 .. Len(lines')
    BY <2>1, <2>2
  <2>4. view' \in [Processes -> Seq(Record)] /\ batch' \in [Processes -> Seq(Record)]
    BY <1>14, EmptySeq DEF PowerFailure
  <2>5. torn' \in BOOLEAN
    BY <1>14 DEF PowerFailure
  <2> QED
    BY <1>14, <2>2, <2>3, <2>4, <2>5 DEF PowerFailure, Verdicts, worldVars, historyVars
<1>15. CASE Outside
  <2>1. CASE Copy
    BY <2>1 DEF Copy, diskVars, processVars, historyVars
  <2>2. CASE PutBack
    <3>1. PICK c \in copies : lines' = c /\ durable' = Len(c)
      BY <2>2 DEF PutBack
    <3>2. lines' \in Seq(Record) /\ durable' \in 0 .. Len(lines')
      BY <3>1, LenProperties
    <3> QED
      BY <2>2, <3>2 DEF PutBack, processVars, historyVars
  <2>3. CASE Delete
    <3>1. lines' \in Seq(Record) /\ durable' \in 0 .. Len(lines')
      BY <2>3, EmptySeq DEF Delete
    <3> QED
      BY <2>3, <3>1 DEF Delete, processVars, historyVars
  <2>4. CASE DiscardAnchor
    <3>1. view' \in [Processes -> Seq(Record)]
      BY <2>4, EmptySeq DEF DiscardAnchor
    <3> QED
      BY <2>4, <3>1 DEF DiscardAnchor, Anchors
  <2> QED
    BY <1>15, <2>1, <2>2, <2>3, <2>4 DEF Outside
<1>16. CASE UNCHANGED vars
  BY <1>16 DEF vars, diskVars, processVars, worldVars, historyVars
<1> QED
  BY <1>1, <1>2, <1>3, <1>4, <1>5, <1>6, <1>7, <1>8, <1>9, <1>10, <1>12, <1>13, <1>14, <1>15, <1>16
  DEF Next, Step, AppendVia, Failure

-----------------------------------------------------------------------------
(* The lock: what one process must show, and what the others keep.         *)

Mine(p) ==
  /\ Holds(p) <=> owner = p
  /\ pc[p] = "deciding" => view[p] = lines
  /\ Writing(p) => batch[p] # <<>> /\ view[p] \o batch[p] = lines
  /\ ~Writing(p) => batch[p] = <<>>
  /\ pc[p] \in {"synced", "anchored"} => durable = Len(lines)
  /\ pc[p] = "anchored" => anchor = [records |-> Len(lines), last |-> Last(lines)]

LEMMA LockIsMine == LockInv <=> \A p \in Processes : Mine(p)
BY DEF LockInv, Mine

\* Whoever does nothing and does not hold the lock, or holds it while the lines stand still, is
\* as right as before.
LEMMA OthersKeep ==
  ASSUME LockInv, NEW q \in Processes,
         pc'[q] = pc[q], view'[q] = view[q], batch'[q] = batch[q], owner' = q <=> owner = q,
         Holds(q) => UNCHANGED <<lines, durable, anchor>>
  PROVE  Mine(q)'
BY DEF LockInv, Mine, Holds, Writing

\* The lock has one holder.
LEMMA OneHolder ==
  ASSUME TypeOK, LockInv, NEW p \in Processes, NEW q \in Processes, Holds(p), q # p
  PROVE  ~Holds(q)
BY DEF LockInv

\* A step of p that keeps the others' state and, unless p holds the lock, the disk.
LEMMA LockStep ==
  ASSUME TypeOK, LockInv, NEW p \in Processes,
         \A q \in Processes \ {p} : /\ pc'[q] = pc[q] /\ view'[q] = view[q] /\ batch'[q] = batch[q]
                                    /\ owner' = q <=> owner = q,
         Holds(p) \/ UNCHANGED <<lines, durable, anchor>>,
         Mine(p)'
  PROVE  LockInv'
<1> SUFFICES ASSUME NEW q \in Processes PROVE Mine(q)'
  BY DEF LockInv, Mine
<1>1. CASE q = p
  BY <1>1
<1>2. CASE q # p
  <2>1. Holds(q) => UNCHANGED <<lines, durable, anchor>>
    BY <1>2, OneHolder
  <2>2. pc'[q] = pc[q] /\ view'[q] = view[q] /\ batch'[q] = batch[q] /\ (owner' = q <=> owner = q)
    BY <1>2
  <2> QED
    BY <2>1, <2>2, OthersKeep
<1> QED
  BY <1>1, <1>2

\* A loss of power leaves nobody with the lock.
LEMMA Reset ==
  ASSUME TypeOK, pc' = [p \in Processes |-> "idle"], owner' = NoProcess, batch' = [p \in Processes |-> <<>>]
  PROVE  LockInv'
BY JournalAssumption DEF LockInv, Holds, Writing

LEMMA QuietFacts ==
  ASSUME TypeOK, LockInv, Quiet
  PROVE  \A p \in Processes : pc[p] = "idle" /\ ~Holds(p) /\ batch[p] = <<>> /\ owner # p
BY DEF Quiet, Idle, LockInv, Holds, Writing

LEMMA LockPreserved ==
  ASSUME Inv, [Next]_vars
  PROVE  LockInv'
<1> USE DEF Inv, JournalInv, Mine, Holds, Writing
<1>1. TypeOK /\ LockInv /\ IssuedInv /\ \A p \in Processes : Mine(p)
  BY LockIsMine
<1>2. \A p \in Processes : p # NoProcess /\ pc[p] \in {"idle", "absent", "opened", "deciding", "written", "synced", "anchored"}
  BY JournalAssumption DEF TypeOK
<1>3. ASSUME NEW p \in Processes, Read(p) PROVE LockInv'
  <2>1. Mine(p)'
    BY <1>1, <1>2, <1>3 DEF Read, Idle, End, diskVars, TypeOK
  <2> QED
    BY <1>1, <1>3, <2>1, LockStep DEF Read, End, diskVars, TypeOK
<1>4. ASSUME NEW p \in Processes, ReadAbsent(p) \/ ReadAnchorOfAbsent(p) \/ Open(p) PROVE LockInv'
  <2>1. Mine(p)'
    BY <1>1, <1>2, <1>4 DEF ReadAbsent, ReadAnchorOfAbsent, Open, Idle, End, diskVars, TypeOK
  <2> QED
    BY <1>1, <1>4, <2>1, LockStep DEF ReadAbsent, ReadAnchorOfAbsent, Open, End, diskVars, TypeOK
<1>5. ASSUME NEW p \in Processes, Lock(p) PROVE LockInv'
  <2>1. pc[p] = "opened" /\ owner = NoProcess /\ batch[p] = <<>> /\ batch' = batch
        /\ UNCHANGED <<lines, durable, anchor>>
    BY <1>1, <1>2, <1>5 DEF Lock, MayLock, diskVars
  <2>2. CASE Verdict(p) = "ok"
    <3>1. view'[p] = lines /\ pc'[p] = "deciding" /\ owner' = p
      BY <1>1, <1>5, <2>2, VerifiedIsWhole DEF Lock, TypeOK, Verdict
    <3>2. Mine(p)'
      BY <2>1, <3>1
    <3>3. ASSUME NEW q \in Processes, q # p PROVE Mine(q)'
      <4>1. pc'[q] = pc[q] /\ view'[q] = view[q] /\ batch'[q] = batch[q] /\ (owner' = q <=> owner = q)
        BY <1>1, <1>2, <1>5, <2>1, <2>2, <3>1, <3>3 DEF Lock, TypeOK
      <4> QED
        BY <1>1, <2>1, <3>3, <4>1, OthersKeep
    <3> QED
      BY <3>2, <3>3 DEF LockInv
  <2>3. CASE Verdict(p) # "ok"
    <3>1. pc'[p] = "idle" /\ owner' = NoProcess
      BY <1>1, <1>5, <2>1, <2>3 DEF Lock, End, TypeOK
    <3>2. Mine(p)'
      BY <1>2, <2>1, <3>1
    <3>3. ASSUME NEW q \in Processes, q # p PROVE Mine(q)'
      <4>1. pc'[q] = pc[q] /\ view'[q] = view[q] /\ batch'[q] = batch[q] /\ (owner' = q <=> owner = q)
        BY <1>1, <1>2, <1>5, <2>1, <2>3, <3>1, <3>3 DEF Lock, End, TypeOK
      <4> QED
        BY <1>1, <2>1, <3>3, <4>1, OthersKeep
    <3> QED
      BY <3>2, <3>3 DEF LockInv
  <2> QED
    BY <2>2, <2>3
<1>6. ASSUME NEW p \in Processes, DecideNothing(p) PROVE LockInv'
  <2>1. Holds(p) /\ owner = p /\ batch[p] = <<>>
    BY <1>1, <1>6 DEF DecideNothing
  <2>2. Mine(p)'
    BY <1>1, <1>2, <1>6, <2>1 DEF DecideNothing, End, TypeOK
  <2> QED
    BY <1>1, <1>2, <1>6, <2>1, <2>2, LockStep DEF DecideNothing, End, TypeOK
<1>7. ASSUME NEW p \in Processes, Write(p) PROVE LockInv'
  <2>1. PICK n \in 1 .. MaxBatch : /\ batch' = [batch EXCEPT ![p] = NewLines(p, n)]
                                   /\ lines' = lines \o NewLines(p, n)
    BY <1>7 DEF Write
  <2>2. NewLines(p, n) # <<>>
    <3>1. n \in Nat \ {0}
      BY JournalAssumption
    <3>2. Len(NewLines(p, n)) = n /\ Len(<<>>) = 0
      BY <1>1, <3>1, NewLinesFacts
    <3> QED
      BY <3>1, <3>2
  <2>3. Holds(p) /\ owner = p /\ view[p] = lines
    BY <1>1, <1>7 DEF Write
  <2>4. Mine(p)'
    BY <1>1, <1>7, <2>1, <2>2, <2>3 DEF Write, TypeOK
  <2> QED
    BY <1>1, <1>7, <2>1, <2>3, <2>4, LockStep DEF Write, TypeOK
<1>8. ASSUME NEW p \in Processes, Sync(p) PROVE LockInv'
  <2>1. Holds(p) /\ owner = p
    BY <1>1, <1>8 DEF Sync
  <2>2. Mine(p)'
    BY <1>1, <1>8, <2>1 DEF Sync, TypeOK
  <2> QED
    BY <1>1, <1>8, <2>1, <2>2, LockStep DEF Sync, TypeOK
<1>9. ASSUME NEW p \in Processes, WriteAnchor(p) PROVE LockInv'
  <2>1. Holds(p) /\ owner = p /\ Writing(p)
    BY <1>1, <1>9 DEF WriteAnchor
  <2>2. anchor' = [records |-> Len(lines), last |-> Last(lines)]
    BY <1>1, <1>9, <2>1, LastLine DEF WriteAnchor
  <2>3. Mine(p)'
    BY <1>1, <1>9, <2>1, <2>2 DEF WriteAnchor, TypeOK
  <2> QED
    BY <1>1, <1>9, <2>1, <2>3, LockStep DEF WriteAnchor, TypeOK
<1>10. ASSUME NEW p \in Processes, Return(p) PROVE LockInv'
  <2>1. Holds(p) /\ owner = p
    BY <1>1, <1>10 DEF Return
  <2>2. Mine(p)'
    BY <1>1, <1>2, <1>10 DEF Return, End, TypeOK
  <2> QED
    BY <1>1, <1>2, <1>10, <2>1, <2>2, LockStep DEF Return, End, TypeOK
<1>11. ASSUME NEW p \in Processes, Crash(p) \/ CrashWriting(p) PROVE LockInv'
  <2>1. Die(p) /\ (Holds(p) \/ UNCHANGED <<lines, durable, anchor>>)
    BY <1>11 DEF Crash, CrashWriting, diskVars
  <2>2. Mine(p)'
    BY <1>1, <1>2, <2>1 DEF Die, TypeOK
  <2> QED
    BY <1>1, <1>2, <2>1, <2>2, LockStep DEF Die, TypeOK
<1>12. CASE PowerFailure
  BY <1>1, <1>12, Reset DEF PowerFailure
<1>13. CASE Outside
  <2>1. Quiet
    BY <1>13 DEF Outside, Copy, PutBack, Delete, DiscardAnchor
  <2>2. UNCHANGED <<owner, pc, batch>>
    BY <1>13 DEF Outside, Copy, PutBack, Delete, DiscardAnchor, processVars
  <2> QED
    BY <1>1, <2>1, <2>2, QuietFacts DEF LockInv
<1>14. CASE UNCHANGED vars
  BY <1>1, <1>14 DEF vars, diskVars, processVars, LockInv
<1> QED
  BY <1>3, <1>4, <1>5, <1>6, <1>7, <1>8, <1>9, <1>10, <1>11, <1>12, <1>13, <1>14 DEF Next, Step, AppendVia, Failure

-----------------------------------------------------------------------------
(* What is in the lines, the copies and the anchors.                       *)

Contained == \A r \in returned : r.seq <= Len(lines) /\ lines[r.seq] = r

ContentInv == IssuedInv /\ AnchorInv /\ AnchorNeverLeads

LEMMA AnchorTypes ==
  ASSUME TypeOK, NEW a \in {anchor, oldAnchor} \ {NoAnchor}
  PROVE  a.records \in Nat \ {0} /\ a.last \in Record /\ a.last.id \in Nat
BY DEF TypeOK, Anchors, Record

\* _check_anchor: lines that agree with the anchor hold everything that ever returned.
LEMMA AgreementIsComplete ==
  ASSUME TypeOK, AnchorInv, AnchorVerdict(lines) = "ok"
  PROVE  Contained
<1>1. \/ anchor = NoAnchor /\ lines = <<>>
      \/ anchor # NoAnchor /\ anchor.records <= Len(lines) /\ lines[anchor.records] = anchor.last
  BY AnchorVerdictType DEF TypeOK
<1>2. CASE anchor = NoAnchor
  BY <1>2 DEF AnchorInv, Contained
<1>3. CASE anchor # NoAnchor
  <2>1. \A r \in returned : r.seq <= anchor.records /\ lines[r.seq] = r
    BY <1>1, <1>3 DEF AnchorInv, Certifies
  <2>2. \A r \in returned : r.seq \in Nat
    BY DEF TypeOK, Record
  <2>3. anchor.records \in Nat /\ Len(lines) \in Nat
    BY <1>3, AnchorTypes, LenProperties DEF TypeOK
  <2> QED
    BY <1>1, <1>3, <2>1, <2>2, <2>3 DEF Contained
<1> QED
  BY <1>2, <1>3

\* Steps that leave the content alone.
LEMMA StillDisk ==
  ASSUME TypeOK, ContentInv, durable' \in Nat, durable <= durable',
         UNCHANGED <<lines, anchor, oldAnchor>>, UNCHANGED <<copies, tampered, issued, returned>>,
         \A p \in Processes : batch'[p] \in {batch[p], <<>>},
         \A p \in Processes : Holds(p)' => Holds(p) \/ Contained
  PROVE  ContentInv'
<1>1. IssuedInv'
  <2>1. Len(<<>>) = 0
    OBVIOUS
  <2>2. \A p \in Processes : \A j \in 1 .. Len(batch'[p]) : \A c \in copies : \A i \in 1 .. Len(c) : c[i] # batch'[p][j]
    <3>1. ASSUME NEW p \in Processes, NEW j \in 1 .. Len(batch'[p])
          PROVE  \A c \in copies : \A i \in 1 .. Len(c) : c[i] # batch'[p][j]
      <4>1. batch'[p] = batch[p]
        BY <2>1, <3>1
      <4>2. \A k \in 1 .. Len(batch[p]) : \A c \in copies : \A i \in 1 .. Len(c) : c[i] # batch[p][k]
        BY DEF ContentInv, IssuedInv
      <4> QED
        BY <3>1, <4>1, <4>2
    <3> QED
      BY <3>1
  <2> QED
    BY <2>2 DEF ContentInv, IssuedInv, Numbered
<1>2. AnchorInv'
  BY DEF ContentInv, AnchorInv, Certifies, Contained
<1>3. AnchorNeverLeads'
  <2>1. \A a \in {anchor, oldAnchor} \ {NoAnchor} : a.records \in Nat
    BY AnchorTypes
  <2>2. durable \in Nat
    BY LenProperties DEF TypeOK
  <2> QED
    BY <2>1, <2>2 DEF ContentInv, AnchorNeverLeads
<1> QED
  BY <1>1, <1>2, <1>3 DEF ContentInv

\* Lines are added behind the end, whole or cut short, by the holder of the lock.
LEMMA GrownLines ==
  ASSUME TypeOK, TypeOK', ContentInv, Contained, NEW b \in Seq(Record), NEW n \in Nat,
         Len(b) <= n, \A i \in 1 .. Len(b) : b[i].seq = Len(lines) + i /\ b[i].id = issued + i,
         lines' = lines \o b, issued' = issued + n,
         UNCHANGED <<durable, anchor, oldAnchor>>, UNCHANGED <<copies, tampered, returned>>,
         \A q \in Processes : batch'[q] \in {batch[q], <<>>, b}
  PROVE  ContentInv'
<1> DEFINE L == Len(lines)
<1>1. /\ L \in Nat /\ Len(b) \in Nat /\ issued \in Nat /\ Len(lines') = L + Len(b)
      /\ \A i \in 1 .. L : lines'[i] = lines[i]
      /\ \A i \in L + 1 .. L + Len(b) : i - L \in 1 .. Len(b) /\ lines'[i] = b[i - L]
  <2>1. lines \in Seq(Record) /\ issued \in Nat
    BY DEF TypeOK
  <2> QED
    BY <2>1, Appended
<1>2. \A i \in L + 1 .. L + Len(b) : lines'[i].seq = i /\ lines'[i].id > issued /\ lines'[i].id <= issued'
  <2> SUFFICES ASSUME NEW i \in L + 1 .. L + Len(b)
               PROVE  lines'[i].seq = i /\ lines'[i].id > issued /\ lines'[i].id <= issued'
    OBVIOUS
  <2>1. i - L \in 1 .. Len(b) /\ lines'[i] = b[i - L]
    BY <1>1
  <2>2. b[i - L].seq = L + (i - L) /\ b[i - L].id = issued + (i - L)
    BY <2>1
  <2> QED
    BY <1>1, <2>1, <2>2
<1>3. \A c \in {lines} \cup copies : \A i \in 1 .. Len(c) : c[i].id \in Nat /\ c[i].id <= issued
  <2>1. \A c \in {lines} \cup copies : c \in Seq(Record)
    BY DEF TypeOK
  <2>2. \A c \in {lines} \cup copies : \A i \in 1 .. Len(c) : c[i] \in Record
    BY <2>1, ElementOfSeq
  <2> QED
    BY <2>2 DEF ContentInv, IssuedInv, Record
<1>4. Numbered(lines') /\ \A i \in 1 .. Len(lines') : lines'[i].id <= issued'
  <2> SUFFICES ASSUME NEW i \in 1 .. Len(lines') PROVE lines'[i].seq = i /\ lines'[i].id <= issued'
    BY DEF Numbered
  <2>1. CASE i \in 1 .. L
    BY <1>1, <1>3, <2>1 DEF ContentInv, IssuedInv, Numbered
  <2>2. CASE i \notin 1 .. L
    <3>1. i \in L + 1 .. L + Len(b)
      BY <1>1, <2>2
    <3> QED
      BY <1>2, <3>1
  <2> QED
    BY <2>1, <2>2
<1>5. \A c \in copies : Numbered(c) /\ \A i \in 1 .. Len(c) : c[i].id <= issued'
  BY <1>1, <1>3 DEF ContentInv, IssuedInv
<1>6. \A q \in Processes : \A j \in 1 .. Len(batch'[q]) : \A c \in copies : \A i \in 1 .. Len(c) : c[i] # batch'[q][j]
  <2> SUFFICES ASSUME NEW q \in Processes, NEW j \in 1 .. Len(batch'[q]), NEW c \in copies, NEW i \in 1 .. Len(c)
               PROVE  c[i] # batch'[q][j]
    OBVIOUS
  <2>1. CASE batch'[q] = batch[q]
    BY <2>1 DEF ContentInv, IssuedInv
  <2>2. CASE batch'[q] = <<>>
    BY <2>2
  <2>3. CASE batch'[q] = b
    <3>1. j \in 1 .. Len(b) /\ b[j].id = issued + j
      BY <2>3
    <3>2. c[i].id \in Nat /\ c[i].id <= issued
      BY <1>3
    <3>3. c[i].id # b[j].id
      BY <1>1, <3>1, <3>2
    <3> QED
      BY <2>3, <3>3
  <2> QED
    BY <2>1, <2>2, <2>3
<1>7. IssuedInv'
  <2>1. \A a \in {anchor, oldAnchor} \ {NoAnchor} : a.last.id <= issued'
    <3>1. \A a \in {anchor, oldAnchor} \ {NoAnchor} : a.last.id \in Nat /\ a.last.id <= issued
      BY AnchorTypes DEF ContentInv, IssuedInv
    <3> QED
      BY <1>1, <3>1
  <2> QED
    BY <1>4, <1>5, <1>6, <2>1 DEF IssuedInv, Numbered
<1>8. \A r \in returned : r.seq \in 1 .. L /\ lines[r.seq] = r /\ lines'[r.seq] = r
  <2>1. \A r \in returned : r.seq \in Nat \ {0}
    BY DEF TypeOK, Record
  <2> QED
    BY <1>1, <2>1 DEF Contained
<1>9. \A a \in {anchor, oldAnchor} \ {NoAnchor} : Certifies(a, lines')
  <2> SUFFICES ASSUME NEW a \in {anchor, oldAnchor} \ {NoAnchor}, a.records <= Len(lines'), lines'[a.records] = a.last,
                      NEW r \in returned
               PROVE  r.seq <= a.records /\ lines'[r.seq] = r
    BY DEF Certifies
  <2>1. a.records \in Nat \ {0} /\ a.last.id \in Nat /\ a.last.id <= issued
    BY AnchorTypes DEF ContentInv, IssuedInv
  <2>2. a.records \in 1 .. L
    <3>1. CASE a.records \in L + 1 .. L + Len(b)
      BY <1>1, <1>2, <2>1, <3>1
    <3> QED
      BY <1>1, <2>1, <3>1
  <2>3. a.records <= Len(lines) /\ lines[a.records] = a.last
    BY <1>1, <2>2
  <2>4. r.seq <= a.records
    BY <2>3 DEF ContentInv, AnchorInv, Certifies
  <2> QED
    BY <1>8, <2>4
<1>10. AnchorInv'
  <2>1. \A p \in Processes : Holds(p)' => \A r \in returned : r.seq <= Len(lines') /\ lines'[r.seq] = r
    BY <1>1, <1>8
  <2>2. \A a \in {anchor, oldAnchor} \ {NoAnchor} : \A s \in {lines'} \cup copies : Certifies(a, s)
    <3>1. \A a \in {anchor, oldAnchor} \ {NoAnchor} : \A s \in copies : Certifies(a, s)
      BY DEF ContentInv, AnchorInv
    <3> QED
      BY <1>9, <3>1
  <2>3. (anchor = NoAnchor => oldAnchor = NoAnchor) /\ (oldAnchor = NoAnchor => returned = {})
    BY DEF ContentInv, AnchorInv
  <2>4. anchor' = anchor /\ oldAnchor' = oldAnchor /\ copies' = copies /\ returned' = returned
    OBVIOUS
  <2>5. (\A a \in {anchor, oldAnchor} \ {NoAnchor} : \A s \in {lines} \cup copies : Certifies(a, s))'
    <3>1. ASSUME NEW a, NEW s PROVE Certifies(a, s)' <=> Certifies(a, s)
      BY <2>4 DEF Certifies
    <3> QED
      BY <2>2, <2>4, <3>1
  <2>6. (\A p \in Processes : Holds(p) => \A r \in returned : r.seq <= Len(lines) /\ lines[r.seq] = r)'
    BY <2>1, <2>4
  <2>7. ((anchor = NoAnchor => oldAnchor = NoAnchor) /\ (oldAnchor = NoAnchor => returned = {}))'
    BY <2>3, <2>4
  <2> QED
    BY <2>5, <2>6, <2>7 DEF AnchorInv
<1>11. AnchorNeverLeads'
  <2>1. durable \in 0 .. L
    BY DEF TypeOK
  <2>2. \A a \in {anchor, oldAnchor} \ {NoAnchor} : a.records \in Nat \ {0}
    BY AnchorTypes
  <2>3. ~tampered => \A a \in {anchor, oldAnchor} \ {NoAnchor} : a.records <= durable /\ a.records \in 1 .. L /\ lines[a.records] = a.last
    BY <1>1, <2>1, <2>2 DEF ContentInv, AnchorNeverLeads
  <2> QED
    BY <1>1, <2>3 DEF AnchorNeverLeads
<1> QED
  BY <1>7, <1>10, <1>11 DEF ContentInv

\* What the holder of the lock relies on.
LEMMA HolderFacts ==
  ASSUME TypeOK, LockInv, ContentInv, NEW p \in Processes, Holds(p)
  PROVE  Contained /\ \A q \in Processes \ {p} : ~Holds(q) /\ batch[q] = <<>>
<1>1. Contained
  BY DEF ContentInv, AnchorInv, Contained
<1>2. \A q \in Processes \ {p} : ~Holds(q)
  BY OneHolder
<1> QED
  BY <1>1, <1>2 DEF LockInv, Holds, Writing

LEMMA WritePreserves ==
  ASSUME TypeOK, TypeOK', LockInv, ContentInv, NEW p \in Processes, Write(p)
  PROVE  ContentInv'
<1>1. PICK n \in 1 .. MaxBatch : /\ batch' = [batch EXCEPT ![p] = NewLines(p, n)]
                                 /\ lines' = lines \o NewLines(p, n) /\ issued' = issued + n
  BY DEF Write
<1>2. n \in Nat
  BY JournalAssumption
<1>3. view[p] = lines /\ Holds(p)
  BY DEF Write, LockInv, Holds
<1> DEFINE b == NewLines(p, n)
<1>4. /\ b \in Seq(Record) /\ Len(b) <= n
      /\ \A i \in 1 .. Len(b) : b[i].seq = Len(lines) + i /\ b[i].id = issued + i
  <2>1. /\ b \in Seq(Record) /\ Len(b) = n
        /\ \A i \in 1 .. n : b[i].seq = Len(view[p]) + i /\ b[i].id = issued + i
    BY <1>2, NewLinesFacts
  <2> HIDE DEF b
  <2> QED
    BY <1>2, <1>3, <2>1
<1>5. \A q \in Processes : batch'[q] \in {batch[q], <<>>, b}
  BY <1>1 DEF TypeOK
<1>6. UNCHANGED <<durable, anchor, oldAnchor>> /\ UNCHANGED <<copies, tampered, returned>>
  BY DEF Write, worldVars
<1>7. Contained
  BY <1>3, HolderFacts
<1>8. lines' = lines \o b
  BY <1>1
<1> HIDE DEF b
<1> QED
  BY <1>1, <1>2, <1>4, <1>5, <1>6, <1>7, <1>8, GrownLines

LEMMA CrashWritingPreserves ==
  ASSUME TypeOK, TypeOK', LockInv, ContentInv, NEW p \in Processes, CrashWriting(p)
  PROVE  ContentInv'
<1>1. PICK n \in 1 .. MaxBatch : /\ \E k \in 0 .. n : lines' = lines \o SubSeq(NewLines(p, n), 1, k)
                                 /\ issued' = issued + n
  BY DEF CrashWriting
<1>2. PICK k \in 0 .. n : lines' = lines \o SubSeq(NewLines(p, n), 1, k)
  BY <1>1
<1>3. n \in Nat /\ k \in Nat /\ k <= n
  BY JournalAssumption
<1>4. view[p] = lines /\ Holds(p)
  BY DEF CrashWriting, LockInv, Holds
<1> DEFINE b == SubSeq(NewLines(p, n), 1, k)
<1>5. b \in Seq(Record) /\ Len(b) = k /\ \A i \in 1 .. k : b[i] = NewLines(p, n)[i]
  BY WrittenLines
<1>6. \A i \in 1 .. k : NewLines(p, n)[i].seq = Len(lines) + i /\ NewLines(p, n)[i].id = issued + i
  <2>1. 1 .. k \subseteq 1 .. n
    BY <1>3
  <2> QED
    BY <1>3, <1>4, <2>1, NewLinesFacts
<1>7. \A i \in 1 .. Len(b) : b[i].seq = Len(lines) + i /\ b[i].id = issued + i
  BY <1>5, <1>6
<1>8. \A q \in Processes : batch'[q] \in {batch[q], <<>>, b}
  BY DEF CrashWriting, Die, TypeOK
<1>9. UNCHANGED <<durable, anchor, oldAnchor>> /\ UNCHANGED <<copies, tampered, returned>>
  BY DEF CrashWriting, worldVars
<1>10. Contained
  BY <1>4, HolderFacts
<1>11. lines' = lines \o b /\ Len(b) <= n
  BY <1>2, <1>3, <1>5
<1> HIDE DEF b
<1> QED
  BY <1>1, <1>3, <1>5, <1>7, <1>8, <1>9, <1>10, <1>11, GrownLines

\* The anchor of the last line vouches for no copy: the line is too new to be in one.
LEMMA NewAnchorFacts ==
  ASSUME TypeOK, LockInv, ContentInv, NEW p \in Processes, Writing(p), NEW c \in copies,
         Len(lines) <= Len(c)
  PROVE  c[Len(lines)] # Last(lines)
<1>1. Len(batch[p]) \in 1 .. Len(batch[p]) /\ Last(lines) = batch[p][Len(batch[p])] /\ Len(lines) \in Nat \ {0}
  BY LastLine DEF ContentInv, Last
<1>2. Len(lines) \in 1 .. Len(c)
  BY <1>1, LenProperties DEF TypeOK
<1> QED
  BY <1>1, <1>2 DEF ContentInv, IssuedInv

LEMMA WriteAnchorPreserves ==
  ASSUME TypeOK, TypeOK', LockInv, ContentInv, NEW p \in Processes, WriteAnchor(p)
  PROVE  ContentInv'
<1>1. Holds(p) /\ Writing(p) /\ durable = Len(lines)
  BY DEF WriteAnchor, Holds, Writing, LockInv
<1>2. /\ Len(lines) \in Nat \ {0} /\ Last(lines) \in Record /\ Last(lines).seq = Len(lines) /\ Last(lines).id <= issued
      /\ Last(batch[p]) = Last(lines)
  BY <1>1, LastLine DEF ContentInv
<1> DEFINE top == [records |-> Len(lines), last |-> Last(lines)]
<1>3. anchor' = top /\ UNCHANGED <<lines, durable, oldAnchor>> /\ UNCHANGED <<batch, copies, tampered, issued, returned>>
  BY <1>2 DEF WriteAnchor, worldVars, historyVars
<1>4. top # NoAnchor /\ top.records = Len(lines) /\ top.last = Last(lines) /\ lines[Len(lines)] = Last(lines)
  BY <1>2, JournalAssumption DEF Record, Last
<1>5. Contained
  BY <1>1, HolderFacts
<1>6. IssuedInv'
  BY <1>2, <1>3, <1>4 DEF ContentInv, IssuedInv, Numbered
<1>7. \A s \in {lines} \cup copies : Certifies(top, s)
  BY <1>1, <1>4, <1>5, NewAnchorFacts DEF Certifies, Contained
<1>8. AnchorInv'
  <2>1. \A a \in {top, oldAnchor} \ {NoAnchor} : \A s \in {lines} \cup copies :
          a.records <= Len(s) /\ s[a.records] = a.last => \A r \in returned : r.seq <= a.records /\ s[r.seq] = r
    <3>1. \A a \in {oldAnchor} \ {NoAnchor} : \A s \in {lines} \cup copies : Certifies(a, s)
      BY DEF ContentInv, AnchorInv
    <3> HIDE DEF top
    <3> QED
      BY <1>7, <3>1 DEF Certifies
  <2>2. top # NoAnchor /\ (oldAnchor = NoAnchor => returned = {})
    BY <1>4 DEF ContentInv, AnchorInv
  <2> HIDE DEF top
  <2> QED
    BY <1>3, <1>5, <2>1, <2>2 DEF AnchorInv, Certifies, Contained
<1>9. AnchorNeverLeads'
  <2>1. top.records <= durable /\ lines[top.records] = top.last
    BY <1>1, <1>2, <1>4
  <2> HIDE DEF top
  <2> QED
    BY <1>3, <2>1 DEF ContentInv, AnchorNeverLeads
<1> QED
  BY <1>6, <1>8, <1>9 DEF ContentInv

LEMMA ReturnPreserves ==
  ASSUME TypeOK, TypeOK', LockInv, ContentInv, NEW p \in Processes, Return(p)
  PROVE  ContentInv'
<1>1. Holds(p) /\ Writing(p) /\ anchor = [records |-> Len(lines), last |-> Last(lines)]
  BY DEF Return, Holds, Writing, LockInv
<1>2. Len(lines) \in Nat \ {0} /\ Last(lines) \in Record /\ Last(lines).seq = Len(lines)
  BY <1>1, LastLine DEF ContentInv
<1>3. /\ anchor # NoAnchor /\ anchor.records = Len(lines) /\ anchor.last = Last(lines)
      /\ lines[Len(lines)] = Last(lines)
  BY <1>1, <1>2, JournalAssumption DEF Record, Last
<1>4. /\ UNCHANGED <<lines, durable, anchor>> /\ UNCHANGED <<copies, tampered, issued>>
      /\ oldAnchor' = anchor /\ returned' = returned \cup ToSet(batch[p])
      /\ \A q \in Processes : batch'[q] \in {batch[q], <<>>}
  BY DEF Return, worldVars, TypeOK
<1>5. \A r \in returned' : r.seq <= Len(lines) /\ lines[r.seq] = r
  <2>1. ASSUME NEW r \in returned PROVE r.seq <= Len(lines) /\ lines[r.seq] = r
    BY <1>1, <2>1, HolderFacts DEF Contained
  <2>2. ASSUME NEW r \in ToSet(batch[p]) PROVE r.seq <= Len(lines) /\ lines[r.seq] = r
    <3>1. batch[p] \in Seq(Record) /\ view[p] \in Seq(Record) /\ view[p] \o batch[p] = lines
      BY <1>1 DEF TypeOK, LockInv
    <3>2. PICK j \in 1 .. Len(batch[p]) : r = batch[p][j]
      BY <2>2, <3>1, LenProperties DEF ToSet
    <3> DEFINE v == view[p]
               b == batch[p]
    <3>3. Len(v \o b) = Len(v) + Len(b) /\ Len(v) \in Nat /\ Len(b) \in Nat /\ (v \o b)[Len(v) + j] = b[j]
      <4> HIDE DEF v, b
      <4>1. j \in 1 .. Len(b)
        BY <3>2 DEF b
      <4>2. v \in Seq(Record) /\ b \in Seq(Record)
        BY <3>1 DEF v, b
      <4> QED
        BY <4>1, <4>2, Appended
    <3>4. Len(v) + j \in 1 .. Len(lines) /\ lines[Len(v) + j] = r
      <4>1. j \in 1 .. Len(b) /\ r = b[j] /\ v \o b = lines
        BY <3>1, <3>2
      <4> HIDE DEF v, b
      <4> QED
        BY <3>3, <4>1
    <3>5. lines[Len(v) + j].seq = Len(v) + j
      BY <3>4 DEF ContentInv, IssuedInv, Numbered
    <3> QED
      BY <3>4, <3>5, <1>2
  <2> QED
    BY <1>4, <2>1, <2>2
<1>6. IssuedInv'
  <2>1. \A q \in Processes : \A j \in 1 .. Len(batch'[q]) : \A c \in copies : \A i \in 1 .. Len(c) : c[i] # batch'[q][j]
    <3>1. Len(<<>>) = 0
      OBVIOUS
    <3> QED
      BY <1>4, <3>1 DEF ContentInv, IssuedInv
  <2> QED
    BY <1>4, <2>1 DEF ContentInv, IssuedInv, Numbered
<1>7. AnchorInv'
  <2>1. \A s \in {lines} \cup copies :
          anchor.records <= Len(s) /\ s[anchor.records] = anchor.last => \A r \in returned' : r.seq <= anchor.records /\ s[r.seq] = r
    BY <1>1, <1>3, <1>5, NewAnchorFacts
  <2> QED
    BY <1>3, <1>4, <1>5, <2>1 DEF AnchorInv, Certifies
<1>8. AnchorNeverLeads'
  BY <1>4 DEF ContentInv, AnchorNeverLeads
<1> QED
  BY <1>6, <1>7, <1>8 DEF ContentInv

LEMMA PowerFailurePreserves ==
  ASSUME TypeOK, TypeOK', LockInv, LockInv', ContentInv, PowerFailure
  PROVE  ContentInv'
<1>1. PICK n \in durable .. Len(lines) : lines' = SubSeq(lines, 1, n) /\ durable' = n
  BY DEF PowerFailure
<1>2. /\ n \in Nat /\ n <= Len(lines) /\ Len(lines) \in Nat /\ durable \in Nat /\ durable <= n
      /\ Len(lines') = n /\ \A i \in 1 .. n : lines'[i] = lines[i] /\ i \in 1 .. Len(lines)
  <2>1. Len(lines) \in Nat /\ durable \in Nat
    BY LenProperties DEF TypeOK
  <2> QED
    BY <1>1, <2>1, PrefixFacts
<1>3. /\ {anchor', oldAnchor'} \subseteq {anchor, oldAnchor} /\ anchor' = oldAnchor'
      /\ UNCHANGED <<copies, tampered, issued, returned>>
      /\ \A q \in Processes : batch'[q] = <<>> /\ pc'[q] = "idle"
  BY DEF PowerFailure, worldVars, historyVars
<1>4. IssuedInv'
  <2>1. Numbered(lines') /\ \A i \in 1 .. Len(lines') : lines'[i].id <= issued
    BY <1>2 DEF ContentInv, IssuedInv, Numbered
  <2>2. Len(<<>>) = 0
    OBVIOUS
  <2> QED
    BY <1>3, <2>1, <2>2 DEF ContentInv, IssuedInv, Numbered
<1>5. \A a \in {anchor, oldAnchor} \ {NoAnchor} : Certifies(a, lines')
  <2> SUFFICES ASSUME NEW a \in {anchor, oldAnchor} \ {NoAnchor}, a.records <= Len(lines'), lines'[a.records] = a.last,
                      NEW r \in returned
               PROVE  r.seq <= a.records /\ lines'[r.seq] = r
    BY DEF Certifies
  <2>1. a.records \in 1 .. n
    BY <1>2, AnchorTypes
  <2>2. a.records <= Len(lines) /\ lines[a.records] = a.last
    BY <1>2, <2>1
  <2>3. r.seq <= a.records /\ lines[r.seq] = r
    BY <2>2 DEF ContentInv, AnchorInv, Certifies
  <2>4. r.seq \in Nat \ {0}
    BY DEF TypeOK, Record
  <2> QED
    BY <1>2, <2>1, <2>3, <2>4
<1>6. AnchorInv'
  <2>1. \A p \in Processes : ~Holds(p)'
    BY <1>3 DEF Holds
  <2>2. \A a \in {anchor', oldAnchor'} \ {NoAnchor} : \A s \in {lines'} \cup copies :
          a.records <= Len(s) /\ s[a.records] = a.last => \A r \in returned : r.seq <= a.records /\ s[r.seq] = r
    BY <1>3, <1>5 DEF ContentInv, AnchorInv, Certifies
  <2>3. oldAnchor' = NoAnchor => returned = {}
    BY <1>3 DEF ContentInv, AnchorInv
  <2> QED
    BY <1>3, <2>1, <2>2, <2>3 DEF AnchorInv, Certifies
<1>7. AnchorNeverLeads'
  <2>1. ~tampered => \A a \in {anchor, oldAnchor} \ {NoAnchor} : a.records <= n /\ a.records \in 1 .. n /\ lines[a.records] = a.last
    BY <1>2, AnchorTypes DEF ContentInv, AnchorNeverLeads
  <2> QED
    BY <1>1, <1>2, <1>3, <2>1 DEF AnchorNeverLeads
<1> QED
  BY <1>4, <1>6, <1>7 DEF ContentInv

\* What an operator does to the files.
LEMMA OutsidePreserves ==
  ASSUME TypeOK, TypeOK', LockInv, ContentInv, Outside
  PROVE  ContentInv'
<1>1. Quiet /\ UNCHANGED <<owner, pc, batch>> /\ issued' = issued
  BY DEF Outside, Copy, PutBack, Delete, DiscardAnchor, processVars, historyVars
<1>2. \A p \in Processes : ~Holds(p)' /\ batch'[p] = <<>>
  BY <1>1, QuietFacts DEF Holds
<1>3. Len(<<>>) = 0
  OBVIOUS
<1>4. CASE Copy
  <2>1. copies' = copies \cup {lines} /\ UNCHANGED <<lines, durable, anchor, oldAnchor>> /\ UNCHANGED <<tampered, returned>>
    BY <1>4 DEF Copy, diskVars, historyVars
  <2>2. IssuedInv'
    BY <1>1, <1>2, <1>3, <2>1 DEF ContentInv, IssuedInv, Numbered
  <2>3. AnchorInv'
    BY <1>2, <2>1 DEF ContentInv, AnchorInv, Certifies
  <2>4. AnchorNeverLeads'
    BY <2>1 DEF ContentInv, AnchorNeverLeads
  <2> QED
    BY <2>2, <2>3, <2>4 DEF ContentInv
<1>5. CASE PutBack
  <2>1. lines' \in copies /\ UNCHANGED <<anchor, oldAnchor>> /\ UNCHANGED <<copies, returned>> /\ tampered'
    BY <1>5 DEF PutBack, historyVars
  <2>2. IssuedInv'
    BY <1>1, <1>2, <1>3, <2>1 DEF ContentInv, IssuedInv, Numbered
  <2>3. AnchorInv'
    BY <1>2, <2>1 DEF ContentInv, AnchorInv, Certifies
  <2>4. AnchorNeverLeads'
    BY <2>1 DEF AnchorNeverLeads
  <2> QED
    BY <2>2, <2>3, <2>4 DEF ContentInv
<1>6. CASE Delete
  <2>1. lines' = <<>> /\ UNCHANGED <<anchor, oldAnchor>> /\ UNCHANGED <<copies, returned>> /\ tampered'
    BY <1>6 DEF Delete, historyVars
  <2>2. IssuedInv'
    BY <1>1, <1>2, <1>3, <2>1 DEF ContentInv, IssuedInv, Numbered
  <2>3. \A a \in {anchor, oldAnchor} \ {NoAnchor} : a.records \in Nat \ {0}
    BY AnchorTypes
  <2>4. AnchorInv'
    BY <1>2, <1>3, <2>1, <2>3 DEF ContentInv, AnchorInv, Certifies
  <2>5. AnchorNeverLeads'
    BY <2>1 DEF AnchorNeverLeads
  <2> QED
    BY <2>2, <2>4, <2>5 DEF ContentInv
<1>7. CASE DiscardAnchor
  <2>1. /\ anchor' = NoAnchor /\ oldAnchor' = NoAnchor /\ returned' = {} /\ copies' = {} /\ lines' = lines
    BY <1>7 DEF DiscardAnchor
  <2>2. IssuedInv'
    BY <1>1, <1>2, <1>3, <2>1 DEF ContentInv, IssuedInv, Numbered
  <2>3. AnchorInv' /\ AnchorNeverLeads'
    BY <1>2, <2>1 DEF AnchorInv, AnchorNeverLeads
  <2> QED
    BY <2>2, <2>3 DEF ContentInv
<1> QED
  BY <1>4, <1>5, <1>6, <1>7 DEF Outside

LEMMA ContentPreserved ==
  ASSUME Inv, TypeOK', LockInv', [Next]_vars
  PROVE  ContentInv'
<1>1. TypeOK /\ LockInv /\ ContentInv
  BY DEF Inv, JournalInv, ContentInv
<1>2. durable \in Nat /\ Len(lines) \in Nat /\ durable <= Len(lines)
  BY <1>1, LenProperties DEF TypeOK
<1>3. ASSUME NEW p \in Processes, Read(p) \/ ReadAbsent(p) \/ ReadAnchorOfAbsent(p) \/ Open(p) \/ DecideNothing(p) \/ Crash(p)
      PROVE  ContentInv'
  <2>1. UNCHANGED <<lines, anchor, oldAnchor>> /\ UNCHANGED <<copies, tampered, issued, returned>> /\ durable' = durable
    BY <1>3 DEF Read, ReadAbsent, ReadAnchorOfAbsent, Open, DecideNothing, Crash, diskVars, worldVars, historyVars
  <2>2. \A q \in Processes : batch'[q] \in {batch[q], <<>>}
    BY <1>1, <1>3 DEF Read, ReadAbsent, ReadAnchorOfAbsent, Open, DecideNothing, Crash, Die, TypeOK
  <2>3. \A q \in Processes : Holds(q)' => Holds(q)
    BY <1>1, <1>3 DEF Read, ReadAbsent, ReadAnchorOfAbsent, Open, DecideNothing, Crash, Die, End, TypeOK, Holds
  <2> QED
    BY <1>1, <1>2, <2>1, <2>2, <2>3, StillDisk
<1>4. ASSUME NEW p \in Processes, Lock(p) PROVE ContentInv'
  <2>1. UNCHANGED <<lines, anchor, oldAnchor>> /\ UNCHANGED <<copies, tampered, issued, returned>> /\ durable' = durable
    BY <1>4 DEF Lock, diskVars, worldVars, historyVars
  <2>2. \A q \in Processes : batch'[q] \in {batch[q], <<>>}
    BY <1>1, <1>4 DEF Lock, TypeOK
  <2>3. \A q \in Processes : Holds(q)' => Holds(q) \/ Contained
    <3>1. CASE Verdict(p) = "ok"
      <4>1. AnchorVerdict(lines) = "ok"
        BY <1>1, <3>1, VerifiedIsWhole DEF Verdict
      <4> QED
        BY <1>1, <4>1, AgreementIsComplete DEF ContentInv
    <3>2. CASE Verdict(p) # "ok"
      BY <1>1, <1>4, <3>2 DEF Lock, End, TypeOK, Holds
    <3> QED
      BY <3>1, <3>2
  <2> QED
    BY <1>1, <1>2, <2>1, <2>2, <2>3, StillDisk
<1>5. ASSUME NEW p \in Processes, Sync(p) PROVE ContentInv'
  <2>1. UNCHANGED <<lines, anchor, oldAnchor>> /\ UNCHANGED <<copies, tampered, issued, returned>>
        /\ durable' = Len(lines) /\ batch' = batch
    BY <1>5 DEF Sync, worldVars, historyVars
  <2>2. \A q \in Processes : Holds(q)' => Holds(q)
    BY <1>1, <1>5 DEF Sync, TypeOK, Holds
  <2> QED
    BY <1>1, <1>2, <2>1, <2>2, StillDisk
<1>6. CASE UNCHANGED vars
  <2>1. UNCHANGED <<lines, anchor, oldAnchor>> /\ UNCHANGED <<copies, tampered, issued, returned>>
        /\ durable' = durable /\ batch' = batch /\ pc' = pc
    BY <1>6 DEF vars, diskVars, processVars, worldVars, historyVars
  <2>2. \A q \in Processes : Holds(q)' => Holds(q)
    BY <2>1 DEF Holds
  <2> QED
    BY <1>1, <1>2, <2>1, <2>2, StillDisk
<1> QED
  BY <1>1, <1>3, <1>4, <1>5, <1>6, WritePreserves, CrashWritingPreserves, WriteAnchorPreserves, ReturnPreserves,
     PowerFailurePreserves, OutsidePreserves
  DEF Next, Step, AppendVia, Failure

-----------------------------------------------------------------------------
(* The theorems.                                                           *)

\* Type correctness and the invariant of append_via: what the holder of the lock has done is what
\* the disk shows, identities are unique, both anchors vouch for everything that returned.
THEOREM JournalInvariant == Spec => [](TypeOK /\ JournalInv)
<1>1. Init => Inv
  BY InitialInv
<1>2. Inv /\ [Next]_vars => Inv'
  <2> SUFFICES ASSUME Inv, [Next]_vars PROVE Inv'
    OBVIOUS
  <2>1. TypeOK'
    BY TypeStep DEF Inv, JournalInv
  <2>2. LockInv'
    BY LockPreserved
  <2>3. ContentInv'
    BY <2>1, <2>2, ContentPreserved
  <2> QED
    BY <2>1, <2>2, <2>3 DEF Inv, JournalInv, ContentInv
<1>3. Inv => TypeOK /\ JournalInv
  BY DEF Inv
<1> QED
  BY <1>1, <1>2, <1>3, PTL DEF Spec

\* _check_anchor: a journal that passes the checks holds every line of every append that ever
\* returned, whatever crashed, lost power or was put back.
THEOREM NothingIsLostSilently == Spec => []AcceptedIsComplete
<1>1. TypeOK /\ JournalInv => AcceptedIsComplete
  <2> SUFFICES ASSUME TypeOK, JournalInv, Accepted PROVE Contained
    BY DEF AcceptedIsComplete, Contained
  <2> QED
    BY AgreementIsComplete DEF JournalInv, Accepted
<1> QED
  BY <1>1, JournalInvariant, PTL

\* append_via: a decision is taken on exactly the lines of the file, and nobody else appends
\* until it is written and anchored.
THEOREM DecisionsSeeEverything == Spec => []DecidesOnTheWholeFile
<1>1. JournalInv => DecidesOnTheWholeFile
  BY DEF JournalInv, LockInv, DecidesOnTheWholeFile, Writing
<1> QED
  BY <1>1, JournalInvariant, PTL

\* _write_anchor: the anchor, and the one a loss of power may bring back, never lead the lines that
\* survive it.
THEOREM AnchorLags == Spec => []AnchorNeverLeads
<1>1. JournalInv => AnchorNeverLeads
  BY DEF JournalInv
<1> QED
  BY <1>1, JournalInvariant, PTL

\* A crash that leaves whole lines behind leaves a journal the next process accepts, once an
\* anchor is durable.
THEOREM CrashesAreSurvived == Spec => []AnchoredCrashIsSurvived
<1>1. TypeOK /\ JournalInv => AnchoredCrashIsSurvived
  <2> SUFFICES ASSUME TypeOK, JournalInv, ~tampered, ~torn, oldAnchor # NoAnchor PROVE Accepted
    BY DEF AnchoredCrashIsSurvived
  <2>1. anchor # NoAnchor /\ ~Malformed
    BY DEF JournalInv, AnchorInv, IssuedInv, Numbered, Malformed
  <2>2. anchor.records <= durable /\ lines[anchor.records] = anchor.last
    BY <2>1 DEF JournalInv, AnchorNeverLeads
  <2>3. durable \in Nat /\ Len(lines) \in Nat /\ durable <= Len(lines) /\ anchor.records \in Nat
    BY <2>1, AnchorTypes, LenProperties DEF TypeOK
  <2>4. AnchorVerdict(lines) = "ok"
    BY <2>1, <2>2, <2>3 DEF AnchorVerdict
  <2> QED
    BY <2>1, <2>4 DEF Accepted
<1> QED
  BY <1>1, JournalInvariant, PTL

\* The journal is sound: the results above together.
THEOREM JournalIsSafe == Spec => []JournalIsSound
<1>1. Spec => []TypeOK
  BY JournalInvariant, PTL
<1>2. JournalIsSound <=> /\ TypeOK /\ AcceptedIsComplete /\ DecidesOnTheWholeFile
                         /\ AnchorNeverLeads /\ AnchoredCrashIsSurvived
  BY DEF JournalIsSound
<1> QED
  BY <1>1, <1>2, NothingIsLostSilently, DecisionsSeeEverything, AnchorLags, CrashesAreSurvived, PTL

-----------------------------------------------------------------------------
(* The manifest store.                                                     *)

\* A saver between the check and the end of save() has a manifest in hand; its bytes are in the
\* temporary file when it takes the name; and between the name and the sync the name is its own.
SaverSound(p) ==
    /\ step[p] # "idle" => saving[p] \in Manifests
    /\ step[p] = "written" => temp[p] = saving[p]
    /\ step[p] = "linked" => entry = saving[p]

\* The disk is at most one manifest behind the directory.
DiskFollows == synced = entry \/ synced = NoManifest

StoreInv ==
    /\ StoreTypeOK /\ DiskFollows /\ ConfirmedIsTheManifest
    /\ \A p \in Savers : SaverSound(p)

LEMMA StoreInvInit ==
    ASSUME StoreInit
    PROVE  StoreInv
BY DEF StoreInit, StoreInv, StoreTypeOK, DiskFollows, ConfirmedIsTheManifest, SaverSound

\* Every step of a saver and every loss of power keeps the invariant, and none
\* replaces one manifest by another.
LEMMA StoreInvStep ==
    ASSUME StoreInv, [StoreNext]_storeVars
    PROVE  StoreInv' /\ KeepsHistory
<1> USE DEF StoreInv, StoreTypeOK, DiskFollows, ConfirmedIsTheManifest, SaverSound, KeepsHistory
<1>1. ASSUME NEW p \in Savers, NEW m \in Manifests, Save(p, m) PROVE StoreInv' /\ KeepsHistory
  BY <1>1 DEF Save
<1>2. ASSUME NEW p \in Savers, OpenTemporary(p) PROVE StoreInv' /\ KeepsHistory
  BY <1>2 DEF OpenTemporary
<1>3. ASSUME NEW p \in Savers, FillTemporary(p) PROVE StoreInv' /\ KeepsHistory
  BY <1>3 DEF FillTemporary
<1>4. ASSUME NEW p \in Savers, Link(p) PROVE StoreInv' /\ KeepsHistory
  BY <1>4, StoreAssumption DEF Link, EndSave
<1>5. ASSUME NEW p \in Savers, SyncDirectory(p) PROVE StoreInv' /\ KeepsHistory
  BY <1>5, StoreAssumption DEF SyncDirectory, EndSave
<1>6. ASSUME NEW p \in Savers, Kill(p) PROVE StoreInv' /\ KeepsHistory
  BY <1>6 DEF Kill
<1>7. ASSUME LosePower PROVE StoreInv' /\ KeepsHistory
  BY <1>7, StoreAssumption DEF LosePower
<1>8. ASSUME UNCHANGED storeVars PROVE StoreInv' /\ KeepsHistory
  BY <1>8 DEF storeVars
<1> QED
  BY <1>1, <1>2, <1>3, <1>4, <1>5, <1>6, <1>7, <1>8 DEF StoreNext

\* Whoever saves, is killed or loses power: what each saver has in hand, in its temporary file and
\* under the name agrees, and the disk is at most one manifest behind the directory.
THEOREM StoreInvariant == StoreSpec => []StoreInv
<1>1. StoreInit => StoreInv
  BY StoreInvInit
<1>2. StoreInv /\ [StoreNext]_storeVars => StoreInv'
  BY StoreInvStep
<1> QED
  BY <1>1, <1>2, PTL DEF StoreSpec

\* A manifest whose creator's save() returned is the manifest of the deployment from then on,
\* through rival savers, kills and losses of power (store.py: link, sync, return).
THEOREM ConfirmedStays == StoreSpec => []StoreIsSound
<1>1. StoreInv => StoreIsSound
  BY DEF StoreInv, StoreIsSound
<1> QED
  BY <1>1, StoreInvariant, PTL

\* The entry changes only from nothing to a manifest, or back to nothing when the power goes
\* before the directory was synced.
THEOREM HistoryStays == StoreSpec => HistoryIsNeverRewritten
<1>1. StoreInv /\ [StoreNext]_storeVars => [KeepsHistory]_storeVars
  BY StoreInvStep
<1> QED
  BY <1>1, StoreInvariant, PTL DEF StoreSpec, HistoryIsNeverRewritten
=============================================================================
