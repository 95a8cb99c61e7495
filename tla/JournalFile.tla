---------------------------- MODULE JournalFile ----------------------------
(***************************************************************************)
(* The append-only journal file shared by the processes of one role,       *)
(* simulation/nxt_edge_task/journal.py: the lines under an advisory lock,  *)
(* and next to them the high-water anchor, a file that says how many lines *)
(* there were and which was the last.                                      *)
(*                                                                         *)
(* A process may die between any two system calls and in the middle of a   *)
(* write; a power failure also takes what was not synchronised.  Someone   *)
(* may put an older copy of the lines back, or delete them; the anchor     *)
(* stays.  A line is its sequence number and an identity that stands for   *)
(* the digest of its content.                                              *)
(***************************************************************************)
EXTENDS Naturals, Sequences, FiniteSets, SequencesExt

CONSTANTS
  Processes, NoProcess,
  NoAnchor,
  MaxBatch,    \* bound: lines of one append
  MaxLines,    \* bound: lines ever written
  MaxCopies    \* bound: copies of the lines kept elsewhere

ASSUME JournalAssumption ==
  /\ NoProcess \notin Processes /\ NoAnchor \notin [records : Nat \ {0}, last : [seq : Nat \ {0}, id : Nat \ {0}]]
  /\ {MaxBatch, MaxLines, MaxCopies} \subseteq Nat

VARIABLES
  \* the disk
  exists, lines,  \* the journal: present, its complete lines
  torn,           \* the journal ends in the middle of a line
  durable,        \* how many of the lines a power failure leaves
  anchor,         \* the anchor, and the one a power failure may bring back
  oldAnchor,
  \* the processes
  owner,          \* who holds the exclusive lock
  pc,             \* idle | absent | opened | deciding | written | synced | anchored
  view,           \* the lines the process has verified; kept as the cache between two calls
  batch,          \* the lines being appended
  verdict,        \* how the last call of each process ended
  \* the world
  copies,         \* lines kept elsewhere
  tampered,       \* a copy was put back, or the journal deleted
  \* history
  issued,         \* lines ever made
  returned        \* lines of the appends that returned

diskVars    == <<exists, lines, torn, durable, anchor, oldAnchor>>
processVars == <<owner, pc, view, batch, verdict>>
worldVars   == <<copies, tampered>>
historyVars == <<issued, returned>>
vars        == <<diskVars, processVars, worldVars, historyVars>>

Record  == [seq : Nat \ {0}, id : Nat \ {0}]
Anchors == [records : Nat \ {0}, last : Record] \cup {NoAnchor}
Verdicts == {"none", "ok", "unreadable", "no anchor", "rolled back", "differs"}

-----------------------------------------------------------------------------
(* _verify and _check_anchor.                                              *)

\* A plausible slip: a prefix of the right length is taken for the verified one.
SameLength(p) == Len(view[p]) <= Len(lines)

\* The bytes already verified hash to the same digest.
PrefixUnchanged(p) == IsPrefix(view[p], lines)

\* _verify: only what follows the verified prefix is parsed.
Verified(p) ==
  IF PrefixUnchanged(p) THEN view[p] \o SubSeq(lines, Len(view[p]) + 1, Len(lines)) ELSE lines

Malformed == torn \/ \E i \in 1 .. Len(lines) : lines[i].seq # i

\* _check_anchor.
AnchorVerdict(records) ==
  CASE anchor = NoAnchor -> IF records = <<>> THEN "ok" ELSE "no anchor"
    [] anchor # NoAnchor /\ Len(records) < anchor.records -> "rolled back"
    [] anchor # NoAnchor /\ Len(records) >= anchor.records ->
         IF records[anchor.records] = anchor.last THEN "ok" ELSE "differs"

Verdict(p) == IF Malformed THEN "unreadable" ELSE AnchorVerdict(Verified(p))

\* The journal as a process that starts now finds it.
Accepted == ~Malformed /\ AnchorVerdict(lines) = "ok"

-----------------------------------------------------------------------------
(* read.                                                                   *)

Idle(p) == pc[p] = "idle"

End(p, v) ==
  /\ verdict' = [verdict EXCEPT ![p] = v]
  /\ pc' = [pc EXCEPT ![p] = "idle"]

\* The lines and the anchor are read under the shared lock.
Read(p) ==
  /\ Idle(p) /\ exists /\ owner = NoProcess
  /\ view' = [view EXCEPT ![p] = IF Malformed THEN @ ELSE Verified(p)]
  /\ End(p, Verdict(p))
  /\ UNCHANGED <<diskVars, owner, batch, worldVars, historyVars>>

\* Without a journal there is nothing to lock.
ReadAbsent(p) ==
  /\ Idle(p) /\ ~exists
  /\ pc' = [pc EXCEPT ![p] = "absent"]
  /\ UNCHANGED <<diskVars, owner, view, batch, verdict, worldVars, historyVars>>

ReadAnchorOfAbsent(p) ==
  /\ pc[p] = "absent"
  /\ End(p, AnchorVerdict(<<>>))
  /\ UNCHANGED <<diskVars, owner, view, batch, worldVars, historyVars>>

-----------------------------------------------------------------------------
(* append_via.                                                             *)

\* Opening for append creates the file.
Open(p) ==
  /\ Idle(p)
  /\ exists' = TRUE /\ pc' = [pc EXCEPT ![p] = "opened"]
  /\ UNCHANGED <<lines, torn, durable, anchor, oldAnchor, owner, view, batch, verdict, worldVars, historyVars>>

MayLock(p) == pc[p] = "opened" /\ owner = NoProcess

\* The lock is taken, the journal verified and checked against its anchor.
Lock(p) ==
  /\ MayLock(p)
  /\ view' = [view EXCEPT ![p] = IF Malformed THEN @ ELSE Verified(p)]
  /\ IF Verdict(p) = "ok"
     THEN /\ owner' = p /\ pc' = [pc EXCEPT ![p] = "deciding"] /\ UNCHANGED verdict
     ELSE End(p, Verdict(p)) /\ UNCHANGED owner
  /\ UNCHANGED <<diskVars, batch, worldVars, historyVars>>

NewLines(p, n) == [i \in 1 .. n |-> [seq |-> Len(view[p]) + i, id |-> issued + i]]

\* The builder asks for nothing, or refuses.
DecideNothing(p) ==
  /\ pc[p] = "deciding"
  /\ owner' = NoProcess /\ End(p, "ok")
  /\ UNCHANGED <<diskVars, view, batch, worldVars, historyVars>>

\* The builder's lines are written behind the end of the file, whatever that is.
Write(p) ==
  /\ pc[p] = "deciding"
  /\ \E n \in 1 .. MaxBatch :
       /\ issued + n <= MaxLines
       /\ batch' = [batch EXCEPT ![p] = NewLines(p, n)]
       /\ lines' = lines \o NewLines(p, n)
       /\ issued' = issued + n
  /\ pc' = [pc EXCEPT ![p] = "written"]
  /\ UNCHANGED <<exists, torn, durable, anchor, oldAnchor, owner, view, verdict, worldVars, returned>>

\* The file and its directory are synchronised.
Sync(p) ==
  /\ pc[p] = "written"
  /\ durable' = Len(lines) /\ pc' = [pc EXCEPT ![p] = "synced"]
  /\ UNCHANGED <<exists, lines, torn, anchor, oldAnchor, owner, view, batch, verdict, worldVars, historyVars>>

\* _write_anchor: a temporary file takes the anchor's name; the directory is synchronised next.
WriteAnchor(p) ==
  /\ pc[p] = "synced"
  /\ anchor' = [records |-> Last(batch[p]).seq, last |-> Last(batch[p])]
  /\ pc' = [pc EXCEPT ![p] = "anchored"]
  /\ UNCHANGED <<exists, lines, torn, durable, oldAnchor, owner, view, batch, verdict, worldVars, historyVars>>

Return(p) ==
  /\ pc[p] = "anchored"
  /\ oldAnchor' = anchor
  /\ returned' = returned \cup ToSet(batch[p])
  /\ batch' = [batch EXCEPT ![p] = <<>>]
  /\ owner' = NoProcess /\ End(p, "ok")
  /\ UNCHANGED <<exists, lines, torn, durable, anchor, view, worldVars, issued>>

AppendVia(p) == Open(p) \/ Lock(p) \/ DecideNothing(p) \/ Write(p) \/ Sync(p) \/ WriteAnchor(p) \/ Return(p)

-----------------------------------------------------------------------------
(* Failures, and what happens to the files from outside.                   *)

\* The kernel drops the lock of a process that dies.
Die(p) ==
  /\ pc' = [pc EXCEPT ![p] = "idle"] /\ verdict' = [verdict EXCEPT ![p] = "none"]
  /\ view' = [view EXCEPT ![p] = <<>>] /\ batch' = [batch EXCEPT ![p] = <<>>]
  /\ owner' = IF owner = p THEN NoProcess ELSE owner

Crash(p) ==
  /\ ~Idle(p) /\ Die(p)
  /\ UNCHANGED <<diskVars, worldVars, historyVars>>

\* The write itself is cut short, by a crash or a full disk.
CrashWriting(p) ==
  /\ pc[p] = "deciding" /\ Die(p)
  /\ \E n \in 1 .. MaxBatch :
       /\ issued + n <= MaxLines
       /\ \E k \in 0 .. n : lines' = lines \o SubSeq(NewLines(p, n), 1, k)
       /\ issued' = issued + n
  /\ torn' \in BOOLEAN
  /\ UNCHANGED <<exists, durable, anchor, oldAnchor, worldVars, returned>>

PowerFailure ==
  /\ exists
  /\ \E n \in durable .. Len(lines) :
       /\ lines' = SubSeq(lines, 1, n) /\ durable' = n
       /\ torn' \in IF n < Len(lines) \/ torn THEN BOOLEAN ELSE {FALSE}
  /\ anchor' \in {anchor, oldAnchor} /\ oldAnchor' = anchor'
  /\ owner' = NoProcess
  /\ pc' = [p \in Processes |-> "idle"] /\ verdict' = [p \in Processes |-> "none"]
  /\ view' = [p \in Processes |-> <<>>] /\ batch' = [p \in Processes |-> <<>>]
  /\ UNCHANGED <<exists, worldVars, historyVars>>

Quiet == \A p \in Processes : Idle(p)

Copy ==
  /\ Quiet /\ exists /\ ~torn /\ Cardinality(copies) < MaxCopies
  /\ copies' = copies \cup {lines}
  /\ UNCHANGED <<diskVars, processVars, tampered, historyVars>>

PutBack ==
  /\ Quiet
  /\ \E c \in copies : lines' = c /\ durable' = Len(c)
  /\ exists' = TRUE /\ torn' = FALSE /\ tampered' = TRUE
  /\ UNCHANGED <<anchor, oldAnchor, processVars, copies, historyVars>>

Delete ==
  /\ Quiet /\ exists
  /\ exists' = FALSE /\ lines' = <<>> /\ torn' = FALSE /\ durable' = 0 /\ tampered' = TRUE
  /\ UNCHANGED <<anchor, oldAnchor, processVars, copies, historyVars>>

NothingLeft == lines = <<>> /\ ~torn

\* discard_anchor: the operator gives the old journal up; what it held counts no more.
DiscardAnchor ==
  /\ Quiet /\ anchor # NoAnchor /\ NothingLeft
  /\ anchor' = NoAnchor /\ oldAnchor' = NoAnchor
  /\ returned' = {} /\ copies' = {} /\ tampered' = FALSE
  /\ view' = [p \in Processes |-> <<>>]
  /\ UNCHANGED <<exists, lines, torn, durable, owner, pc, batch, verdict, issued>>

-----------------------------------------------------------------------------

Init ==
  /\ exists = FALSE /\ lines = <<>> /\ torn = FALSE /\ durable = 0
  /\ anchor = NoAnchor /\ oldAnchor = NoAnchor
  /\ owner = NoProcess /\ pc = [p \in Processes |-> "idle"] /\ verdict = [p \in Processes |-> "none"]
  /\ view = [p \in Processes |-> <<>>] /\ batch = [p \in Processes |-> <<>>]
  /\ copies = {} /\ tampered = FALSE /\ issued = 0 /\ returned = {}

Step(p) == Read(p) \/ ReadAbsent(p) \/ ReadAnchorOfAbsent(p) \/ AppendVia(p)

Failure == (\E p \in Processes : Crash(p) \/ CrashWriting(p)) \/ PowerFailure

Outside == Copy \/ PutBack \/ Delete \/ DiscardAnchor

Next == (\E p \in Processes : Step(p)) \/ Failure \/ Outside

Spec == Init /\ [][Next]_vars

-----------------------------------------------------------------------------
(* Safety.                                                                 *)

\* The variables keep their types.
TypeOK ==
  /\ exists \in BOOLEAN /\ torn \in BOOLEAN /\ tampered \in BOOLEAN
  /\ lines \in Seq(Record) /\ durable \in 0 .. Len(lines)
  /\ anchor \in Anchors /\ oldAnchor \in Anchors
  /\ owner \in Processes \cup {NoProcess}
  /\ pc \in [Processes -> {"idle", "absent", "opened", "deciding", "written", "synced", "anchored"}]
  /\ view \in [Processes -> Seq(Record)] /\ batch \in [Processes -> Seq(Record)]
  /\ verdict \in [Processes -> Verdicts]
  /\ copies \subseteq Seq(Record) /\ issued \in Nat /\ returned \subseteq Record

\* A journal that passes the checks holds every line of every append that ever returned, in its
\* place: whatever crashed, lost power or was put back, a loss is noticed and never read over.
AcceptedIsComplete ==
  Accepted => \A r \in returned : r.seq <= Len(lines) /\ lines[r.seq] = r

\* A process decides on exactly the lines that are in the file, and keeps them to itself until
\* its own are written: nobody else appends in between.
DecidesOnTheWholeFile ==
  \A p \in Processes :
    /\ pc[p] = "deciding" => view[p] = lines
    /\ pc[p] \in {"written", "synced", "anchored"} => view[p] \o batch[p] = lines

\* As long as nobody touched the files, the anchor lags the durable lines and never leads them.
AnchorNeverLeads ==
  ~tampered => \A a \in {anchor, oldAnchor} \ {NoAnchor} : a.records <= durable /\ lines[a.records] = a.last

\* Processes that leave whole lines behind leave a journal the next one accepts, once there is
\* an anchor.
AnchoredCrashIsSurvived == ~tampered /\ ~torn /\ oldAnchor # NoAnchor => Accepted

\* What a caller may rely on: nothing accepted is lost unnoticed, nothing is decided on half of
\* the history, and a mere crash does not shut the journal (append_via, _check_anchor).
JournalIsSound ==
  TypeOK /\ AcceptedIsComplete /\ DecidesOnTheWholeFile /\ AnchorNeverLeads /\ AnchoredCrashIsSurvived

-----------------------------------------------------------------------------
(* The invariant behind the proofs.                                        *)

Holds(p)   == pc[p] \in {"deciding", "written", "synced", "anchored"}
Writing(p) == pc[p] \in {"written", "synced", "anchored"}

\* What the holder of the lock has done so far is what the disk shows, and nobody else wrote.
LockInv ==
  \A p \in Processes :
    /\ Holds(p) <=> owner = p
    /\ pc[p] = "deciding" => view[p] = lines
    /\ Writing(p) => batch[p] # <<>> /\ view[p] \o batch[p] = lines
    /\ ~Writing(p) => batch[p] = <<>>
    /\ pc[p] \in {"synced", "anchored"} => durable = Len(lines)
    /\ pc[p] = "anchored" => anchor = [records |-> Len(lines), last |-> Last(lines)]

Numbered(s) == \A i \in 1 .. Len(s) : s[i].seq = i

\* Identities are used once: what is being written is in no copy.
IssuedInv ==
  /\ \A s \in {lines} \cup copies : Numbered(s) /\ \A i \in 1 .. Len(s) : s[i].id <= issued
  /\ \A a \in {anchor, oldAnchor} \ {NoAnchor} : a.last.id <= issued
  /\ \A p \in Processes : \A j \in 1 .. Len(batch[p]) : \A c \in copies : \A i \in 1 .. Len(c) : c[i] # batch[p][j]

\* Lines that agree with the anchor hold everything that ever returned, up to the anchor.
Certifies(a, s) ==
  a.records <= Len(s) /\ s[a.records] = a.last => \A r \in returned : r.seq <= a.records /\ s[r.seq] = r

AnchorInv ==
  /\ \A a \in {anchor, oldAnchor} \ {NoAnchor} : \A s \in {lines} \cup copies : Certifies(a, s)
  /\ anchor = NoAnchor => oldAnchor = NoAnchor
  /\ oldAnchor = NoAnchor => returned = {}
  /\ \A p \in Processes : Holds(p) => \A r \in returned : r.seq <= Len(lines) /\ lines[r.seq] = r

\* A lock holder's work is what the disk shows, identities are unique, and both anchors vouch for
\* everything that returned, in the journal and in every copy of it (append_via, _check_anchor).
JournalInv == LockInv /\ IssuedInv /\ AnchorInv /\ AnchorNeverLeads

-----------------------------------------------------------------------------
(* What the tests and comments say and the code does not do; no            *)
(* configuration checks these.                                             *)

\* tests/edge_task/test_journal.py: "Records past the anchor are allowed: the anchor lags a crash
\* between the two writes" -- the first append included.
CrashIsNotARollback == ~tampered /\ ~torn /\ owner = NoProcess => Accepted

\* journal.py: a journal shorter than its anchor "was rolled back to an older (still
\* valid-looking) prefix: that is state loss, not a crash".
RollbackMeansLoss == \A p \in Processes : verdict[p] = "rolled back" => tampered
=============================================================================
