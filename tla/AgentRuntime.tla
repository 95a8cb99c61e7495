---------------------------- MODULE AgentRuntime ----------------------------
(***************************************************************************)
(* The agent runtime and the site pipeline it drives                       *)
(* (simulation/nxt_agent_runtime/runtime.py, journal.py, publisher.py,     *)
(* checkpoints.py, simulation/nxt_site_runtime/pipeline.py,                *)
(* checkpoints.py and the append of simulation/nxt_pilot_ops/ledger.py).   *)
(*                                                                         *)
(* One cycle takes the frame at the head of an at-least-once source,       *)
(* publishes an envelope made from it under the next sequence number,      *)
(* evaluates it, and only then acknowledges the frame.  Every durable      *)
(* write is a step of its own, so that a crash, a failed write or a second *)
(* runtime on the same stores may come between any two.                    *)
(*                                                                         *)
(* A frame is a number, its place in the order the source offers them; an  *)
(* envelope is the frame, the sequence number and the build that assembled *)
(* it; an evaluation is an envelope and the policy that judged it.  Their  *)
(* identities are content digests, so equal identity is equal content.     *)
(***************************************************************************)
EXTENDS Naturals, Sequences, FiniteSets, SequencesExt

CONSTANTS Runtimes,     \* instances over the same stores and source
          NumFrames,    \* frames the source offers
          Kinds,        \* what may be wrong with a frame
          FirstNumber,  \* sequence number the source starts with
          Configs,      \* configurations an instance may be started with
          Recommends,   \* frames whose evaluation is a recommendation
          RunPolicies,  \* how run() is called
          MaxCrashes,   \* bound: crashes and stops
          MaxFaults,    \* bound: failing calls of stores and source
          MaxTorn,      \* bound: appends that stop half-way
          MaxLostAcks,  \* bound: acknowledgements the source forgets
          MaxAttempts,  \* bound: how often an item is prepared again
          None

Frames == 1 .. NumFrames
Numbers == FirstNumber .. FirstNumber + NumFrames
Files == {"stream", "ledger", "journal"}

ASSUME ConstantsAssumption ==
  /\ NumFrames \in Nat \ {0} /\ FirstNumber \in Nat
  /\ Kinds \subseteq {"good", "poor", "invalid"} /\ Recommends \subseteq Frames
  /\ \A c \in Configs : c.gate \in {"lax", "strict"} /\ DOMAIN c = {"build", "policy", "gate"}
  /\ RunPolicies \subseteq {"once", "stop", "continue"}
  /\ {MaxCrashes, MaxFaults, MaxTorn, MaxLostAcks, MaxAttempts} \subseteq Nat

Batch == [seq : Numbers, frame : Frames]
Envelope == [seq : Numbers, frame : Frames, build : {c.build : c \in Configs}]
Evaluation == [env : Envelope, policy : {c.policy : c \in Configs}]

ASSUME NoneAssumption == None \notin Batch \cup Envelope \cup Evaluation

VARIABLES
  kind,      \* kind[f]: "good"; "poor", below a strict quality gate; "invalid", never acceptable
  head,      \* source: the frame it offers next
  number,    \* source: the sequence number it offers it under
  acked,     \* source: batches acknowledged so far
  rejected,  \* source: frames discarded so far
  site,      \* durable: publication checkpoint
  stream,    \* durable: snapshots.jsonl
  eval,      \* durable: evaluation checkpoint
  ledger,    \* durable: evaluations whose recommendation is issued in ledger.jsonl
  journal,   \* durable: evaluations.jsonl
  torn,      \* durable: the files that end in half a line
  rt,        \* per instance: its configuration and what it holds in memory
  crashes, faults, lostAcks  \* how much of the bounds is used

sourceVars == <<head, number, acked, rejected, lostAcks>>
siteVars == <<site, stream>>
evidenceVars == <<eval, ledger, journal>>
vars == <<kind, sourceVars, siteVars, evidenceVars, torn, rt, crashes, faults>>

-----------------------------------------------------------------------------
(* Checkpoints: both layers prepare an item, do the work, and complete it. *)

NoCheckpoint == [last |-> None, lastAttempts |-> 0, pending |-> None, attempts |-> 0]

\* prepare: a pending item is only ever prepared again, and counted.
Prepare(c, item) ==
  IF c.pending = None THEN [c EXCEPT !.pending = item, !.attempts = 0]
                      ELSE [c EXCEPT !.attempts = @ + 1]

Complete(c) == [last |-> c.pending, lastAttempts |-> c.attempts, pending |-> None, attempts |-> 0]

-----------------------------------------------------------------------------
(* An instance.                                                            *)

Asleep == [pc |-> "down", config |-> None, failed |-> FALSE, recovered |-> FALSE, stop |-> FALSE,
           run |-> "once", previous |-> None, batch |-> None, env |-> None, code |-> "none",
           site |-> NoCheckpoint, eval |-> NoCheckpoint, journal |-> <<>>, outcome |-> "none"]

\* What a cycle leaves in memory when it ends.
AtCycleEnd(me) ==
  [Asleep EXCEPT !.config = me.config, !.failed = me.failed, !.recovered = me.recovered,
                 !.stop = me.stop, !.run = me.run, !.previous = me.previous]

Set(r, me) == rt' = [rt EXCEPT ![r] = me]
Go(r, pc) == Set(r, [rt[r] EXCEPT !.pc = pc])

\* run(): whether another cycle follows, after a cycle that made progress ...
Proceed(me) == [AtCycleEnd(me) EXCEPT !.pc = IF me.run = "once" THEN "rest" ELSE "cycle",
                                      !.previous = None]
\* ... after one that ends the run ...
Cease(me) == [AtCycleEnd(me) EXCEPT !.pc = "rest", !.previous = None]

\* ... and after a rejection: the second one that looks the same ends the run.
Signature(me, code) ==
  [code |-> code, seq |-> IF me.batch = None THEN None ELSE me.batch.seq,
   detail |-> IF me.batch = None THEN "none" ELSE kind[me.batch.frame]]
Rejected(me, code) ==
  IF me.run = "continue" /\ Signature(me, code) # me.previous
    THEN [AtCycleEnd(me) EXCEPT !.pc = "cycle", !.previous = Signature(me, code)]
    ELSE Cease(me)

FailClosed(me) == [Cease(me) EXCEPT !.failed = TRUE]

Reject(r, code) == Set(r, Rejected(rt[r], code))
Defer(r) == Set(r, Cease(rt[r]))
Fail(r) == Set(r, FailClosed(rt[r]))

\* A call of a store or of the source that raises.
Fault == faults < MaxFaults /\ faults' = faults + 1
NoFault == UNCHANGED faults

-----------------------------------------------------------------------------
(* Starting an instance and running cycles.                                *)

Start(r) ==
  /\ rt[r].pc = "down"
  /\ \E c \in Configs : Set(r, [Asleep EXCEPT !.pc = "rest", !.config = c])
  /\ UNCHANGED <<kind, sourceVars, siteVars, evidenceVars, torn, crashes, faults>>

\* run() or run_once(); both refuse a runtime that failed or was stopped.
Refuses(me) == me.failed \/ me.stop
Run(r) ==
  /\ rt[r].pc = "rest" /\ ~Refuses(rt[r])
  /\ \E p \in RunPolicies : Set(r, [rt[r] EXCEPT !.pc = "cycle", !.run = p])
  /\ UNCHANGED <<kind, sourceVars, siteVars, evidenceVars, torn, crashes, faults>>

\* An instance that refuses to run is of no use but to be replaced.
Exit(r) ==
  /\ rt[r].pc = "rest" /\ Refuses(rt[r])
  /\ Set(r, Asleep)
  /\ UNCHANGED <<kind, sourceVars, siteVars, evidenceVars, torn, crashes, faults>>

\* A stop is honoured between cycles.
RequestStop(r) ==
  /\ rt[r].pc # "down" /\ ~rt[r].stop
  /\ crashes < MaxCrashes /\ crashes' = crashes + 1
  /\ Set(r, [rt[r] EXCEPT !.stop = TRUE])
  /\ UNCHANGED <<kind, sourceVars, siteVars, evidenceVars, torn, faults>>

BeginCycle(r) ==
  /\ rt[r].pc = "cycle"
  /\ IF rt[r].stop THEN Defer(r)
     ELSE Go(r, IF rt[r].recovered THEN "peek" ELSE "verify")
  /\ UNCHANGED <<kind, sourceVars, siteVars, evidenceVars, torn, crashes, faults>>

-----------------------------------------------------------------------------
(* recover(): four stores are read, one after the other, and compared.     *)

ToCycle(me) == [me EXCEPT !.pc = "peek", !.journal = <<>>, !.site = NoCheckpoint]

\* A store that cannot be read postpones recovery to the next cycle.
RecoveryUnavailable(r) ==
  /\ rt[r].pc \in {"verify", "readjournal", "loadsite", "reconcile"}
  /\ Fault /\ Set(r, ToCycle(rt[r]))
  /\ UNCHANGED <<kind, sourceVars, siteVars, evidenceVars, torn, crashes>>

VerifyLedger(r) ==
  /\ rt[r].pc = "verify"
  /\ IF "ledger" \in torn THEN Fail(r) ELSE Go(r, "readjournal")
  /\ UNCHANGED <<kind, sourceVars, siteVars, evidenceVars, torn, crashes, faults>>

ReadJournal(r) ==
  /\ rt[r].pc = "readjournal"
  /\ IF "journal" \in torn THEN Fail(r)
     ELSE Set(r, [rt[r] EXCEPT !.pc = "loadsite", !.journal = journal])
  /\ UNCHANGED <<kind, sourceVars, siteVars, evidenceVars, torn, crashes, faults>>

LoadSite(r) ==
  /\ rt[r].pc = "loadsite"
  /\ Set(r, [rt[r] EXCEPT !.pc = "reconcile", !.site = site])
  /\ UNCHANGED <<kind, sourceVars, siteVars, evidenceVars, torn, crashes, faults>>

\* A plausible slip: the two checkpoints have to agree exactly.
AlignedExactly(e, s, j) ==
  /\ e.last # None /\ s.last # None => e.last.env.seq = s.last.seq
  /\ e.last # None => \E i \in 1 .. Len(j) : j[i] = e.last

\* The comparisons of recover(), on the checkpoint of evaluations e, the
\* checkpoint of publications s and the records j of the journal.
Aligned(e, s, j) ==
  /\ e.last # None /\ s.last # None =>
       e.last.env.seq = s.last.seq \/ e.last.env.seq + 1 = s.last.seq
  /\ e.pending # None /\ s.last # None => e.pending.env.seq = s.last.seq
  /\ j # <<>> => LET newest == Last(j).env.seq
                 IN  IF e.pending # None THEN newest <= e.pending.env.seq
                     ELSE e.last # None /\ newest <= e.last.env.seq
  /\ e.last # None => \E i \in 1 .. Len(j) : j[i] = e.last

Reconcile(r) ==
  /\ rt[r].pc = "reconcile"
  /\ IF Aligned(eval, rt[r].site, rt[r].journal)
       THEN Set(r, [ToCycle(rt[r]) EXCEPT !.recovered = TRUE])
       ELSE Fail(r)
  /\ UNCHANGED <<kind, sourceVars, siteVars, evidenceVars, torn, crashes, faults>>

Recover(r) == VerifyLedger(r) \/ ReadJournal(r) \/ LoadSite(r) \/ Reconcile(r) \/ RecoveryUnavailable(r)

-----------------------------------------------------------------------------
(* The site pipeline: observe, admit, publish; or refuse.                  *)

\* run_once of the runtime looks whether the source is exhausted ...
Peek(r) ==
  /\ rt[r].pc = "peek"
  /\ IF head > NumFrames THEN Defer(r) ELSE Go(r, "observe")
  /\ UNCHANGED <<kind, sourceVars, siteVars, evidenceVars, torn, crashes, faults>>

\* ... and run_once of the pipeline asks again: another instance may have settled the frame since.
Observe(r) ==
  /\ rt[r].pc = "observe"
  /\ IF head > NumFrames THEN Reject(r, "ingestion_failed")
     ELSE Set(r, [rt[r] EXCEPT !.pc = "admit", !.batch = [seq |-> number, frame |-> head]])
  /\ UNCHANGED <<kind, sourceVars, siteVars, evidenceVars, torn, crashes, faults>>

\* An outage of the source, of a checkpoint store or of the assembler, before anything is written.
Outage(r) ==
  /\ \/ rt[r].pc \in {"peek", "observe"} /\ Reject(r, "ingestion_failed")
     \/ rt[r].pc = "admit" /\ (Reject(r, "checkpoint_failed") \/ Reject(r, "assembly_failed"))
     \/ rt[r].pc = "refuse" /\ Reject(r, rt[r].code)
     \/ rt[r].pc = "evaluate" /\ Defer(r)
     \/ rt[r].pc = "lookledger" /\ Defer(r)
  /\ Fault
  /\ UNCHANGED <<kind, sourceVars, siteVars, evidenceVars, torn, crashes>>

Assembled(me) == [seq |-> me.batch.seq, frame |-> me.batch.frame, build |-> me.config.build]

\* _sequence_mode
PendingReplay(me) == site.pending # None /\ site.pending.seq = me.batch.seq
CompletedReplay(me) == site.pending = None /\ site.last # None /\ site.last.seq = me.batch.seq
NextInOrder(me) == site.pending = None /\ (site.last # None => me.batch.seq = site.last.seq + 1)

\* A replay has to reproduce the identity of the envelope it replays.
SameEnvelope(item, env) == item = env

\* The quality gate judges new frames only.
BelowGate(me) == kind[me.batch.frame] = "poor" /\ me.config.gate = "strict"

\* process() up to its first write.
Admit(r) ==
  LET me == rt[r]
      env == Assembled(me)
      Refuse(code) == Set(r, [me EXCEPT !.pc = "refuse", !.code = code])
      Admitted(pc) == Set(r, [me EXCEPT !.pc = pc, !.env = env, !.site = site])
  IN  /\ me.pc = "admit"
      /\ IF kind[me.batch.frame] = "invalid" THEN Refuse("invalid_observation")
         ELSE \/ /\ PendingReplay(me)
                 /\ IF SameEnvelope(site.pending, env) THEN Admitted("prepare") ELSE Reject(r, "replay_mismatch")
              \/ /\ CompletedReplay(me)
                 /\ IF SameEnvelope(site.last, env) THEN Set(r, [me EXCEPT !.pc = "evaluate", !.env = env])
                                       ELSE Reject(r, "replay_mismatch")
              \/ /\ NextInOrder(me)
                 /\ IF BelowGate(me) THEN Refuse("insufficient_quality") ELSE Admitted("prepare")
              \/ /\ ~ (PendingReplay(me) \/ CompletedReplay(me) \/ NextInOrder(me))
                 /\ Reject(r, "invalid_sequence")
      /\ UNCHANGED <<kind, sourceVars, siteVars, evidenceVars, torn, crashes, faults>>

\* A plausible slip: the first frame of all is not at the next position.
MayDiscardLater(seq) == site.pending = None /\ site.last # None /\ seq = site.last.seq + 1

\* _should_reject_source_input
MayDiscard(seq) == site.pending = None /\ (site.last # None => seq = site.last.seq + 1)

ConsiderDiscarding(r) ==
  /\ rt[r].pc = "refuse"
  /\ IF MayDiscard(rt[r].batch.seq) THEN Go(r, "discard") ELSE Reject(r, rt[r].code)
  /\ UNCHANGED <<kind, sourceVars, siteVars, evidenceVars, torn, crashes, faults>>

\* What the source offers is the batch with this sequence number.
Offers(seq) == head <= NumFrames /\ number = seq

\* reject(): the source drops the frame and reuses its number for the next one.
Discard(r) ==
  /\ rt[r].pc = "discard"
  /\ \/ /\ Offers(rt[r].batch.seq)
        /\ head' = head + 1 /\ rejected' = rejected \cup {head}
        /\ \/ Reject(r, rt[r].code) /\ NoFault
           \/ Reject(r, "ingestion_failed") /\ Fault
     \/ /\ \/ ~Offers(rt[r].batch.seq) /\ NoFault
           \/ Fault
        /\ Reject(r, "ingestion_failed")
        /\ UNCHANGED <<head, rejected>>
  /\ UNCHANGED <<kind, number, acked, lostAcks, siteVars, evidenceVars, torn, crashes>>

\* compare_and_save of the publication checkpoint.  It may fail before or after the file is replaced.
SaveSite(r, updated, saved) ==
  \/ /\ site = rt[r].site /\ site' = updated
     /\ \/ Set(r, saved) /\ NoFault
        \/ Reject(r, "checkpoint_failed") /\ Fault
  \/ /\ \/ site # rt[r].site /\ NoFault
        \/ Fault
     /\ Reject(r, "checkpoint_failed") /\ UNCHANGED site

PreparePublication(r) ==
  LET me == rt[r]
      prepared == Prepare(me.site, me.env)
  IN  /\ me.pc = "prepare" /\ site.attempts < MaxAttempts
      /\ SaveSite(r, prepared, [me EXCEPT !.pc = "publish", !.site = prepared])
      /\ UNCHANGED <<kind, sourceVars, stream, evidenceVars, torn, crashes>>

\* A plausible slip: an envelope that is already there is appended again.
PublishAgain(r) ==
  /\ rt[r].pc = "publish" /\ "stream" \notin torn
  /\ stream' = Append(stream, rt[r].env)
  /\ \/ Go(r, "complete") /\ NoFault
     \/ Reject(r, "publish_failed") /\ Fault
  /\ UNCHANGED <<kind, sourceVars, site, evidenceVars, torn, crashes>>

\* A plausible slip: the end of the file is not verified.
PublishUnverified(r) ==
  LET env == rt[r].env
  IN  /\ rt[r].pc = "publish"
      /\ stream' = IF Contains(stream, env) THEN stream ELSE Append(stream, env)
      /\ Go(r, "complete") /\ NoFault
      /\ UNCHANGED <<kind, sourceVars, site, evidenceVars, torn, crashes>>

\* JsonlSnapshotPublisher.publish: at most once per envelope, never behind half a line.
Publish(r) ==
  LET env == rt[r].env
  IN  /\ rt[r].pc = "publish"
      /\ \/ /\ "stream" \notin torn
            /\ stream' = IF Contains(stream, env) THEN stream ELSE Append(stream, env)
            /\ \/ Go(r, "complete") /\ NoFault
               \/ Reject(r, "publish_failed") /\ Fault
         \/ /\ \/ "stream" \in torn /\ NoFault
               \/ Fault
            /\ Reject(r, "publish_failed") /\ UNCHANGED stream
      /\ UNCHANGED <<kind, sourceVars, site, evidenceVars, torn, crashes>>

\* A plausible slip: the acknowledgement of the pipeline is not held back.
CompleteAndAcknowledge(r) ==
  /\ rt[r].pc = "complete" /\ site = rt[r].site /\ site' = Complete(site)
  /\ Set(r, [rt[r] EXCEPT !.pc = "evaluate", !.site = NoCheckpoint])
  /\ head' = head + 1 /\ number' = number + 1 /\ acked' = acked \cup {[seq |-> number, frame |-> head]}
  /\ UNCHANGED <<kind, rejected, lostAcks, stream, evidenceVars, torn, crashes, faults>>

CompletePublication(r) ==
  /\ rt[r].pc = "complete"
  /\ SaveSite(r, Complete(rt[r].site), [rt[r] EXCEPT !.pc = "evaluate", !.site = NoCheckpoint])
  /\ UNCHANGED <<kind, sourceVars, stream, evidenceVars, torn, crashes>>

Pipeline(r) ==
  \/ Peek(r) \/ Observe(r) \/ Admit(r) \/ ConsiderDiscarding(r) \/ Discard(r)
  \/ PreparePublication(r) \/ Publish(r) \/ CompletePublication(r)

-----------------------------------------------------------------------------
(* _evaluate_admitted: exactly one record per published envelope.          *)

Judged(me) == [env |-> me.env, policy |-> me.config.policy]

\* The loaded checkpoint says this envelope was evaluated; or that it is the one to evaluate.
AlreadyEvaluated(me) == eval.last # None /\ eval.last.env = me.env

MayEvaluate(me) ==
  /\ eval.last # None => eval.last.env.seq # me.env.seq
  /\ IF eval.pending # None THEN eval.pending = Judged(me)
     ELSE eval.last # None => me.env.seq = eval.last.env.seq + 1

Evaluate(r) ==
  LET me == rt[r]
  IN  /\ me.pc = "evaluate"
      /\ IF AlreadyEvaluated(me) THEN Set(r, [me EXCEPT !.pc = "acknowledge", !.outcome = "skipped"])
         ELSE IF MayEvaluate(me) THEN Set(r, [me EXCEPT !.pc = "evalprepare", !.eval = eval])
         ELSE Fail(r)
      /\ UNCHANGED <<kind, sourceVars, siteVars, evidenceVars, torn, crashes, faults>>

SaveEvaluation(r, updated, saved) ==
  \/ /\ eval = rt[r].eval /\ eval' = updated
     /\ \/ Set(r, saved) /\ NoFault
        \/ Defer(r) /\ Fault
  \/ /\ \/ eval # rt[r].eval /\ NoFault
        \/ Fault
     /\ Defer(r) /\ UNCHANGED eval

PrepareEvaluation(r) ==
  LET me == rt[r]
      prepared == Prepare(me.eval, Judged(me))
      next == IF me.env.frame \in Recommends THEN "lookledger" ELSE "journal"
  IN  /\ me.pc = "evalprepare" /\ eval.attempts < MaxAttempts
      /\ SaveEvaluation(r, prepared, [me EXCEPT !.pc = next, !.eval = prepared])
      /\ UNCHANGED <<kind, sourceVars, siteVars, ledger, journal, torn, crashes>>

\* _append_ledger_idempotent looks first and appends in a second call.
LookInLedger(r) ==
  /\ rt[r].pc = "lookledger"
  /\ IF "ledger" \in torn THEN Fail(r)
     ELSE IF Contains(ledger, Judged(rt[r])) THEN Go(r, "journal")
     ELSE Go(r, "issue")
  /\ UNCHANGED <<kind, sourceVars, siteVars, evidenceVars, torn, crashes, faults>>

\* JsonlEventLedger.append refuses an event it already holds.
IssueRecommendation(r) ==
  LET event == Judged(rt[r])
  IN  /\ rt[r].pc = "issue"
      /\ \/ /\ "ledger" \notin torn /\ ~Contains(ledger, event)
            /\ ledger' = Append(ledger, event)
            /\ \/ Go(r, "journal") /\ NoFault
               \/ Defer(r) /\ Fault
         \/ /\ \/ "ledger" \in torn /\ Fail(r) /\ NoFault
               \/ "ledger" \notin torn /\ Contains(ledger, event) /\ Defer(r) /\ NoFault
               \/ Defer(r) /\ Fault
            /\ UNCHANGED ledger
      /\ UNCHANGED <<kind, sourceVars, siteVars, eval, journal, torn, crashes>>

\* EvaluationJournal.append: a record is kept once; one that does not fit is refused.
Journaled(record) == Contains(journal, record)
Fits(record) ==
  /\ "journal" \notin torn
  /\ \A i \in 1 .. Len(journal) : journal[i].env.seq # record.env.seq
  /\ journal # <<>> => record.env.seq = Last(journal).env.seq + 1

AppendJournal(r) ==
  LET record == Judged(rt[r])
  IN  /\ rt[r].pc = "journal"
      /\ \/ /\ Fits(record) /\ journal' = Append(journal, record)
            /\ \/ Go(r, "evalcomplete") /\ NoFault
               \/ Defer(r) /\ Fault
         \/ /\ \/ "journal" \notin torn /\ Journaled(record) /\ Go(r, "evalcomplete") /\ NoFault
               \/ ~Fits(record) /\ ("journal" \in torn \/ ~Journaled(record)) /\ Fail(r) /\ NoFault
               \/ Defer(r) /\ Fault
            /\ UNCHANGED journal
      /\ UNCHANGED <<kind, sourceVars, siteVars, eval, ledger, torn, crashes>>

CompleteEvaluation(r) ==
  /\ rt[r].pc = "evalcomplete"
  /\ SaveEvaluation(r, Complete(rt[r].eval), [rt[r] EXCEPT !.pc = "acknowledge", !.outcome = "evaluated"])
  /\ UNCHANGED <<kind, sourceVars, siteVars, ledger, journal, torn, crashes>>

\* _DeferredAcknowledgementSource.commit: only now is the source told.
Acknowledge(r) ==
  /\ rt[r].pc = "acknowledge"
  /\ \/ /\ Offers(rt[r].batch.seq)
        /\ head' = head + 1 /\ number' = number + 1
        /\ acked' = acked \cup {[seq |-> number, frame |-> head]}
        /\ \/ Set(r, Proceed(rt[r])) /\ NoFault
           \/ Defer(r) /\ Fault
     \/ /\ \/ ~Offers(rt[r].batch.seq) /\ NoFault
           \/ Fault
        /\ Defer(r) /\ UNCHANGED <<head, number, acked>>
  /\ UNCHANGED <<kind, rejected, lostAcks, siteVars, evidenceVars, torn, crashes>>

Evaluating(r) ==
  \/ Evaluate(r) \/ PrepareEvaluation(r) \/ LookInLedger(r) \/ IssueRecommendation(r)
  \/ AppendJournal(r) \/ CompleteEvaluation(r) \/ Acknowledge(r)

-----------------------------------------------------------------------------
(* Failures.                                                               *)

Crash(r) ==
  /\ rt[r].pc # "down" /\ crashes < MaxCrashes /\ crashes' = crashes + 1
  /\ Set(r, Asleep)
  /\ UNCHANGED <<kind, sourceVars, siteVars, evidenceVars, torn, faults>>

\* An append that stops half-way leaves half a line; the process dies, or the call raises.
HalfWritten(r) ==
  \/ /\ rt[r].pc = "publish" /\ "stream" \notin torn /\ ~Contains(stream, rt[r].env)
     /\ torn' = torn \cup {"stream"}
     /\ Set(r, Asleep) \/ Reject(r, "publish_failed")
  \/ /\ rt[r].pc = "issue" /\ "ledger" \notin torn /\ ~Contains(ledger, Judged(rt[r]))
     /\ torn' = torn \cup {"ledger"}
     /\ Set(r, Asleep) \/ Defer(r)
  \/ /\ rt[r].pc = "journal" /\ Fits(Judged(rt[r]))
     /\ torn' = torn \cup {"journal"}
     /\ Set(r, Asleep) \/ Defer(r)

TearWrite(r) ==
  /\ Cardinality(torn) < MaxTorn
  /\ HalfWritten(r)
  /\ UNCHANGED <<kind, sourceVars, siteVars, evidenceVars, crashes, faults>>

\* The source forgets its last acknowledgement and offers the frame again.
LoseAck ==
  /\ lostAcks < MaxLostAcks /\ lostAcks' = lostAcks + 1
  /\ \E a \in acked : /\ a.frame = head - 1 /\ a.seq = number - 1
                      /\ head' = a.frame /\ number' = a.seq
  /\ UNCHANGED <<kind, acked, rejected, siteVars, evidenceVars, torn, rt, crashes, faults>>

-----------------------------------------------------------------------------
Init ==
  /\ kind \in [Frames -> Kinds]
  /\ head = 1 /\ number = FirstNumber /\ acked = {} /\ rejected = {}
  /\ site = NoCheckpoint /\ stream = <<>>
  /\ eval = NoCheckpoint /\ ledger = <<>> /\ journal = <<>>
  /\ torn = {} /\ rt = [r \in Runtimes |-> Asleep]
  /\ crashes = 0 /\ faults = 0 /\ lostAcks = 0

Work(r) == Start(r) \/ Run(r) \/ Exit(r) \/ BeginCycle(r) \/ Recover(r) \/ Pipeline(r) \/ Evaluating(r)
Trouble(r) == Outage(r) \/ Crash(r) \/ TearWrite(r) \/ RequestStop(r)

Next == LoseAck \/ \E r \in Runtimes : Work(r) \/ Trouble(r)

Spec == Init /\ [][Next]_vars

\* The caller keeps running its instance and replaces one that refuses to run.
FairSpec == Spec /\ \A r \in Runtimes : WF_vars(Work(r))

-----------------------------------------------------------------------------
(* Properties.                                                             *)

\* What RuntimeCheckpoint and EvaluationCheckpoint accept.
Checkpoints(Item, Number(_)) ==
  {c \in [last : Item \cup {None}, lastAttempts : Nat, pending : Item \cup {None}, attempts : Nat] :
     /\ c.last = None => c.lastAttempts = 0
     /\ c.pending = None => c.attempts = 0
     /\ c.last # None /\ c.pending # None => Number(c.pending) = Number(c.last) + 1}
Publications == Checkpoints(Envelope, LAMBDA env : env.seq)
Evaluations == Checkpoints(Evaluation, LAMBDA record : record.env.seq)

\* The types of the stores, the source and the instances.
TypeOK ==
  /\ kind \in [Frames -> Kinds]
  /\ head \in 1 .. NumFrames + 1 /\ number \in Numbers
  /\ acked \subseteq Batch /\ rejected \subseteq Frames
  /\ site \in Publications /\ stream \in Seq(Envelope)
  /\ eval \in Evaluations /\ ledger \in Seq(Evaluation) /\ journal \in Seq(Evaluation)
  /\ torn \subseteq Files
  /\ \A r \in Runtimes : /\ rt[r].batch \in Batch \cup {None} /\ rt[r].env \in Envelope \cup {None}
                         /\ rt[r].site \in Publications /\ rt[r].eval \in Evaluations

\* What is judged is what was published, and nothing else is published until it is judged:
\* the n-th record of evaluations.jsonl is for the n-th envelope of snapshots.jsonl, the very
\* build included, and at most the newest envelope has no record (_evaluate_admitted, process).
EvaluatedAsPublished ==
  /\ Len(journal) \in {Len(stream), Len(stream) - 1}
  /\ \A i \in 1 .. Len(journal) : journal[i].env = stream[i]

\* The ledger and the journal tell one story: a recommendation is issued once, before the journal
\* refers to it, and one the journal does not know yet is the one the checkpoint holds as pending,
\* so that a restart under another policy cannot leave an orphan (_append_ledger_idempotent).
IssuedIsJournaledOrPending ==
  /\ IsInjective(ledger)
  /\ \A i \in 1 .. Len(journal) : journal[i].env.frame \in Recommends => Contains(ledger, journal[i])
  /\ \A i \in 1 .. Len(ledger) : Contains(journal, ledger[i]) \/ eval.pending = ledger[i]

\* The source forgets a frame only when its evaluation is in the journal under the number it was
\* acknowledged with, or when it was discarded (_DeferredAcknowledgementSource).
NoFrameIsLost ==
  \A f \in 1 .. head - 1 :
    \/ f \in rejected
    \/ \E a \in acked, i \in 1 .. Len(journal) :
         a.frame = f /\ journal[i].env.frame = f /\ journal[i].env.seq = a.seq

\* From the source to the journal no evidence is lost, judged twice or left without its story.
EvidenceIsKept == TypeOK /\ EvaluatedAsPublished /\ IssuedIsJournaledOrPending /\ NoFrameIsLost

\* Without half-written files and changes of configuration no crash and no failing call makes
\* the runtime fail closed: what recover() and _evaluate_admitted refuse does not arise by itself.
NoFalseAlarm ==
  (\E r \in Runtimes : rt[r].failed) => torn # {} \/ Cardinality(Configs) > 1

\* Nothing is ever appended behind half a line, whoever tries (verify before append).
HalfALineIsTheLast ==
  [][/\ "stream" \in torn => stream' = stream
     /\ "ledger" \in torn => ledger' = ledger
     /\ "journal" \in torn => journal' = journal]_vars

\* The source offers a number that the publication checkpoint has already left behind.
SourceFellBehind ==
  \/ site.pending # None /\ number < site.pending.seq
  \/ site.last # None /\ number < site.last.seq

\* Every frame is evaluated and acknowledged, or discarded, whatever crashes on the way, unless
\* half a line has to be looked at by a person first, or the source forgets the acknowledgement
\* of a frame whose successor is being published: _sequence_mode refuses that one for ever.
EveryFrameIsSettled == <>(head = NumFrames + 1 \/ torn # {} \/ SourceFellBehind)

\* runtime.py says of the second rejection that looks like the first: "The source retained the
\* frame and nothing changed".
RepeatedMeansRetained ==
  [][\A r \in Runtimes :
       rt[r].pc = "discard" /\ rt[r].run = "continue" /\ rt'[r].pc = "rest" => head' = head]_vars

\* pipeline.py says of _should_reject_source_input: "Discard only a bad frame occupying the next
\* publish position".
OnlyBadFramesAreDiscarded == \A f \in rejected : kind[f] # "good"

\* The runtime keeps the promise of FrameSettlement.
Promise == INSTANCE FrameSettlement WITH
  published <- [i \in DOMAIN stream |-> [seq |-> stream[i].seq, frame |-> stream[i].frame]],
  evaluated <- [i \in DOMAIN journal |-> [seq |-> journal[i].env.seq, frame |-> journal[i].env.frame]],
  acknowledged <- {a.frame : a \in acked},
  discarded <- rejected
PromiseKept == Promise!Spec

=============================================================================
