------------------------ MODULE AgentRuntime_proofs ------------------------
(***************************************************************************)
(* Proofs about AgentRuntime, for every number of frames and of instances  *)
(* over the same stores, every set of configurations and every bound: what *)
(* is judged is what was published, no recommendation is an orphan, and    *)
(* nothing is written behind half a line.  For a source with one consumer  *)
(* at a time (the source is a cursor in the memory of one process): frames *)
(* are settled as FrameSettlement says, none is lost, and the runtime      *)
(* raises no false alarm.                                                  *)
(***************************************************************************)
EXTENDS AgentRuntime, FiniteSetTheorems, SequenceTheorems, TLAPS

-----------------------------------------------------------------------------
(* The inductive invariant.  The stores first: how many envelopes and      *)
(* evaluations are complete, and what stands behind them.                  *)

\* The place in snapshots.jsonl that the number of an envelope gives it.
Place(env) == IF env = None THEN 0 ELSE env.seq + 1 - FirstNumber

Completed == Place(site.last)
Settled   == IF eval.last = None THEN 0 ELSE Place(eval.last.env)

\* The stream is what the publication checkpoint completed, and perhaps what it holds as pending.
StreamSound ==
  /\ \A i \in 1 .. Len(stream) : stream[i].seq + 1 = FirstNumber + i
  /\ site.last # None => Completed \in 1 .. Len(stream) /\ stream[Completed] = site.last
  /\ site.pending = None => Len(stream) = Completed
  /\ site.pending # None =>
       /\ Place(site.pending) = Completed + 1
       /\ \/ Len(stream) = Completed
          \/ Len(stream) = Completed + 1 /\ stream[Completed + 1] = site.pending

\* So is the journal what the evaluation checkpoint completed, and it follows the stream.
JournalSound ==
  /\ eval.last # None => Settled \in 1 .. Len(journal) /\ journal[Settled] = eval.last
  /\ eval.pending = None => Len(journal) = Settled
  /\ eval.pending # None =>
       /\ Place(eval.pending.env) = Settled + 1
       /\ \/ Len(journal) = Settled
          \/ Len(journal) = Settled + 1 /\ journal[Settled + 1] = eval.pending
  /\ Len(journal) <= Len(stream)
  /\ \A i \in 1 .. Len(journal) : journal[i].env = stream[i]

\* Publication is at most one envelope ahead of evaluation, and waits for it.
InStep ==
  /\ Settled <= Completed /\ Completed <= Settled + 1
  /\ site.pending # None => Completed = Settled
  /\ eval.pending # None => Completed = Settled + 1 /\ eval.pending.env = site.last

\* The source counts no further than what is settled.
SourceSound ==
  /\ number + 1 <= FirstNumber + head
  /\ number <= FirstNumber + Settled

StoresInv == StreamSound /\ JournalSound /\ InStep /\ SourceSound /\ IssuedIsJournaledOrPending

\* What an instance holds in memory, which the stores may have left behind since.
Publishing == {"publish", "complete"}
Assembling == {"prepare"} \cup Publishing
Recording  == {"lookledger", "issue", "journal", "evalcomplete"}
Judging    == {"evaluate", "evalprepare", "acknowledge"} \cup Recording
Holding    == {"admit", "refuse", "discard"} \cup Assembling \cup Judging
Stages     == {"down", "rest", "cycle", "verify", "readjournal", "loadsite", "reconcile", "peek", "observe"} \cup Holding
Codes      == {"none", "ingestion_failed", "checkpoint_failed", "assembly_failed", "replay_mismatch",
               "invalid_observation", "insufficient_quality", "invalid_sequence", "publish_failed"}

Instance ==
  [pc : Stages, config : Configs \cup {None}, failed : BOOLEAN, recovered : BOOLEAN, stop : BOOLEAN,
   run : {"once", "stop", "continue"},
   previous : [code : Codes, seq : Numbers \cup {None}, detail : {"none", "good", "poor", "invalid"}] \cup {None},
   batch : Batch \cup {None}, env : Envelope \cup {None}, code : Codes,
   site : Publications, eval : Evaluations, journal : Seq(Evaluation), outcome : {"none", "skipped", "evaluated"}]

HoldsBatch(me) ==
  /\ me.pc # "down" => me.config \in Configs
  /\ me.pc \in Holding => me.batch \in Batch
  /\ me.batch # None => me.batch.seq <= FirstNumber + Settled
  /\ me.pc \in Assembling \cup Judging => me.env = Assembled(me)

\* The pending publication is the one to repeat, or there is none and this one is next.
HoldsPublication(me) ==
  /\ me.pc = "prepare" =>
       \/ me.site.pending = me.env
       \/ me.site.pending = None /\ (me.site.last # None => me.env.seq = me.site.last.seq + 1)
  /\ me.pc \in Publishing => me.site.pending = me.env /\ (site.pending = me.env \/ Contains(stream, me.env))
  /\ me.pc = "complete" => Contains(stream, me.env)

HoldsEvaluation(me) ==
  /\ me.pc \in Judging => Contains(stream, me.env) /\ Place(me.env) <= Completed
  /\ me.pc = "evalprepare" =>
       \/ me.eval.pending = Judged(me)
       \/ me.eval.pending = None /\ (me.eval.last # None => me.env.seq = me.eval.last.env.seq + 1)
  /\ me.pc \in Recording => /\ me.eval.pending = Judged(me)
                            /\ eval.pending = Judged(me) \/ Contains(journal, Judged(me))
  /\ me.pc \in {"lookledger", "issue"} => me.env.frame \in Recommends
  /\ me.pc = "journal" /\ me.env.frame \in Recommends => Contains(ledger, Judged(me))
  /\ me.pc = "evalcomplete" => Contains(journal, Judged(me))
  /\ me.pc = "acknowledge" => Place(me.env) <= Settled

Holds(me) == HoldsBatch(me) /\ HoldsPublication(me) /\ HoldsEvaluation(me)

MemoryInv == \A r \in Runtimes : Holds(rt[r])

AgentInv == TypeOK /\ rt \in [Runtimes -> Instance] /\ StoresInv /\ MemoryInv

-----------------------------------------------------------------------------
(* A source with one consumer: one instance, restarted as often as need be *)
(* (nxt_edge_observation/feed.py:1-21, docs/agent_runtime_v1.md:61).       *)

OneConsumer == \A r, s \in Runtimes : r = s

FramesIn(s) == {s[i].frame : i \in 1 .. Len(s)}
Acked == {a.frame : a \in acked}

\* Number n belongs to frame f: the frames before it are settled, those published before it come
\* before it, and if one is already published under n it is f.
Belongs(n, f) ==
  /\ n <= FirstNumber + Len(stream)
  /\ \A i \in 1 .. Len(stream) : /\ FirstNumber + i <= n => stream[i].frame < f
                                 /\ FirstNumber + i = n + 1 => stream[i].frame = f
  /\ \A g \in Frames : g < f => g \in rejected \cup Acked
  /\ \A g \in rejected : g < f

FramesInv ==
  /\ Belongs(number, head)
  /\ site.pending # None => /\ Belongs(site.pending.seq, site.pending.frame)
                            /\ number = site.pending.seq => head = site.pending.frame
  /\ \A i, j \in 1 .. Len(stream) : i < j => stream[i].frame < stream[j].frame
  /\ rejected \cap FramesIn(stream) = {}
  /\ \A a \in acked : \E i \in 1 .. Len(stream) :
       stream[i].frame = a.frame /\ stream[i].seq = a.seq /\ i <= Settled

Consumes(me) ==
  /\ me.batch # None => /\ Belongs(me.batch.seq, me.batch.frame)
                        /\ number <= me.batch.seq /\ (number = me.batch.seq => head = me.batch.frame)
  /\ me.pc = "discard" => MayDiscard(me.batch.seq)
  /\ me.pc \in Assembling => me.site = site
  /\ me.pc \in Judging => site.pending = None /\ site.last = me.env
  /\ me.pc \in {"evalprepare"} \cup Recording => me.eval = eval
  /\ me.pc \in {"loadsite", "reconcile"} => me.journal = journal
  /\ me.pc = "reconcile" => me.site = site

ConsumerInv == \A r \in Runtimes : Consumes(rt[r])

SettledInv == FramesInv /\ ConsumerInv

-----------------------------------------------------------------------------
(* Types.                                                                  *)

StoresType ==
  /\ kind \in [Frames -> Kinds]
  /\ head \in 1 .. NumFrames + 1 /\ number \in Numbers
  /\ acked \subseteq Batch /\ rejected \subseteq Frames
  /\ site \in Publications /\ stream \in Seq(Envelope)
  /\ eval \in Evaluations /\ ledger \in Seq(Evaluation) /\ journal \in Seq(Evaluation)
  /\ torn \subseteq Files

LEMMA TypeSplits == TypeOK /\ rt \in [Runtimes -> Instance] <=> StoresType /\ rt \in [Runtimes -> Instance]
BY DEF TypeOK, StoresType, Instance

LEMMA PublicationFields ==
  ASSUME NEW c
  PROVE  c \in Publications <=>
           /\ c \in [last : Envelope \cup {None}, lastAttempts : Nat, pending : Envelope \cup {None}, attempts : Nat]
           /\ c.last = None => c.lastAttempts = 0
           /\ c.pending = None => c.attempts = 0
           /\ c.last # None /\ c.pending # None => c.pending.seq = c.last.seq + 1
BY DEF Publications, Checkpoints

LEMMA EvaluationFields ==
  ASSUME NEW c
  PROVE  c \in Evaluations <=>
           /\ c \in [last : Evaluation \cup {None}, lastAttempts : Nat, pending : Evaluation \cup {None}, attempts : Nat]
           /\ c.last = None => c.lastAttempts = 0
           /\ c.pending = None => c.attempts = 0
           /\ c.last # None /\ c.pending # None => c.pending.env.seq = c.last.env.seq + 1
BY DEF Evaluations, Checkpoints

LEMMA NoCheckpointTypes == NoCheckpoint \in Publications /\ NoCheckpoint \in Evaluations
BY PublicationFields, EvaluationFields DEF NoCheckpoint

\* A checkpoint that prepares an item, or completes its pending one, is a checkpoint.
LEMMA PreparedPublication ==
  ASSUME NEW c \in Publications, NEW e \in Envelope,
         c.pending = None => (c.last # None => e.seq = c.last.seq + 1)
  PROVE  Prepare(c, e) \in Publications
<1>1. e # None
  BY NoneAssumption
<1>2. CASE c.pending = None
  BY <1>1, <1>2, PublicationFields DEF Prepare
<1>3. CASE c.pending # None
  <2>1. c.attempts + 1 \in Nat
    BY PublicationFields
  <2> QED
    BY <1>3, <2>1, PublicationFields DEF Prepare
<1> QED
  BY <1>2, <1>3

LEMMA CompletedPublication ==
  ASSUME NEW c \in Publications, c.pending # None
  PROVE  Complete(c) \in Publications
BY PublicationFields DEF Complete

LEMMA PreparedEvaluation ==
  ASSUME NEW c \in Evaluations, NEW e \in Evaluation,
         c.pending = None => (c.last # None => e.env.seq = c.last.env.seq + 1)
  PROVE  Prepare(c, e) \in Evaluations
<1>1. e # None
  BY NoneAssumption
<1>2. CASE c.pending = None
  BY <1>1, <1>2, EvaluationFields DEF Prepare
<1>3. CASE c.pending # None
  <2>1. c.attempts + 1 \in Nat
    BY EvaluationFields
  <2> QED
    BY <1>3, <2>1, EvaluationFields DEF Prepare
<1> QED
  BY <1>2, <1>3

LEMMA CompletedEvaluation ==
  ASSUME NEW c \in Evaluations, c.pending # None
  PROVE  Complete(c) \in Evaluations
BY EvaluationFields DEF Complete

\* The stages outside a frame.
LEMMA FreeStages ==
  /\ {"down", "rest", "cycle", "verify", "readjournal", "loadsite", "reconcile", "peek", "observe"} \subseteq Stages \ Holding
  /\ Holding \subseteq Stages /\ Assembling \subseteq Holding /\ Judging \subseteq Holding
BY DEF Stages, Holding, Assembling, Judging, Recording, Publishing

\* An instance between cycles holds nothing.
Idle(me) ==
  /\ me \in Instance /\ me.pc \in {"down", "rest", "cycle"} /\ me.batch = None
  /\ me.pc # "down" => me.config \in Configs

LEMMA AsleepIsIdle == Idle(Asleep)
BY NoCheckpointTypes, FreeStages DEF Idle, Asleep, Instance, Codes

LEMMA CycleEndIsIdle ==
  ASSUME NEW me \in Instance, me.config \in Configs
  PROVE  /\ AtCycleEnd(me) \in Instance /\ AtCycleEnd(me).batch = None
         /\ AtCycleEnd(me).config = me.config
BY AsleepIsIdle DEF AtCycleEnd, Asleep, Instance, Idle

Looks == [code : Codes, seq : Numbers \cup {None}, detail : {"none", "good", "poor", "invalid"}] \cup {None}

LEMMA EndsIdle ==
  ASSUME NEW me \in Instance, me.batch = None, me.config \in Configs,
         NEW pc \in {"rest", "cycle"}, NEW previous \in Looks
  PROVE  Idle([me EXCEPT !.pc = pc, !.previous = previous])
<1>1. [me EXCEPT !.pc = pc] \in Instance
  BY FreeStages DEF Instance
<1>2. [me EXCEPT !.pc = pc, !.previous = previous] \in Instance
  BY <1>1 DEF Instance, Looks
<1> QED
  BY <1>2, FreeStages DEF Idle, Instance

LEMMA CeaseIsIdle ==
  ASSUME NEW me \in Instance, me.config \in Configs
  PROVE  Idle(Cease(me)) /\ Idle(FailClosed(me)) /\ Idle(Proceed(me))
<1>1. AtCycleEnd(me) \in Instance /\ AtCycleEnd(me).batch = None /\ AtCycleEnd(me).config = me.config
  BY CycleEndIsIdle
<1>2. Idle(Cease(me))
  BY <1>1, EndsIdle DEF Cease, Looks
<1>3. Idle(FailClosed(me))
  BY <1>2 DEF FailClosed, Idle, Instance
<1>4. Idle(Proceed(me))
  BY <1>1, EndsIdle DEF Proceed, Looks
<1> QED
  BY <1>2, <1>3, <1>4

LEMMA RejectedIsIdle ==
  ASSUME NEW me \in Instance, me.config \in Configs, NEW code \in Codes, kind \in [Frames -> Kinds]
  PROVE  Idle(Rejected(me, code))
<1>1. AtCycleEnd(me) \in Instance /\ AtCycleEnd(me).batch = None /\ AtCycleEnd(me).config = me.config
  BY CycleEndIsIdle
<1>2. Signature(me, code) \in Looks
  BY ConstantsAssumption DEF Signature, Instance, Batch, Looks
<1> QED
  BY <1>1, <1>2, EndsIdle, CeaseIsIdle DEF Rejected

-----------------------------------------------------------------------------
(* A step of one instance.                                                 *)

LEMMA CountsAreNaturals ==
  ASSUME NEW c \in Publications, NEW d \in Evaluations
  PROVE  Place(c.last) \in Nat /\ (IF d.last = None THEN 0 ELSE Place(d.last.env)) \in Nat
<1>1. \A e \in Envelope : Place(e) \in Nat
  BY ConstantsAssumption DEF Place, Envelope, Numbers
<1>2. Place(None) = 0
  BY DEF Place
<1> QED
  BY <1>1, <1>2, PublicationFields, EvaluationFields DEF Evaluation

\* What the stores may do while an instance is not looking: they grow, and a pending item stays
\* or is done.
Advance ==
  /\ \A e \in Envelope : Contains(stream, e) => Contains(stream', e)
  /\ \A e \in Evaluation : Contains(ledger, e) => Contains(ledger', e)
  /\ \A e \in Evaluation : Contains(journal, e) => Contains(journal', e)
  /\ Completed <= Completed' /\ Settled <= Settled'
  /\ site.pending # None => site'.pending = site.pending \/ Contains(stream', site.pending)
  /\ eval.pending # None => eval'.pending = eval.pending \/ Contains(journal', eval.pending)

\* What an instance that holds a frame has in its hands.
LEMMA InHand ==
  ASSUME NEW me \in Instance, HoldsBatch(me)
  PROVE  /\ me.pc \in Holding => me.batch \in Batch /\ me.config \in Configs /\ me.batch # None
         /\ me.pc \in Assembling \cup Judging =>
              /\ me.env = Assembled(me) /\ me.env \in Envelope /\ Judged(me) \in Evaluation
              /\ me.env # None /\ Judged(me) # None
              /\ me.env.seq = me.batch.seq /\ me.env.frame = me.batch.frame
<1>1. me.pc \in Holding => me.batch \in Batch /\ me.config \in Configs /\ me.batch # None
  BY NoneAssumption, FreeStages DEF HoldsBatch
<1>2. me.pc \in Assembling \cup Judging => me.env \in Envelope /\ Judged(me) \in Evaluation /\ me.env = Assembled(me)
  BY <1>1, FreeStages DEF HoldsBatch, Assembled, Envelope, Batch, Judged, Evaluation
<1> QED
  BY <1>1, <1>2, NoneAssumption DEF Assembled

LEMMA OthersHold ==
  ASSUME StoresType, StoresType', Advance, NEW me \in Instance, Holds(me)
  PROVE  Holds(me)'
<1>1. Completed \in Nat /\ Settled \in Nat /\ Completed' \in Nat /\ Settled' \in Nat
  BY CountsAreNaturals DEF StoresType, Completed, Settled
<1>2. HoldsBatch(me)'
  BY <1>1, ConstantsAssumption DEF Holds, HoldsBatch, Advance, Instance, Batch, Numbers
<1>3. HoldsPublication(me)'
  BY InHand DEF Holds, HoldsPublication, Advance, Publishing, Assembling
<1>4. HoldsEvaluation(me)'
  <2>1. me.pc \in Judging =>
          /\ me.env \in Envelope /\ Judged(me) \in Evaluation /\ Judged(me) # None /\ Place(me.env) \in Int
    BY InHand, ConstantsAssumption DEF Holds, Place, Envelope, Numbers
  <2>2. me.pc \in Judging => (Contains(stream, me.env) /\ Place(me.env) <= Completed)'
    BY <1>1, <2>1 DEF Holds, HoldsEvaluation, Advance
  <2>3. me.pc \in Recording => (eval.pending = Judged(me) \/ Contains(journal, Judged(me)))'
    BY <2>1 DEF Holds, HoldsEvaluation, Advance, Judging
  <2>4. (me.pc = "journal" /\ me.env.frame \in Recommends => Contains(ledger, Judged(me)))'
    BY <2>1 DEF Holds, HoldsEvaluation, Advance, Judging, Recording
  <2>5. (me.pc = "evalcomplete" => Contains(journal, Judged(me)))'
    BY <2>1 DEF Holds, HoldsEvaluation, Advance, Judging, Recording
  <2>6. (me.pc = "acknowledge" => Place(me.env) <= Settled)'
    BY <1>1, <2>1 DEF Holds, HoldsEvaluation, Advance, Judging
  <2> QED
    BY <2>2, <2>3, <2>4, <2>5, <2>6 DEF Holds, HoldsEvaluation
<1> QED
  BY <1>2, <1>3, <1>4 DEF Holds

LEMMA IdleHolds ==
  ASSUME NEW me, Idle(me)
  PROVE  me \in Instance /\ Holds(me) /\ Holds(me)'
<1>1. me.pc \notin Holding /\ me.batch = None
  BY FreeStages DEF Idle
<1>2. me.pc \notin Assembling /\ me.pc \notin Judging
  BY <1>1, FreeStages
<1>3. HoldsBatch(me) /\ HoldsBatch(me)'
  BY <1>1, <1>2 DEF Idle, HoldsBatch
<1>4. HoldsPublication(me) /\ HoldsPublication(me)'
  BY <1>2 DEF HoldsPublication, Assembling, Publishing
<1>5. HoldsEvaluation(me) /\ HoldsEvaluation(me)'
  BY <1>2 DEF HoldsEvaluation, Judging, Recording
<1> QED
  BY <1>3, <1>4, <1>5 DEF Idle, Holds

\* The stores move on, and so does one instance.
LEMMA StoreStep ==
  ASSUME AgentInv, StoresType', StoresInv', Advance,
         NEW r \in Runtimes, NEW me \in Instance, Holds(me)', Set(r, me)
  PROVE  AgentInv'
<1>1. rt' = [rt EXCEPT ![r] = me] /\ rt' \in [Runtimes -> Instance]
  BY DEF AgentInv, Set
<1>2. ASSUME NEW s \in Runtimes PROVE Holds(rt[s])'
  <2>1. CASE s = r
    <3>1. rt'[s] = me
      BY <1>1, <2>1 DEF AgentInv
    <3> QED
      BY <3>1
  <2>2. CASE s # r
    <3>1. PICK other \in Instance : other = rt[s]
      BY DEF AgentInv
    <3>2. rt'[s] = other
      BY <1>1, <2>2, <3>1 DEF AgentInv
    <3>3. Holds(other)
      BY <3>1 DEF AgentInv, MemoryInv
    <3>4. Holds(other)'
      BY <3>3, OthersHold, TypeSplits DEF AgentInv
    <3> QED
      BY <3>2, <3>4
  <2> QED
    BY <2>1, <2>2
<1>3. TypeOK'
  BY <1>1, TypeSplits DEF AgentInv, TypeOK, StoresType, Instance
<1> QED
  BY <1>1, <1>2, <1>3 DEF AgentInv, MemoryInv

\* The stores move on, and the cycle of an instance is over.
LEMMA IdleStep ==
  ASSUME AgentInv, StoresType', StoresInv', Advance, NEW r \in Runtimes, NEW me, Idle(me), Set(r, me)
  PROVE  AgentInv'
<1>1. PICK it : it = me
  OBVIOUS
<1>2. it \in Instance /\ Holds(it)' /\ Set(r, it)
  BY <1>1, IdleHolds
<1> QED
  BY <1>2, StoreStep

\* Nothing but an instance moves.
LEMMA Unmoved ==
  ASSUME AgentInv, UNCHANGED <<kind, sourceVars, siteVars, evidenceVars>>, torn' \subseteq Files
  PROVE  StoresType' /\ StoresInv' /\ Advance
<1>1. StoresType'
  BY TypeSplits DEF AgentInv, StoresType, sourceVars, siteVars, evidenceVars
<1>2. StoresInv'
  BY DEF AgentInv, StoresInv, StreamSound, JournalSound, InStep, SourceSound, IssuedIsJournaledOrPending, Completed, Settled,
         sourceVars, siteVars, evidenceVars
<1>3. Completed' = Completed /\ Settled' = Settled /\ Completed \in Nat /\ Settled \in Nat
  BY TypeSplits, CountsAreNaturals DEF AgentInv, StoresType, Completed, Settled, siteVars, evidenceVars
<1>4. Advance
  BY <1>3 DEF Advance, siteVars, evidenceVars
<1> QED
  BY <1>1, <1>2, <1>4

LEMMA LocalStep ==
  ASSUME AgentInv, UNCHANGED <<kind, sourceVars, siteVars, evidenceVars>>, torn' \subseteq Files,
         NEW r \in Runtimes, NEW me, me \in Instance, Holds(me), Set(r, me)
  PROVE  AgentInv'
<1>1. PICK it : it = me
  OBVIOUS
<1>2. StoresType' /\ StoresInv' /\ Advance
  BY Unmoved
<1>3. it \in Instance /\ Holds(it) /\ Set(r, it)
  BY <1>1
<1>4. Holds(it)'
  BY <1>2, <1>3, OthersHold, TypeSplits DEF AgentInv
<1> QED
  BY <1>2, <1>3, <1>4, StoreStep

LEMMA LocalIdleStep ==
  ASSUME AgentInv, UNCHANGED <<kind, sourceVars, siteVars, evidenceVars>>, torn' \subseteq Files,
         NEW r \in Runtimes, NEW me, Idle(me), Set(r, me)
  PROVE  AgentInv'
BY IdleHolds, LocalStep

-----------------------------------------------------------------------------
(* Steps that leave the stores alone.                                      *)

LEMMA OneInstance ==
  ASSUME AgentInv, NEW r \in Runtimes
  PROVE  /\ rt[r] \in Instance /\ Holds(rt[r]) /\ HoldsBatch(rt[r])
         /\ rt[r].pc # "down" => rt[r].config \in Configs
         /\ kind \in [Frames -> Kinds]
BY TypeSplits DEF AgentInv, MemoryInv, StoresType, Holds, HoldsBatch

LEMMA WithPc ==
  ASSUME NEW me \in Instance, NEW pc \in Stages
  PROVE  /\ [me EXCEPT !.pc = pc] \in Instance
         /\ [me EXCEPT !.pc = pc].pc = pc /\ [me EXCEPT !.pc = pc].batch = me.batch
         /\ [me EXCEPT !.pc = pc].config = me.config /\ [me EXCEPT !.pc = pc].env = me.env
         /\ [me EXCEPT !.pc = pc].site = me.site /\ [me EXCEPT !.pc = pc].eval = me.eval
         /\ [me EXCEPT !.pc = pc].journal = me.journal
BY DEF Instance

\* An instance that is at no frame holds no more than its configuration.
LEMMA FreeHolds ==
  ASSUME NEW me \in Instance, HoldsBatch(me), NEW new \in Instance, new.pc \notin Holding,
         new.batch \in {me.batch, None}, me.pc # "down", new.config = me.config
  PROVE  Holds(new)
<1>1. new.pc \notin Assembling /\ new.pc \notin Judging
  BY FreeStages
<1>2. HoldsBatch(new)
  BY <1>1 DEF HoldsBatch
<1>3. HoldsPublication(new)
  BY <1>1 DEF HoldsPublication, Assembling, Publishing
<1>4. HoldsEvaluation(new)
  BY <1>1 DEF HoldsEvaluation, Judging, Recording
<1> QED
  BY <1>2, <1>3, <1>4 DEF Holds

\* It goes from one such stage to another.
LEMMA GoesOn ==
  ASSUME AgentInv, UNCHANGED <<kind, sourceVars, siteVars, evidenceVars>>, torn' \subseteq Files,
         NEW r \in Runtimes, rt[r].pc # "down", NEW pc \in Stages \ Holding, Go(r, pc)
  PROVE  AgentInv'
<1>1. [rt[r] EXCEPT !.pc = pc] \in Instance /\ Holds([rt[r] EXCEPT !.pc = pc])
  BY OneInstance, WithPc, FreeHolds
<1> QED
  BY <1>1, LocalStep DEF Go

\* The cycle ends: with a rejection, for now, or for good.
LEMMA CycleOver ==
  ASSUME AgentInv, UNCHANGED <<kind, sourceVars, siteVars, evidenceVars>>, torn' \subseteq Files,
         NEW r \in Runtimes, rt[r].pc # "down",
         \/ Defer(r) \/ Fail(r) \/ Set(r, Asleep)
         \/ \E code \in Codes : Reject(r, code)
  PROVE  AgentInv'
<1>1. rt[r] \in Instance /\ rt[r].config \in Configs /\ kind \in [Frames -> Kinds]
  BY OneInstance
<1>2. CASE Defer(r)
  BY <1>1, <1>2, CeaseIsIdle, LocalIdleStep DEF Defer
<1>3. CASE Fail(r)
  BY <1>1, <1>3, CeaseIsIdle, LocalIdleStep DEF Fail
<1>4. CASE Set(r, Asleep)
  BY <1>4, AsleepIsIdle, LocalIdleStep
<1>5. CASE \E code \in Codes : Reject(r, code)
  BY <1>1, <1>5, RejectedIsIdle, LocalIdleStep DEF Reject
<1> QED
  BY <1>2, <1>3, <1>4, <1>5

LEMMA StartKeeps ==
  ASSUME AgentInv, NEW r \in Runtimes, Start(r)
  PROVE  AgentInv'
<1>1. PICK c \in Configs : Set(r, [Asleep EXCEPT !.pc = "rest", !.config = c])
  BY DEF Start
<1>2. Idle([Asleep EXCEPT !.pc = "rest", !.config = c])
  <2>1. [Asleep EXCEPT !.pc = "rest"] \in Instance
    BY AsleepIsIdle, FreeStages DEF Idle, Instance
  <2>2. [Asleep EXCEPT !.pc = "rest", !.config = c] \in Instance
    BY <2>1 DEF Instance
  <2> QED
    BY <2>2, AsleepIsIdle, FreeStages DEF Idle, Asleep
<1> QED
  BY <1>1, <1>2, LocalIdleStep DEF Start, AgentInv, TypeOK

LEMMA RunKeeps ==
  ASSUME AgentInv, NEW r \in Runtimes, Run(r)
  PROVE  AgentInv'
<1>1. PICK p \in RunPolicies : Set(r, [rt[r] EXCEPT !.pc = "cycle", !.run = p])
  BY DEF Run
<1> DEFINE new == [rt[r] EXCEPT !.pc = "cycle", !.run = p]
<1>2. [rt[r] EXCEPT !.pc = "cycle"] \in Instance
  BY OneInstance, WithPc, FreeStages
<1>3. new \in Instance
  BY <1>2, ConstantsAssumption DEF Instance
<1>4. new.pc = "cycle" /\ new.batch = rt[r].batch /\ new.config = rt[r].config
  BY OneInstance DEF Instance
<1>5. Holds(new)
  BY <1>3, <1>4, OneInstance, FreeHolds, FreeStages DEF Run
<1> QED
  BY <1>1, <1>3, <1>5, LocalStep DEF Run, AgentInv, TypeOK

LEMMA ExitKeeps ==
  ASSUME AgentInv, NEW r \in Runtimes, Exit(r)
  PROVE  AgentInv'
BY CycleOver DEF Exit, AgentInv, TypeOK

LEMMA CrashKeeps ==
  ASSUME AgentInv, NEW r \in Runtimes, Crash(r)
  PROVE  AgentInv'
BY CycleOver DEF Crash, AgentInv, TypeOK

LEMMA RequestStopKeeps ==
  ASSUME AgentInv, NEW r \in Runtimes, RequestStop(r)
  PROVE  AgentInv'
<1> DEFINE new == [rt[r] EXCEPT !.stop = TRUE]
<1>1. new \in Instance
  BY OneInstance DEF Instance
<1>2. /\ new.pc = rt[r].pc /\ new.batch = rt[r].batch /\ new.config = rt[r].config /\ new.env = rt[r].env
      /\ new.site = rt[r].site /\ new.eval = rt[r].eval
  BY OneInstance DEF Instance
<1>3. Judged(new) = Judged(rt[r]) /\ Assembled(new) = Assembled(rt[r])
  BY <1>2 DEF Judged, Assembled
<1> HIDE DEF new
<1>4. HoldsBatch(new) /\ HoldsPublication(new) /\ HoldsEvaluation(new)
  BY <1>2, <1>3, OneInstance DEF Holds, HoldsBatch, HoldsPublication, HoldsEvaluation
<1>5. Holds(new)
  BY <1>4 DEF Holds
<1>6. Set(r, new)
  BY DEF RequestStop, new
<1> QED
  BY <1>1, <1>5, <1>6, LocalStep DEF RequestStop, AgentInv, TypeOK

LEMMA BeginCycleKeeps ==
  ASSUME AgentInv, NEW r \in Runtimes, BeginCycle(r)
  PROVE  AgentInv'
BY CycleOver, GoesOn, FreeStages DEF BeginCycle, AgentInv, TypeOK

LEMMA VerifyLedgerKeeps ==
  ASSUME AgentInv, NEW r \in Runtimes, VerifyLedger(r)
  PROVE  AgentInv'
BY CycleOver, GoesOn, FreeStages DEF VerifyLedger, AgentInv, TypeOK

LEMMA ReadJournalKeeps ==
  ASSUME AgentInv, NEW r \in Runtimes, ReadJournal(r)
  PROVE  AgentInv'
<1> DEFINE new == [rt[r] EXCEPT !.pc = "loadsite", !.journal = journal]
<1>1. CASE "journal" \in torn
  BY <1>1, CycleOver DEF ReadJournal, AgentInv, TypeOK
<1>2. CASE "journal" \notin torn
  <2>1. [rt[r] EXCEPT !.pc = "loadsite"] \in Instance
    BY OneInstance, WithPc, FreeStages
  <2>2. new \in Instance
    BY <2>1 DEF Instance, AgentInv, TypeOK
  <2>3. new.pc = "loadsite" /\ new.batch = rt[r].batch /\ new.config = rt[r].config
    BY OneInstance DEF Instance
  <2>4. Holds(new)
    BY <2>2, <2>3, OneInstance, FreeHolds, FreeStages DEF ReadJournal
  <2> QED
    BY <1>2, <2>2, <2>4, LocalStep DEF ReadJournal, AgentInv, TypeOK
<1> QED
  BY <1>1, <1>2

LEMMA LoadSiteKeeps ==
  ASSUME AgentInv, NEW r \in Runtimes, LoadSite(r)
  PROVE  AgentInv'
<1> DEFINE new == [rt[r] EXCEPT !.pc = "reconcile", !.site = site]
<1>1. [rt[r] EXCEPT !.pc = "reconcile"] \in Instance
  BY OneInstance, WithPc, FreeStages
<1>2. new \in Instance
  BY <1>1 DEF Instance, AgentInv, TypeOK
<1>3. new.pc = "reconcile" /\ new.batch = rt[r].batch /\ new.config = rt[r].config
  BY OneInstance DEF Instance
<1>4. Holds(new)
  BY <1>2, <1>3, OneInstance, FreeHolds, FreeStages DEF LoadSite
<1> QED
  BY <1>2, <1>4, LocalStep DEF LoadSite, AgentInv, TypeOK

LEMMA ToCycleFacts ==
  ASSUME AgentInv, NEW r \in Runtimes, rt[r].pc # "down"
  PROVE  /\ ToCycle(rt[r]) \in Instance /\ Holds(ToCycle(rt[r]))
         /\ [ToCycle(rt[r]) EXCEPT !.recovered = TRUE] \in Instance
         /\ Holds([ToCycle(rt[r]) EXCEPT !.recovered = TRUE])
<1>1. [rt[r] EXCEPT !.pc = "peek"] \in Instance
  BY OneInstance, WithPc, FreeStages
<1>2. [rt[r] EXCEPT !.pc = "peek", !.journal = <<>>] \in Instance
  <2>1. ASSUME NEW me \in Instance, NEW j \in Seq(Evaluation) PROVE [me EXCEPT !.journal = j] \in Instance
    BY DEF Instance
  <2>2. <<>> \in Seq(Evaluation)
    OBVIOUS
  <2> QED
    BY <1>1, <2>1, <2>2
<1>3. ToCycle(rt[r]) \in Instance
  BY <1>2, NoCheckpointTypes DEF Instance, ToCycle
<1>4. ToCycle(rt[r]).pc = "peek" /\ ToCycle(rt[r]).batch = rt[r].batch /\ ToCycle(rt[r]).config = rt[r].config
  BY OneInstance DEF ToCycle, Instance
<1>5. Holds(ToCycle(rt[r]))
  BY <1>3, <1>4, OneInstance, FreeHolds, FreeStages
<1> DEFINE it == ToCycle(rt[r])
           new == [it EXCEPT !.recovered = TRUE]
<1>6. it \in Instance /\ it.pc = "peek" /\ it.batch = rt[r].batch /\ it.config = rt[r].config
  BY <1>3, <1>4
<1> HIDE DEF it
<1>7. new \in Instance /\ new.pc = "peek" /\ new.batch = rt[r].batch /\ new.config = rt[r].config
  BY <1>6 DEF Instance
<1>8. Holds(new)
  BY <1>7, OneInstance, FreeHolds, FreeStages
<1> QED
  BY <1>3, <1>5, <1>7, <1>8 DEF it

LEMMA RecoverKeeps ==
  ASSUME AgentInv, NEW r \in Runtimes, Recover(r)
  PROVE  AgentInv'
<1>1. CASE Reconcile(r)
  <2>1. CASE Set(r, [ToCycle(rt[r]) EXCEPT !.recovered = TRUE])
    BY <1>1, <2>1, ToCycleFacts, LocalStep DEF Reconcile, AgentInv, TypeOK
  <2>2. CASE Fail(r)
    BY <1>1, <2>2, CycleOver DEF Reconcile, AgentInv, TypeOK
  <2> QED
    BY <1>1, <2>1, <2>2 DEF Reconcile
<1>2. CASE RecoveryUnavailable(r)
  BY <1>2, ToCycleFacts, LocalStep DEF RecoveryUnavailable, AgentInv, TypeOK
<1> QED
  BY <1>1, <1>2, VerifyLedgerKeeps, ReadJournalKeeps, LoadSiteKeeps DEF Recover

LEMMA PeekKeeps ==
  ASSUME AgentInv, NEW r \in Runtimes, Peek(r)
  PROVE  AgentInv'
BY CycleOver, GoesOn, FreeStages DEF Peek, AgentInv, TypeOK

\* An instance with a frame at hand, before anything is admitted.
LEMMA CarriesFrame ==
  ASSUME NEW new \in Instance, new.pc \in {"admit", "refuse", "discard"}, new.config \in Configs,
         new.batch \in Batch, new.batch.seq <= FirstNumber + Settled
  PROVE  Holds(new)
<1>1. new.pc \notin Assembling /\ new.pc \notin Judging
  BY DEF Assembling, Publishing, Judging, Recording
<1>2. HoldsBatch(new)
  BY <1>1 DEF HoldsBatch
<1>3. HoldsPublication(new) /\ HoldsEvaluation(new)
  BY <1>1 DEF HoldsPublication, HoldsEvaluation, Publishing, Judging, Recording
<1> QED
  BY <1>2, <1>3 DEF Holds

LEMMA ObserveKeeps ==
  ASSUME AgentInv, NEW r \in Runtimes, Observe(r)
  PROVE  AgentInv'
<1> DEFINE b == [seq |-> number, frame |-> head]
           new == [rt[r] EXCEPT !.pc = "admit", !.batch = b]
<1>1. CASE head > NumFrames
  BY <1>1, CycleOver DEF Observe, AgentInv, TypeOK, Codes
<1>2. CASE ~ (head > NumFrames)
  <2>1. b \in Batch
    BY <1>2, TypeSplits, ConstantsAssumption DEF AgentInv, StoresType, Batch, Frames
  <2>2. [rt[r] EXCEPT !.pc = "admit"] \in Instance
    BY OneInstance, WithPc, FreeStages DEF Holding
  <2>3. new \in Instance
    BY <2>1, <2>2 DEF Instance
  <2>4. new.pc = "admit" /\ new.batch = b /\ new.config = rt[r].config
    BY OneInstance DEF Instance
  <2>5. b.seq <= FirstNumber + Settled
    BY DEF AgentInv, StoresInv, SourceSound
  <2>6. rt[r].config \in Configs
    BY OneInstance DEF Observe
  <2> HIDE DEF b, new
  <2>7. Holds(new)
    BY <2>1, <2>3, <2>4, <2>5, <2>6, CarriesFrame
  <2>8. Set(r, new)
    BY <1>2 DEF Observe, new, b
  <2> QED
    BY <2>3, <2>7, <2>8, LocalStep DEF Observe, AgentInv, TypeOK
<1> QED
  BY <1>1, <1>2

LEMMA OutageKeeps ==
  ASSUME AgentInv, NEW r \in Runtimes, Outage(r)
  PROVE  AgentInv'
<1>1. rt[r].pc # "down" /\ rt[r].code \in Codes
  BY OneInstance DEF Outage, Instance
<1> QED
  BY <1>1, CycleOver DEF Outage, AgentInv, TypeOK, Codes

LEMMA TearWriteKeeps ==
  ASSUME AgentInv, NEW r \in Runtimes, TearWrite(r)
  PROVE  AgentInv'
<1>1. rt[r].pc # "down" /\ torn' \subseteq Files
  BY DEF TearWrite, HalfWritten, AgentInv, TypeOK, Files
<1> QED
  BY <1>1, CycleOver DEF TearWrite, HalfWritten, Codes

LEMMA ConsiderDiscardingKeeps ==
  ASSUME AgentInv, NEW r \in Runtimes, ConsiderDiscarding(r)
  PROVE  AgentInv'
<1>1. rt[r].pc = "refuse" /\ rt[r] \in Instance /\ rt[r].code \in Codes
  BY OneInstance DEF ConsiderDiscarding, Instance
<1>2. CASE Go(r, "discard")
  <2>1. PICK new : new = [rt[r] EXCEPT !.pc = "discard"]
    OBVIOUS
  <2>2. new \in Instance /\ new.pc = "discard" /\ new.batch = rt[r].batch /\ new.config = rt[r].config
    BY <1>1, <2>1, WithPc, FreeStages DEF Holding
  <2>3. Holds(new)
    BY <1>1, <2>2, OneInstance, InHand, CarriesFrame DEF Holding, HoldsBatch
  <2> QED
    BY <1>2, <2>1, <2>2, <2>3, LocalStep DEF ConsiderDiscarding, Go, AgentInv, TypeOK
<1> QED
  BY <1>1, <1>2, CycleOver DEF ConsiderDiscarding, AgentInv, TypeOK

\* Admission puts an envelope and the checkpoint in the hands of the instance.
AdmittedTo(me, pc, c) == [me EXCEPT !.pc = pc, !.env = Assembled(me), !.site = c]

LEMMA AdmittedFacts ==
  ASSUME NEW me \in Instance, HoldsBatch(me), me.pc = "admit", NEW c \in Publications, NEW pc \in {"prepare", "evaluate"}
  PROVE  LET new == AdmittedTo(me, pc, c)
         IN  /\ new \in Instance /\ HoldsBatch(new)
             /\ new.pc = pc /\ new.env = Assembled(me) /\ new.site = c /\ new.env \in Envelope
             /\ new.batch = me.batch
<1> DEFINE new == AdmittedTo(me, pc, c)
<1>1. me.batch \in Batch /\ me.config \in Configs
  BY InHand DEF Holding
<1>2. Assembled(me) \in Envelope
  BY <1>1 DEF Assembled, Batch, Envelope
<1>3. [me EXCEPT !.pc = pc] \in Instance
  BY WithPc, FreeStages DEF Holding, Assembling, Judging
<1>4. [me EXCEPT !.pc = pc, !.env = Assembled(me)] \in Instance
  BY <1>2, <1>3 DEF Instance
<1>5. new \in Instance
  BY <1>4 DEF Instance, AdmittedTo
<1>6. /\ new.pc = pc /\ new.env = Assembled(me) /\ new.site = c
      /\ new.batch = me.batch /\ new.config = me.config
  BY DEF Instance, AdmittedTo
<1> HIDE DEF new
<1>7. HoldsBatch(new)
  BY <1>1, <1>6 DEF HoldsBatch, Assembled
<1> QED
  BY <1>2, <1>5, <1>6, <1>7 DEF new

LEMMA AdmittedToEvaluate ==
  ASSUME NEW me \in Instance
  PROVE  [me EXCEPT !.pc = "evaluate", !.env = Assembled(me)] = AdmittedTo(me, "evaluate", me.site) /\ me.site \in Publications
BY DEF AdmittedTo, Instance

LEMMA RefuseFacts ==
  ASSUME NEW me \in Instance, HoldsBatch(me), me.pc = "admit", NEW code \in Codes,
         NEW new, new = [me EXCEPT !.pc = "refuse", !.code = code]
  PROVE  new \in Instance /\ Holds(new)
<1>1. [me EXCEPT !.pc = "refuse"] \in Instance
  BY WithPc, FreeStages DEF Holding
<1>2. new \in Instance
  BY <1>1 DEF Instance
<1>3. new.pc = "refuse" /\ new.batch = me.batch /\ new.config = me.config
  BY DEF Instance
<1> QED
  BY <1>2, <1>3, InHand, CarriesFrame DEF Holding, HoldsBatch

LEMMA AdmitKeeps ==
  ASSUME AgentInv, NEW r \in Runtimes, Admit(r)
  PROVE  AgentInv'
<1>1. PICK me \in Instance : me = rt[r]
  BY OneInstance
<1>2. me.pc = "admit" /\ Holds(me) /\ HoldsBatch(me) /\ site \in Publications
  BY <1>1, OneInstance, TypeSplits DEF Admit, AgentInv, StoresType
<1>3. UNCHANGED <<kind, sourceVars, siteVars, evidenceVars>> /\ torn' \subseteq Files
  BY DEF Admit, AgentInv, TypeOK
<1>4. ASSUME NEW code \in {"invalid_observation", "insufficient_quality"},
             Set(r, [me EXCEPT !.pc = "refuse", !.code = code])
      PROVE  AgentInv'
  <2>1. code \in Codes
    BY DEF Codes
  <2>2. PICK new : new = [me EXCEPT !.pc = "refuse", !.code = code]
    OBVIOUS
  <2> QED
    BY <1>2, <1>3, <1>4, <2>1, <2>2, RefuseFacts, LocalStep
<1>5. ASSUME Set(r, [me EXCEPT !.pc = "prepare", !.env = Assembled(me), !.site = site]),
             \/ site.pending = Assembled(me)
             \/ NextInOrder(me)
      PROVE  AgentInv'
  <2>1. PICK new : new = AdmittedTo(me, "prepare", site)
    OBVIOUS
  <2>2. /\ new \in Instance /\ HoldsBatch(new)
        /\ new.pc = "prepare" /\ new.env = Assembled(me) /\ new.site = site
    BY <1>2, <2>1, AdmittedFacts
  <2>3. HoldsPublication(new)
    BY <1>5, <2>2 DEF HoldsPublication, NextInOrder, Assembled, Publishing
  <2>4. HoldsEvaluation(new)
    BY <2>2 DEF HoldsEvaluation, Judging, Recording
  <2> QED
    BY <1>3, <1>5, <2>1, <2>2, <2>3, <2>4, LocalStep DEF Holds, AdmittedTo
<1>6. ASSUME Set(r, [me EXCEPT !.pc = "evaluate", !.env = Assembled(me)]),
             site.last = Assembled(me), site.last # None
      PROVE  AgentInv'
  <2>1. PICK new : new = AdmittedTo(me, "evaluate", me.site)
    OBVIOUS
  <2>2. /\ new \in Instance /\ HoldsBatch(new) /\ me.site \in Publications
        /\ new.pc = "evaluate" /\ new.env = Assembled(me) /\ new.env \in Envelope
    BY <1>2, <2>1, AdmittedFacts, AdmittedToEvaluate
  <2>3. HoldsPublication(new)
    BY <2>2 DEF HoldsPublication, Publishing
  <2>4. Contains(stream, new.env) /\ Place(new.env) = Completed /\ Completed \in Int
    BY <1>6, <2>2, TypeSplits, CountsAreNaturals DEF AgentInv, StoresInv, StreamSound, Contains, Completed, StoresType
  <2>5. HoldsEvaluation(new)
    BY <2>2, <2>4 DEF HoldsEvaluation, Recording
  <2> QED
    BY <1>3, <1>6, <2>1, <2>2, <2>3, <2>5, AdmittedToEvaluate, LocalStep DEF Holds
<1>7. ASSUME NEW code \in {"replay_mismatch", "invalid_sequence"}, Reject(r, code)
      PROVE  AgentInv'
  BY <1>1, <1>2, <1>3, <1>7, CycleOver DEF Codes
<1> QED
  BY <1>1, <1>4, <1>5, <1>6, <1>7 DEF Admit, SameEnvelope, CompletedReplay

\* What an instance holds while it judges.
JudgingAt(me, pc, c, o) == [me EXCEPT !.pc = pc, !.eval = c, !.outcome = o]

LEMMA JudgingFacts ==
  ASSUME NEW me \in Instance, Holds(me), me.pc \in Judging, NEW pc \in Judging, NEW c \in Evaluations,
         NEW o \in {"none", "skipped", "evaluated"}
  PROVE  LET new == JudgingAt(me, pc, c, o)
         IN  /\ new \in Instance /\ HoldsBatch(new) /\ HoldsPublication(new)
             /\ new.pc = pc /\ new.env = me.env /\ new.eval = c /\ Judged(new) = Judged(me)
             /\ new.batch = me.batch
<1> DEFINE new == JudgingAt(me, pc, c, o)
<1>1. me.batch \in Batch /\ me.config \in Configs /\ me.env = Assembled(me)
  BY InHand, FreeStages DEF Holds
<1>2. [me EXCEPT !.pc = pc] \in Instance
  BY WithPc, FreeStages
<1>3. [me EXCEPT !.pc = pc, !.eval = c] \in Instance
  BY <1>2 DEF Instance
<1>4. new \in Instance
  BY <1>3 DEF Instance, JudgingAt
<1>5. /\ new.pc = pc /\ new.env = me.env /\ new.eval = c
      /\ new.batch = me.batch /\ new.config = me.config
  BY DEF Instance, JudgingAt
<1> HIDE DEF new
<1>6. HoldsBatch(new) /\ Judged(new) = Judged(me)
  BY <1>1, <1>5 DEF Holds, HoldsBatch, Assembled, Judged
<1>7. HoldsPublication(new)
  BY <1>5 DEF HoldsPublication, Judging, Recording, Publishing
<1> QED
  BY <1>4, <1>5, <1>6, <1>7 DEF new

\* The shorter updates are special cases.
LEMMA JudgingMoves ==
  ASSUME NEW me \in Instance
  PROVE  /\ \A pc : [me EXCEPT !.pc = pc] = JudgingAt(me, pc, me.eval, me.outcome)
         /\ \A pc, c : [me EXCEPT !.pc = pc, !.eval = c] = JudgingAt(me, pc, c, me.outcome)
         /\ \A pc, o : [me EXCEPT !.pc = pc, !.outcome = o] = JudgingAt(me, pc, me.eval, o)
         /\ me.eval \in Evaluations /\ me.outcome \in {"none", "skipped", "evaluated"}
BY DEF Instance, JudgingAt

LEMMA EvaluateKeeps ==
  ASSUME AgentInv, NEW r \in Runtimes, Evaluate(r)
  PROVE  AgentInv'
<1>1. PICK me \in Instance : me = rt[r]
  BY OneInstance
<1>2. me.pc = "evaluate" /\ me.pc \in Judging /\ Holds(me) /\ eval \in Evaluations
  BY <1>1, OneInstance, TypeSplits DEF Evaluate, AgentInv, StoresType, Judging
<1>3. UNCHANGED <<kind, sourceVars, siteVars, evidenceVars>> /\ torn' \subseteq Files
  BY DEF Evaluate, AgentInv, TypeOK
<1>4. Contains(stream, me.env) /\ Place(me.env) <= Completed
  BY <1>2 DEF Holds, HoldsEvaluation
<1>5. CASE AlreadyEvaluated(me)
  <2>1. PICK new : new = JudgingAt(me, "acknowledge", me.eval, "skipped")
    OBVIOUS
  <2>2. /\ new \in Instance /\ HoldsBatch(new) /\ HoldsPublication(new)
        /\ new.pc = "acknowledge" /\ new.env = me.env
    <3>1. "acknowledge" \in Judging /\ me.eval \in Evaluations /\ "skipped" \in {"none", "skipped", "evaluated"}
      BY <1>2, JudgingMoves DEF Judging
    <3> QED
      BY <1>2, <2>1, <3>1, JudgingFacts
  <2>3. Place(me.env) = Settled /\ Settled \in Int
    BY <1>5, TypeSplits, CountsAreNaturals DEF AlreadyEvaluated, Settled, AgentInv, StoresType
  <2>4. HoldsEvaluation(new)
    BY <1>4, <2>2, <2>3 DEF HoldsEvaluation, Recording
  <2>5. Set(r, new)
    <3>1. Set(r, [me EXCEPT !.pc = "acknowledge", !.outcome = "skipped"])
      BY <1>1, <1>2, <1>5 DEF Evaluate
    <3>2. [me EXCEPT !.pc = "acknowledge", !.outcome = "skipped"] = new
      BY <2>1 DEF Instance, JudgingAt
    <3> QED
      BY <3>1, <3>2
  <2> QED
    BY <1>3, <2>2, <2>4, <2>5, LocalStep DEF Holds
<1>6. CASE ~AlreadyEvaluated(me) /\ MayEvaluate(me)
  <2>1. PICK new : new = JudgingAt(me, "evalprepare", eval, me.outcome)
    OBVIOUS
  <2>2. /\ new \in Instance /\ HoldsBatch(new) /\ HoldsPublication(new)
        /\ new.pc = "evalprepare" /\ new.env = me.env /\ new.eval = eval /\ Judged(new) = Judged(me)
    <3>1. "evalprepare" \in Judging /\ eval \in Evaluations /\ me.outcome \in {"none", "skipped", "evaluated"}
      BY <1>2, JudgingMoves DEF Judging
    <3> QED
      BY <1>2, <2>1, <3>1, JudgingFacts
  <2>3. HoldsEvaluation(new)
    BY <1>4, <1>6, <2>2 DEF HoldsEvaluation, Recording, MayEvaluate
  <2>4. Set(r, new)
    <3>1. Set(r, [me EXCEPT !.pc = "evalprepare", !.eval = eval])
      BY <1>1, <1>2, <1>6 DEF Evaluate
    <3> QED
      BY <2>1, <3>1, JudgingMoves
  <2> QED
    BY <1>3, <2>2, <2>3, <2>4, LocalStep DEF Holds
<1>7. CASE ~AlreadyEvaluated(me) /\ ~MayEvaluate(me)
  BY <1>1, <1>2, <1>3, <1>7, CycleOver DEF Evaluate
<1> QED
  BY <1>5, <1>6, <1>7

\* On the way to the journal an instance keeps its record.
LEMMA RecordingMoves ==
  ASSUME NEW me \in Instance, Holds(me), me.pc \in Recording, NEW pc \in Recording,
         pc \in {"lookledger", "issue"} => me.env.frame \in Recommends,
         pc = "journal" /\ me.env.frame \in Recommends => Contains(ledger, Judged(me)),
         pc = "evalcomplete" => Contains(journal, Judged(me)),
         NEW new, new = [me EXCEPT !.pc = pc]
  PROVE  new \in Instance /\ Holds(new)
<1>1. me.pc \in Judging /\ pc \in Judging
  BY DEF Judging
<1>2. /\ new \in Instance /\ HoldsBatch(new) /\ HoldsPublication(new)
      /\ new.pc = pc /\ new.env = me.env /\ new.eval = me.eval /\ Judged(new) = Judged(me)
  <2>1. /\ new = JudgingAt(me, pc, me.eval, me.outcome)
        /\ me.eval \in Evaluations /\ me.outcome \in {"none", "skipped", "evaluated"}
    BY JudgingMoves
  <2> QED
    BY <1>1, <2>1, JudgingFacts
<1>3. HoldsEvaluation(new)
  BY <1>1, <1>2 DEF Holds, HoldsEvaluation, Recording
<1> QED
  BY <1>2, <1>3 DEF Holds

LEMMA LookInLedgerKeeps ==
  ASSUME AgentInv, NEW r \in Runtimes, LookInLedger(r)
  PROVE  AgentInv'
<1>1. PICK me \in Instance : me = rt[r]
  BY OneInstance
<1>2. me.pc = "lookledger" /\ me.pc \in Recording /\ Holds(me) /\ me.env.frame \in Recommends
  BY <1>1, OneInstance DEF LookInLedger, Recording, Holds, HoldsEvaluation
<1>3. UNCHANGED <<kind, sourceVars, siteVars, evidenceVars>> /\ torn' \subseteq Files
  BY DEF LookInLedger, AgentInv, TypeOK
<1>4. ASSUME NEW pc \in {"journal", "issue"}, pc = "journal" => Contains(ledger, Judged(me)), Go(r, pc)
      PROVE  AgentInv'
  <2>1. PICK new : new = [me EXCEPT !.pc = pc]
    OBVIOUS
  <2>2. new \in Instance /\ Holds(new)
    BY <1>2, <1>4, <2>1, RecordingMoves DEF Recording
  <2> QED
    BY <1>1, <1>3, <1>4, <2>1, <2>2, LocalStep DEF Go
<1>5. CASE Fail(r)
  BY <1>1, <1>2, <1>3, <1>5, CycleOver
<1> QED
  BY <1>1, <1>4, <1>5 DEF LookInLedger

-----------------------------------------------------------------------------
(* Steps that change a store.                                              *)

LEMMA EnvelopePlaces ==
  /\ \A e \in Envelope : Place(e) = e.seq + 1 - FirstNumber /\ Place(e) \in Nat \ {0} /\ e.seq \in Nat /\ e # None
  /\ Place(None) = 0 /\ FirstNumber \in Nat
  /\ \A e \in Evaluation : e.env \in Envelope /\ e # None
BY NoneAssumption, ConstantsAssumption DEF Place, Envelope, Numbers, Evaluation

\* What the invariant says of the stores, with the types of what they hold.
LEMMA StoresFacts ==
  ASSUME AgentInv
  PROVE  /\ site \in Publications /\ site.last \in Envelope \cup {None} /\ site.pending \in Envelope \cup {None}
         /\ eval \in Evaluations /\ eval.last \in Evaluation \cup {None} /\ eval.pending \in Evaluation \cup {None}
         /\ stream \in Seq(Envelope) /\ journal \in Seq(Evaluation) /\ ledger \in Seq(Evaluation)
         /\ Completed \in Nat /\ Settled \in Nat /\ Len(stream) \in Nat /\ Len(journal) \in Nat
         /\ StoresType /\ StreamSound /\ JournalSound /\ InStep /\ SourceSound /\ IssuedIsJournaledOrPending
<1>1. StoresType
  BY TypeSplits DEF AgentInv
<1>2. Completed \in Nat /\ Settled \in Nat
  BY <1>1, CountsAreNaturals DEF StoresType, Completed, Settled
<1> QED
  BY <1>1, <1>2, PublicationFields, EvaluationFields DEF StoresType, AgentInv, StoresInv

\* An envelope of the stream, and a record of the journal, stands where its number puts it.
LEMMA WhereItStands ==
  ASSUME AgentInv
  PROVE  /\ \A e \in Envelope : Contains(stream, e) => Place(e) \in 1 .. Len(stream) /\ stream[Place(e)] = e
         /\ \A e \in Evaluation : Contains(journal, e) => Place(e.env) \in 1 .. Len(journal) /\ journal[Place(e.env)] = e
         /\ \A i \in 1 .. Len(journal) : Place(journal[i].env) = i
<1>1. ASSUME NEW i \in 1 .. Len(stream) PROVE Place(stream[i]) = i
  <2>1. stream[i] \in Envelope /\ stream[i].seq + 1 = FirstNumber + i
    BY StoresFacts DEF StreamSound
  <2> QED
    BY <2>1, EnvelopePlaces
<1>2. \A i \in 1 .. Len(journal) : Place(journal[i].env) = i
  BY <1>1, StoresFacts DEF JournalSound
<1> QED
  BY <1>1, <1>2, StoresFacts DEF Contains

LEMMA SourceFacts ==
  ASSUME AgentInv
  PROVE  /\ head \in Nat /\ number \in Nat /\ Settled \in Nat /\ FirstNumber \in Nat
         /\ number \in Numbers /\ acked \subseteq Batch /\ rejected \subseteq Frames
         /\ number + 1 <= FirstNumber + head /\ number <= FirstNumber + Settled
BY StoresFacts, ConstantsAssumption DEF StoresType, Numbers, SourceSound

\* Only the source moves.
LEMMA SourceMoves ==
  ASSUME AgentInv, UNCHANGED <<kind, siteVars, evidenceVars, torn>>,
         head' \in 1 .. NumFrames + 1, number' \in Numbers, acked' \subseteq Batch, rejected' \subseteq Frames,
         number' + 1 <= FirstNumber + head', number' <= FirstNumber + Settled
  PROVE  StoresType' /\ StoresInv' /\ Advance
<1>1. StoresType'
  BY StoresFacts DEF StoresType, siteVars, evidenceVars
<1>2. Completed' = Completed /\ Settled' = Settled
  BY DEF Completed, Settled, siteVars, evidenceVars
<1>3. StreamSound' /\ JournalSound' /\ InStep' /\ SourceSound' /\ IssuedIsJournaledOrPending'
  BY <1>2, StoresFacts DEF StreamSound, JournalSound, InStep, SourceSound, IssuedIsJournaledOrPending, siteVars, evidenceVars
<1>4. Advance
  BY <1>2, StoresFacts DEF Advance, siteVars, evidenceVars
<1> QED
  BY <1>1, <1>3, <1>4 DEF StoresInv

LEMMA DiscardKeeps ==
  ASSUME AgentInv, NEW r \in Runtimes, Discard(r)
  PROVE  AgentInv'
<1>1. rt[r].pc = "discard" /\ rt[r].code \in Codes /\ rt[r].config \in Configs /\ rt[r] \in Instance /\ kind \in [Frames -> Kinds]
  BY OneInstance DEF Discard, Instance
<1>2. CASE Offers(rt[r].batch.seq) /\ head' = head + 1 /\ rejected' = rejected \cup {head}
  <2>1. /\ UNCHANGED <<kind, siteVars, evidenceVars, torn, number, acked>>
        /\ head' \in 1 .. NumFrames + 1 /\ rejected' \subseteq Frames
    BY <1>2, StoresFacts, ConstantsAssumption DEF Discard, Offers, StoresType, Frames
  <2>0. number' + 1 <= FirstNumber + head' /\ number' <= FirstNumber + Settled /\ number' \in Numbers /\ acked' \subseteq Batch
    BY <1>2, <2>1, SourceFacts
  <2>3. StoresType' /\ StoresInv' /\ Advance
    BY <2>1, <2>0, SourceMoves
  <2>2. \E code \in Codes : Reject(r, code)
    BY <1>1 DEF Discard, Codes
  <2> QED
    BY <1>1, <2>3, <2>2, RejectedIsIdle, IdleStep DEF Reject
<1>3. CASE UNCHANGED <<head, rejected>> /\ Reject(r, "ingestion_failed")
  BY <1>1, <1>3, CycleOver DEF Discard, Codes, sourceVars, AgentInv, TypeOK
<1> QED
  BY <1>2, <1>3 DEF Discard

LEMMA AcknowledgeKeeps ==
  ASSUME AgentInv, NEW r \in Runtimes, Acknowledge(r)
  PROVE  AgentInv'
<1>1. PICK me \in Instance : me = rt[r]
  BY OneInstance
<1>2. me.pc = "acknowledge" /\ me.pc \in Judging /\ me.config \in Configs /\ Holds(me) /\ HoldsBatch(me)
  BY <1>1, OneInstance DEF Acknowledge, Judging
<1>3. CASE /\ Offers(rt[r].batch.seq)
           /\ head' = head + 1 /\ number' = number + 1
           /\ acked' = acked \cup {[seq |-> number, frame |-> head]}
  <2>1. me.env \in Envelope /\ me.env.seq = number /\ Place(me.env) <= Settled
    BY <1>1, <1>2, <1>3, InHand DEF Offers, Holds, HoldsEvaluation
  <2>2. number + 1 <= FirstNumber + Settled
    BY <2>1, EnvelopePlaces, StoresFacts
  <2>3. StoresType' /\ StoresInv' /\ Advance
    <3>1. UNCHANGED <<kind, siteVars, evidenceVars, torn, rejected>>
      BY DEF Acknowledge
    <3>2. head \in Frames /\ head \in Nat /\ number \in Numbers /\ number + 1 <= FirstNumber + head
      BY <1>3, StoresFacts, ConstantsAssumption DEF Offers, StoresType, Frames, SourceSound
    <3>3. /\ head' \in 1 .. NumFrames + 1 /\ number' \in Numbers
          /\ number' + 1 <= FirstNumber + head' /\ number' <= FirstNumber + Settled
      BY <1>3, <2>2, <3>2, ConstantsAssumption DEF Frames, Numbers
    <3>4. acked' \subseteq Batch /\ rejected' \subseteq Frames
      BY <1>3, <3>1, <3>2, StoresFacts DEF StoresType, Batch
    <3> QED
      BY <3>1, <3>3, <3>4, SourceMoves
  <2>4. Set(r, Proceed(me)) \/ Set(r, Cease(me))
    BY <1>1, <1>3 DEF Acknowledge, Defer
  <2> QED
    BY <1>2, <2>3, <2>4, CeaseIsIdle, IdleStep
<1>4. CASE UNCHANGED <<head, number, acked>> /\ Defer(r)
  BY <1>1, <1>2, <1>4, CycleOver DEF Acknowledge, sourceVars, AgentInv, TypeOK
<1> QED
  BY <1>3, <1>4 DEF Acknowledge

LEMMA LoseAckKeeps ==
  ASSUME AgentInv, LoseAck
  PROVE  AgentInv'
<1>1. PICK a \in acked : a.frame = head - 1 /\ a.seq = number - 1 /\ head' = a.frame /\ number' = a.seq
  BY DEF LoseAck
<1>2. StoresType' /\ StoresInv' /\ Advance
  <2>1. UNCHANGED <<kind, siteVars, evidenceVars, torn, acked, rejected>>
    BY DEF LoseAck
  <2>2. a.frame \in Frames /\ a.seq \in Numbers /\ head \in Nat /\ number \in Nat
    BY StoresFacts, ConstantsAssumption DEF StoresType, Batch, Numbers
  <2>3. /\ head' \in 1 .. NumFrames + 1 /\ number' \in Numbers
        /\ number' + 1 <= FirstNumber + head' /\ number' <= FirstNumber + Settled
    BY <1>1, <2>2, SourceFacts, ConstantsAssumption DEF Frames, Numbers
  <2>4. acked' \subseteq Batch /\ rejected' \subseteq Frames
    BY <2>1, StoresFacts DEF StoresType
  <2> QED
    BY <2>1, <2>3, <2>4, SourceMoves
<1>3. rt' = rt /\ rt \in [Runtimes -> Instance]
  BY DEF LoseAck, AgentInv
<1>4. ASSUME NEW s \in Runtimes PROVE Holds(rt[s])'
  <2>1. PICK me \in Instance : me = rt[s]
    BY OneInstance
  <2>2. Holds(me)
    BY <2>1, OneInstance
  <2>3. Holds(me)'
    BY <1>2, <2>2, StoresFacts, OthersHold
  <2> QED
    BY <1>3, <2>1, <2>3
<1>5. TypeOK'
  BY <1>2, <1>3 DEF TypeOK, StoresType, Instance
<1> QED
  BY <1>2, <1>3, <1>4, <1>5 DEF AgentInv, MemoryInv

\* A compare-and-save keeps the invariant if the saved checkpoint does.
LEMMA SaveSiteKeeps ==
  ASSUME AgentInv, NEW r \in Runtimes, rt[r].pc # "down", NEW updated, NEW saved,
         UNCHANGED <<kind, sourceVars, stream, evidenceVars, torn>>, SaveSite(r, updated, saved),
         site = rt[r].site /\ site' = updated =>
           StoresType' /\ StoresInv' /\ Advance /\ saved \in Instance /\ Holds(saved)'
  PROVE  AgentInv'
<1>1. "checkpoint_failed" \in Codes /\ rt[r] \in Instance /\ rt[r].config \in Configs /\ kind \in [Frames -> Kinds]
  BY OneInstance DEF Codes
<1>2. CASE site = rt[r].site /\ site' = updated /\ Set(r, saved)
  BY <1>2, StoreStep
<1>3. CASE site = rt[r].site /\ site' = updated /\ Reject(r, "checkpoint_failed")
  BY <1>1, <1>3, RejectedIsIdle, IdleStep DEF Reject
<1>4. CASE UNCHANGED site /\ Reject(r, "checkpoint_failed")
  BY <1>1, <1>4, CycleOver DEF siteVars, AgentInv, TypeOK
<1> QED
  BY <1>2, <1>3, <1>4 DEF SaveSite

\* What an instance holds while it publishes.
PublishingAt(me, pc, c) == [me EXCEPT !.pc = pc, !.site = c]

LEMMA PublishingFacts ==
  ASSUME NEW me \in Instance, HoldsBatch(me), me.pc \in Assembling,
         NEW pc \in Publishing \cup {"evaluate"}, NEW c \in Publications
  PROVE  LET new == PublishingAt(me, pc, c)
         IN  /\ new \in Instance /\ HoldsBatch(new)
             /\ new.pc = pc /\ new.env = me.env /\ new.site = c /\ new.batch = me.batch
<1> DEFINE new == PublishingAt(me, pc, c)
<1>1. me.batch \in Batch /\ me.config \in Configs /\ me.env = Assembled(me)
  BY InHand, FreeStages
<1>2. [me EXCEPT !.pc = pc] \in Instance
  BY WithPc, FreeStages DEF Assembling, Judging
<1>3. new \in Instance
  BY <1>2 DEF Instance, PublishingAt
<1>4. /\ new.pc = pc /\ new.env = me.env /\ new.site = c
      /\ new.batch = me.batch /\ new.config = me.config
  BY DEF Instance, PublishingAt
<1> HIDE DEF new
<1>5. HoldsBatch(new)
  BY <1>1, <1>4 DEF HoldsBatch, Assembled
<1> QED
  BY <1>3, <1>4, <1>5 DEF new

\* The facts about an instance that is about to change the publication checkpoint or the stream.
LEMMA AssemblingFacts ==
  ASSUME AgentInv, NEW me \in Instance, Holds(me), me.pc \in Assembling
  PROVE  /\ me.env \in Envelope /\ me.env # None /\ me.site \in Publications
         /\ me.env.seq <= FirstNumber + Settled /\ me.env.seq >= FirstNumber
         /\ Place(me.env) = me.env.seq + 1 - FirstNumber /\ HoldsBatch(me) /\ HoldsPublication(me)
<1>1. me.env \in Envelope /\ me.batch # None /\ me.env.seq = me.batch.seq /\ me.env # None
  BY InHand, FreeStages DEF Holds
<1>2. me.env.seq >= FirstNumber /\ Place(me.env) = me.env.seq + 1 - FirstNumber
  BY <1>1, EnvelopePlaces
<1> QED
  BY <1>1, <1>2 DEF Holds, HoldsBatch, Instance

\* The only envelope that may be prepared is the one at the next place of the stream, when all
\* that is published is evaluated.
LEMMA PreparedIsNext ==
  ASSUME AgentInv, NEW me \in Instance, Holds(me), me.pc = "prepare", site = me.site
  PROVE  /\ Prepare(site, me.env) \in Publications
         /\ Prepare(site, me.env).last = site.last /\ Prepare(site, me.env).pending = me.env
         /\ Place(me.env) = Completed + 1 /\ Completed = Settled
         /\ site.pending \in {None, me.env}
<1>0. \/ site.pending = me.env
      \/ site.pending = None /\ (site.last # None => me.env.seq = site.last.seq + 1)
  BY DEF Holds, HoldsPublication
<1>1. /\ me.env \in Envelope /\ me.env # None
      /\ me.env.seq <= FirstNumber + Settled /\ me.env.seq >= FirstNumber
      /\ Place(me.env) = me.env.seq + 1 - FirstNumber
  <2>1. me.pc \in Assembling
    BY DEF Assembling
  <2> QED
    BY <2>1, AssemblingFacts
<1>2. site \in Publications
  BY StoresFacts
<1>3. Prepare(site, me.env) \in Publications
  BY <1>0, <1>1, <1>2, PreparedPublication
<1>4. Prepare(site, me.env).last = site.last /\ Prepare(site, me.env).pending = me.env
  <2>1. /\ DOMAIN site = {"last", "lastAttempts", "pending", "attempts"}
        /\ site.pending \in {None, me.env}
    BY <1>0, <1>2, PublicationFields
  <2>2. CASE site.pending = None
    BY <2>1, <2>2 DEF Prepare
  <2>3. CASE site.pending # None
    BY <2>1, <2>3 DEF Prepare
  <2> QED
    BY <2>2, <2>3
<1>5. CASE site.pending = me.env
  BY <1>1, <1>3, <1>4, <1>5, StoresFacts DEF StreamSound, InStep
<1>6. CASE site.pending = None /\ (site.last # None => me.env.seq = site.last.seq + 1)
  <2>1. Place(me.env) = Completed + 1
    <3>1. CASE site.last = None
      BY <1>1, <3>1, StoresFacts, EnvelopePlaces DEF Completed, InStep
    <3>2. CASE site.last # None
      BY <1>1, <1>6, <3>2, StoresFacts, EnvelopePlaces DEF Completed
    <3> QED
      BY <3>1, <3>2
  <2> QED
    BY <1>1, <1>3, <1>4, <1>6, <2>1, StoresFacts, EnvelopePlaces DEF InStep
<1> QED
  BY <1>0, <1>1, <1>5, <1>6

LEMMA PreparePublicationKeeps ==
  ASSUME AgentInv, NEW r \in Runtimes, PreparePublication(r)
  PROVE  AgentInv'
<1>1. PICK me \in Instance : me = rt[r]
  BY OneInstance
<1>2. me.pc = "prepare" /\ me.pc \in Assembling /\ Holds(me) /\ HoldsBatch(me)
  BY <1>1, OneInstance DEF PreparePublication, Assembling
<1> DEFINE prepared == Prepare(me.site, me.env)
           saved == PublishingAt(me, "publish", prepared)
<1>3. UNCHANGED <<kind, sourceVars, stream, evidenceVars, torn>> /\ SaveSite(r, prepared, saved)
  BY <1>1 DEF PreparePublication, PublishingAt
<1>4. ASSUME site = me.site, site' = prepared
      PROVE  StoresType' /\ StoresInv' /\ Advance /\ saved \in Instance /\ Holds(saved)'
  <2>1. /\ site' \in Publications /\ site'.last = site.last /\ site'.pending = me.env
        /\ Place(me.env) = Completed + 1 /\ Completed = Settled /\ site.pending \in {None, me.env}
    BY <1>2, <1>4, PreparedIsNext
  <2>2. me.env \in Envelope /\ me.env # None
    BY <1>2, AssemblingFacts
  <2>3. Completed' = Completed /\ Settled' = Settled
    BY <1>3, <2>1 DEF Completed, Settled, evidenceVars
  <2>4. StoresType'
    BY <1>3, <2>1, StoresFacts DEF StoresType, sourceVars, evidenceVars
  <2>5. StreamSound'
    BY <1>3, <2>1, <2>2, <2>3, StoresFacts DEF StreamSound
  <2>6. JournalSound' /\ SourceSound' /\ IssuedIsJournaledOrPending'
    BY <1>3, <2>3, StoresFacts DEF JournalSound, SourceSound, IssuedIsJournaledOrPending, sourceVars, evidenceVars
  <2>7. InStep'
    BY <1>3, <2>1, <2>3, StoresFacts DEF InStep, evidenceVars
  <2>8. Advance
    BY <1>3, <2>1, <2>2, <2>3, StoresFacts DEF Advance, evidenceVars
  <2>9. prepared \in Publications /\ "publish" \in Publishing \cup {"evaluate"}
    BY <1>4, <2>1 DEF Publishing
  <2>10. /\ saved \in Instance /\ HoldsBatch(saved)
         /\ saved.pc = "publish" /\ saved.env = me.env /\ saved.site = prepared
    BY <1>2, <2>9, PublishingFacts
  <2> HIDE DEF saved, prepared
  <2>11. HoldsBatch(saved)'
    BY <2>3, <2>10 DEF HoldsBatch
  <2>12. HoldsPublication(saved)'
    BY <1>4, <2>1, <2>10 DEF HoldsPublication
  <2>13. HoldsEvaluation(saved)'
    BY <2>10 DEF HoldsEvaluation, Judging, Recording
  <2> QED
    BY <2>4, <2>5, <2>6, <2>7, <2>8, <2>10, <2>11, <2>12, <2>13 DEF StoresInv, Holds
<1> HIDE DEF prepared, saved
<1> QED
  BY <1>1, <1>2, <1>3, <1>4, SaveSiteKeeps

\* An envelope that is appended is the pending one, and comes next.
LEMMA PublishedIsNext ==
  ASSUME AgentInv, NEW me \in Instance, Holds(me), me.pc = "publish", ~Contains(stream, me.env)
  PROVE  site.pending = me.env /\ Place(me.env) = Completed + 1 /\ Len(stream) = Completed
<1>1. me.env \in Envelope /\ me.env # None /\ site.pending = me.env
  BY AssemblingFacts DEF Assembling, Publishing, HoldsPublication
<1>2. Len(stream) = Completed + 1 /\ stream[Completed + 1] = me.env => Contains(stream, me.env)
  BY StoresFacts DEF Contains
<1> QED
  BY <1>1, <1>2, StoresFacts DEF StreamSound

LEMMA StreamGrows ==
  ASSUME AgentInv, NEW e \in Envelope, site.pending = e, Place(e) = Completed + 1, Len(stream) = Completed,
         stream' = Append(stream, e), UNCHANGED <<kind, sourceVars, site, evidenceVars, torn>>
  PROVE  StoresType' /\ StoresInv' /\ Advance /\ Contains(stream', e)
<1>1. /\ stream' \in Seq(Envelope) /\ Len(stream') = Completed + 1
      /\ stream'[Completed + 1] = e /\ \A i \in 1 .. Len(stream) : stream'[i] = stream[i]
  BY StoresFacts
<1>2. Completed' = Completed /\ Settled' = Settled
  BY DEF Completed, Settled, evidenceVars
<1>3. StoresType'
  BY <1>1, StoresFacts DEF StoresType, sourceVars, evidenceVars
<1>4. StreamSound'
  <2>1. e.seq + 1 = FirstNumber + Completed + 1
    BY EnvelopePlaces, StoresFacts
  <2>2. ASSUME NEW i \in 1 .. Len(stream') PROVE stream'[i].seq + 1 = FirstNumber + i
    <3>1. CASE i \in 1 .. Len(stream)
      BY <1>1, <3>1, StoresFacts DEF StreamSound
    <3>2. CASE i = Completed + 1
      BY <1>1, <2>1, <3>2, StoresFacts, EnvelopePlaces
    <3> QED
      BY <1>1, <3>1, <3>2, StoresFacts
  <2>3. site'.last # None => Completed' \in 1 .. Len(stream') /\ stream'[Completed'] = site'.last
    BY <1>1, <1>2, StoresFacts DEF StreamSound
  <2>4. site'.pending = e /\ e # None
    BY EnvelopePlaces
  <2> QED
    BY <1>1, <1>2, <2>2, <2>3, <2>4 DEF StreamSound
<1>5. JournalSound'
  BY <1>1, <1>2, StoresFacts DEF JournalSound, evidenceVars
<1>6. InStep' /\ SourceSound' /\ IssuedIsJournaledOrPending'
  BY <1>2, StoresFacts DEF InStep, SourceSound, IssuedIsJournaledOrPending, sourceVars, evidenceVars
<1>7. \A x : Contains(stream, x) => Contains(stream', x)
  BY <1>1, StoresFacts DEF Contains
<1>8. Contains(stream', e)
  BY <1>1, StoresFacts DEF Contains
<1>9. Advance
  BY <1>2, <1>7, StoresFacts DEF Advance, evidenceVars
<1> QED
  BY <1>3, <1>4, <1>5, <1>6, <1>8, <1>9 DEF StoresInv

LEMMA PublishKeeps ==
  ASSUME AgentInv, NEW r \in Runtimes, Publish(r)
  PROVE  AgentInv'
<1>1. PICK me \in Instance : me = rt[r]
  BY OneInstance
<1>2. me.pc = "publish" /\ me.pc \in Assembling /\ Holds(me) /\ HoldsBatch(me) /\ me.config \in Configs
  BY <1>1, OneInstance DEF Publish, Assembling, Publishing
<1>3. UNCHANGED <<kind, sourceVars, site, evidenceVars, torn>> /\ kind \in [Frames -> Kinds] /\ "publish_failed" \in Codes
  BY OneInstance DEF Publish, Codes
<1>4. me.env \in Envelope /\ me.site \in Publications /\ me.site.pending = me.env
  BY <1>2, AssemblingFacts DEF Publishing, HoldsPublication
<1>5. CASE stream' = IF Contains(stream, me.env) THEN stream ELSE Append(stream, me.env)
  <2>1. StoresType' /\ StoresInv' /\ Advance /\ Contains(stream', me.env)
    <3>1. CASE Contains(stream, me.env)
      BY <1>3, <1>5, <3>1, Unmoved DEF siteVars, AgentInv, TypeOK
    <3>2. CASE ~Contains(stream, me.env)
      BY <1>2, <1>3, <1>4, <1>5, <3>2, PublishedIsNext, StreamGrows
    <3> QED
      BY <3>1, <3>2
  <2>2. ASSUME Go(r, "complete") PROVE AgentInv'
    <3>1. PICK new : new = PublishingAt(me, "complete", me.site)
      OBVIOUS
    <3>2. /\ new \in Instance /\ HoldsBatch(new)
          /\ new.pc = "complete" /\ new.env = me.env /\ new.site = me.site
      BY <1>2, <1>4, <3>1, PublishingFacts DEF Publishing
    <3>3. Settled' = Settled
      BY <1>3 DEF Settled, evidenceVars
    <3>4. HoldsBatch(new)' /\ HoldsPublication(new)' /\ HoldsEvaluation(new)'
      BY <1>4, <2>1, <3>2, <3>3 DEF HoldsBatch, HoldsPublication, HoldsEvaluation, Judging, Recording
    <3>5. [me EXCEPT !.pc = "complete"] = new
      BY <3>1 DEF PublishingAt, Instance
    <3> QED
      BY <1>1, <2>1, <2>2, <3>2, <3>4, <3>5, StoreStep DEF Go, Holds
  <2>3. ASSUME Reject(r, "publish_failed") PROVE AgentInv'
    BY <1>1, <1>2, <1>3, <2>1, <2>3, RejectedIsIdle, IdleStep DEF Reject
  <2>4. Go(r, "complete") \/ Reject(r, "publish_failed")
    BY DEF Publish
  <2> QED
    BY <2>2, <2>3, <2>4
<1>6. CASE UNCHANGED stream /\ Reject(r, "publish_failed")
  BY <1>1, <1>2, <1>3, <1>6, CycleOver DEF siteVars, AgentInv, TypeOK
<1> QED
  BY <1>1, <1>5, <1>6 DEF Publish

LEMMA CompletePublicationKeeps ==
  ASSUME AgentInv, NEW r \in Runtimes, CompletePublication(r)
  PROVE  AgentInv'
<1>1. PICK me \in Instance : me = rt[r]
  BY OneInstance
<1>2. me.pc = "complete" /\ me.pc \in Assembling /\ Holds(me) /\ HoldsBatch(me)
  BY <1>1, OneInstance DEF CompletePublication, Assembling, Publishing
<1> DEFINE completed == Complete(me.site)
           saved == PublishingAt(me, "evaluate", NoCheckpoint)
<1>3. UNCHANGED <<kind, sourceVars, stream, evidenceVars, torn>> /\ SaveSite(r, completed, saved)
  BY <1>1 DEF CompletePublication, PublishingAt
<1>4. ASSUME site = me.site, site' = completed
      PROVE  StoresType' /\ StoresInv' /\ Advance /\ saved \in Instance /\ Holds(saved)'
  <2>1. /\ me.env \in Envelope /\ me.env # None /\ site \in Publications
        /\ site.pending = me.env /\ Contains(stream, me.env)
    BY <1>2, <1>4, AssemblingFacts DEF Publishing, HoldsPublication
  <2>2. site' \in Publications /\ site'.last = me.env /\ site'.pending = None
    BY <1>4, <2>1, CompletedPublication DEF Complete
  <2>3. Place(me.env) = Completed + 1 /\ Len(stream) = Completed + 1 /\ stream[Completed + 1] = me.env
    BY <2>1, StoresFacts, WhereItStands DEF StreamSound
  <2>4. Completed' = Completed + 1 /\ Settled' = Settled /\ Completed = Settled
    BY <1>3, <2>1, <2>2, <2>3, StoresFacts DEF Completed, Settled, evidenceVars, InStep
  <2>5. StoresType'
    BY <1>3, <2>2, StoresFacts DEF StoresType, sourceVars, evidenceVars
  <2>6. StreamSound'
    BY <1>3, <2>2, <2>3, <2>4, StoresFacts DEF StreamSound
  <2>7. JournalSound' /\ SourceSound' /\ IssuedIsJournaledOrPending'
    BY <1>3, <2>4, StoresFacts DEF JournalSound, SourceSound, IssuedIsJournaledOrPending, sourceVars, evidenceVars
  <2>8. InStep'
    BY <1>3, <2>2, <2>4, StoresFacts DEF InStep, evidenceVars
  <2>9. Advance
    BY <1>3, <2>1, <2>4, StoresFacts DEF Advance, evidenceVars
  <2>10. "evaluate" \in Publishing \cup {"evaluate"}
    OBVIOUS
  <2>11. /\ saved \in Instance /\ HoldsBatch(saved)
         /\ saved.pc = "evaluate" /\ saved.env = me.env
    BY <1>2, <2>10, PublishingFacts, NoCheckpointTypes
  <2> HIDE DEF saved, completed
  <2>12. HoldsBatch(saved)'
    BY <2>4, <2>11 DEF HoldsBatch
  <2>13. HoldsPublication(saved)'
    BY <2>11 DEF HoldsPublication, Publishing
  <2>14. HoldsEvaluation(saved)'
    BY <1>3, <2>1, <2>3, <2>4, <2>11, StoresFacts DEF HoldsEvaluation, Recording
  <2> QED
    BY <2>5, <2>6, <2>7, <2>8, <2>9, <2>11, <2>12, <2>13, <2>14 DEF StoresInv, Holds
<1> HIDE DEF completed, saved
<1> QED
  BY <1>1, <1>2, <1>3, <1>4, SaveSiteKeeps

LEMMA SaveEvaluationKeeps ==
  ASSUME AgentInv, NEW r \in Runtimes, rt[r].pc # "down", NEW updated, NEW saved,
         UNCHANGED <<kind, sourceVars, siteVars, ledger, journal, torn>>, SaveEvaluation(r, updated, saved),
         eval = rt[r].eval /\ eval' = updated =>
           StoresType' /\ StoresInv' /\ Advance /\ saved \in Instance /\ Holds(saved)'
  PROVE  AgentInv'
<1>1. rt[r] \in Instance /\ rt[r].config \in Configs
  BY OneInstance
<1>2. CASE eval = rt[r].eval /\ eval' = updated /\ Set(r, saved)
  BY <1>2, StoreStep
<1>3. CASE eval = rt[r].eval /\ eval' = updated /\ Defer(r)
  BY <1>1, <1>3, CeaseIsIdle, IdleStep DEF Defer
<1>4. CASE UNCHANGED eval /\ Defer(r)
  BY <1>1, <1>4, CycleOver DEF evidenceVars, AgentInv, TypeOK
<1> QED
  BY <1>2, <1>3, <1>4 DEF SaveEvaluation

\* The facts about an instance that judges a published envelope.
LEMMA RecordFacts ==
  ASSUME AgentInv, NEW me \in Instance, Holds(me), me.pc \in Judging
  PROVE  /\ me.env \in Envelope /\ Judged(me) \in Evaluation /\ Judged(me) # None /\ Judged(me).env = me.env
         /\ Place(me.env) \in 1 .. Len(stream) /\ stream[Place(me.env)] = me.env /\ Place(me.env) <= Completed
         /\ HoldsBatch(me) /\ HoldsEvaluation(me)
<1>1. me.env \in Envelope /\ Judged(me) \in Evaluation /\ Judged(me) # None
  BY InHand DEF Holds
<1>2. Contains(stream, me.env) /\ Place(me.env) <= Completed
  BY DEF Holds, HoldsEvaluation
<1> QED
  BY <1>1, <1>2, WhereItStands DEF Holds, Judged

\* The envelope whose evaluation is pending is the newest that is completely published.
LEMMA NewestIsPublished ==
  ASSUME AgentInv, NEW e \in Envelope, Place(e) \in 1 .. Len(stream), stream[Place(e)] = e, Place(e) = Completed
  PROVE  site.last = e
<1>1. Completed # 0
  BY EnvelopePlaces
<1>2. site.last # None
  BY <1>1, EnvelopePlaces DEF Completed
<1> QED
  BY <1>2, StoresFacts DEF StreamSound

LEMMA PreparedEvaluationIsNext ==
  ASSUME AgentInv, NEW me \in Instance, Holds(me), me.pc = "evalprepare", eval = me.eval
  PROVE  /\ Prepare(eval, Judged(me)) \in Evaluations
         /\ Prepare(eval, Judged(me)).last = eval.last /\ Prepare(eval, Judged(me)).pending = Judged(me)
         /\ Place(me.env) = Settled + 1 /\ Completed = Settled + 1 /\ site.last = me.env
         /\ eval.pending \in {None, Judged(me)}
<1>1. /\ me.env \in Envelope /\ Judged(me) \in Evaluation /\ Judged(me) # None /\ Judged(me).env = me.env
      /\ Place(me.env) \in 1 .. Len(stream) /\ stream[Place(me.env)] = me.env /\ Place(me.env) <= Completed
  <2>1. me.pc \in Judging
    BY DEF Judging
  <2> QED
    BY <2>1, RecordFacts
<1>2. \/ eval.pending = Judged(me)
      \/ eval.pending = None /\ (eval.last # None => me.env.seq = eval.last.env.seq + 1)
  BY DEF Holds, HoldsEvaluation
<1>3. eval \in Evaluations
  BY StoresFacts
<1>4. Prepare(eval, Judged(me)) \in Evaluations
  BY <1>1, <1>2, <1>3, PreparedEvaluation
<1>5. Prepare(eval, Judged(me)).last = eval.last /\ Prepare(eval, Judged(me)).pending = Judged(me)
  <2>1. DOMAIN eval = {"last", "lastAttempts", "pending", "attempts"} /\ eval.pending \in {None, Judged(me)}
    BY <1>2, <1>3, EvaluationFields
  <2>2. CASE eval.pending = None
    BY <2>1, <2>2 DEF Prepare
  <2>3. CASE eval.pending # None
    BY <2>1, <2>3 DEF Prepare
  <2> QED
    BY <2>2, <2>3
<1>6. Place(me.env) = Settled + 1
  <2>1. CASE eval.pending = Judged(me)
    BY <1>1, <2>1, StoresFacts DEF JournalSound
  <2>2. CASE eval.pending = None /\ eval.last = None
    BY <1>1, <2>2, StoresFacts DEF Settled, InStep
  <2>3. CASE eval.pending = None /\ eval.last # None /\ me.env.seq = eval.last.env.seq + 1
    <3>1. eval.last \in Evaluation /\ eval.last.env \in Envelope /\ Settled = Place(eval.last.env)
      BY <2>3, StoresFacts, EnvelopePlaces DEF Settled
    <3>2. /\ Settled = eval.last.env.seq + 1 - FirstNumber /\ eval.last.env.seq \in Nat
          /\ Place(me.env) = me.env.seq + 1 - FirstNumber /\ FirstNumber \in Nat
      BY <1>1, <3>1, EnvelopePlaces
    <3> QED
      BY <2>3, <3>2
  <2> QED
    BY <1>2, <2>1, <2>2, <2>3
<1>7. Completed = Settled + 1
  BY <1>1, <1>6, StoresFacts DEF InStep
<1>8. site.last = me.env
  BY <1>1, <1>6, <1>7, NewestIsPublished
<1> QED
  BY <1>2, <1>4, <1>5, <1>6, <1>7, <1>8

LEMMA PrepareEvaluationKeeps ==
  ASSUME AgentInv, NEW r \in Runtimes, PrepareEvaluation(r)
  PROVE  AgentInv'
<1>1. PICK me \in Instance : me = rt[r]
  BY OneInstance
<1>2. me.pc = "evalprepare" /\ me.pc \in Judging /\ Holds(me)
  BY <1>1, OneInstance DEF PrepareEvaluation, Judging
<1> DEFINE prepared == Prepare(me.eval, Judged(me))
           next == IF me.env.frame \in Recommends THEN "lookledger" ELSE "journal"
           saved == JudgingAt(me, next, prepared, me.outcome)
<1>3. /\ UNCHANGED <<kind, sourceVars, siteVars, ledger, journal, torn>>
      /\ SaveEvaluation(r, prepared, [me EXCEPT !.pc = next, !.eval = prepared])
  BY <1>1 DEF PrepareEvaluation
<1>4. [me EXCEPT !.pc = next, !.eval = prepared] = saved
  BY DEF JudgingAt, Instance
<1>5. ASSUME eval = me.eval, eval' = prepared
      PROVE  StoresType' /\ StoresInv' /\ Advance /\ saved \in Instance /\ Holds(saved)'
  <2>1. /\ eval' \in Evaluations /\ eval'.last = eval.last /\ eval'.pending = Judged(me)
        /\ Place(me.env) = Settled + 1 /\ Completed = Settled + 1 /\ site.last = me.env
        /\ eval.pending \in {None, Judged(me)}
    BY <1>2, <1>5, PreparedEvaluationIsNext
  <2>2. /\ Judged(me) \in Evaluation /\ Judged(me) # None /\ Judged(me).env = me.env /\ HoldsEvaluation(me)
        /\ Contains(stream, me.env) /\ Place(me.env) <= Completed
    BY <1>2, RecordFacts DEF HoldsEvaluation
  <2>3. Completed' = Completed /\ Settled' = Settled
    BY <1>3, <2>1 DEF Completed, Settled, siteVars
  <2>4. StoresType'
    BY <1>3, <2>1, StoresFacts DEF StoresType, sourceVars, siteVars
  <2>5. StreamSound' /\ SourceSound'
    BY <1>3, <2>3, StoresFacts DEF StreamSound, SourceSound, siteVars, sourceVars
  <2>6. JournalSound'
    BY <1>3, <2>1, <2>2, <2>3, StoresFacts DEF JournalSound, siteVars
  <2>7. InStep'
    BY <1>3, <2>1, <2>2, <2>3, StoresFacts DEF InStep, siteVars
  <2>8. IssuedIsJournaledOrPending'
    <3>1. \A i \in 1 .. Len(ledger) : ledger[i] # None
      BY StoresFacts, EnvelopePlaces
    <3> QED
      BY <1>3, <2>1, <2>2, <3>1, StoresFacts DEF IssuedIsJournaledOrPending
  <2>9. Advance
    BY <1>3, <2>1, <2>2, <2>3, StoresFacts DEF Advance, siteVars
  <2>10. prepared \in Evaluations /\ next \in Judging /\ next \in Recording /\ me.outcome \in {"none", "skipped", "evaluated"}
    BY <1>5, <2>1, JudgingMoves DEF Judging, Recording
  <2>11. next \in {"lookledger", "journal"} /\ (next = "lookledger" <=> me.env.frame \in Recommends)
    OBVIOUS
  <2> HIDE DEF next, prepared
  <2>12. /\ saved \in Instance /\ HoldsBatch(saved) /\ HoldsPublication(saved)
         /\ saved.pc = next /\ saved.env = me.env /\ saved.eval = prepared /\ Judged(saved) = Judged(me)
    BY <1>2, <2>10, JudgingFacts
  <2> HIDE DEF saved
  <2>13. HoldsBatch(saved)'
    BY <2>3, <2>12 DEF HoldsBatch
  <2>14. HoldsPublication(saved)'
    BY <2>11, <2>12 DEF HoldsPublication, Publishing
  <2>15. HoldsEvaluation(saved)'
    BY <1>3, <1>5, <2>1, <2>2, <2>3, <2>10, <2>11, <2>12 DEF HoldsEvaluation, siteVars
  <2> QED
    BY <2>4, <2>5, <2>6, <2>7, <2>8, <2>9, <2>12, <2>13, <2>14, <2>15 DEF StoresInv, Holds
<1> HIDE DEF prepared, saved, next
<1> QED
  BY <1>1, <1>2, <1>3, <1>4, <1>5, SaveEvaluationKeeps

\* A recommendation is issued only while its evaluation is pending and not in the journal.
LEMMA LedgerGrows ==
  ASSUME AgentInv, NEW me \in Instance, Holds(me), me.pc = "issue", ~Contains(ledger, Judged(me)),
         ledger' = Append(ledger, Judged(me)), UNCHANGED <<kind, sourceVars, siteVars, eval, journal, torn>>
  PROVE  StoresType' /\ StoresInv' /\ Advance /\ Contains(ledger', Judged(me))
<1>1. me.pc \in Judging /\ me.pc \in Recording
  BY DEF Judging, Recording
<1>2. /\ Judged(me) \in Evaluation /\ Judged(me).env = me.env /\ me.env.frame \in Recommends
      /\ eval.pending = Judged(me) \/ Contains(journal, Judged(me))
  BY <1>1, RecordFacts DEF HoldsEvaluation
<1>3. eval.pending = Judged(me)
  BY <1>2, StoresFacts DEF IssuedIsJournaledOrPending, Contains
<1>4. /\ ledger' \in Seq(Evaluation) /\ Len(ledger') = Len(ledger) + 1 /\ Len(ledger) \in Nat
      /\ ledger'[Len(ledger) + 1] = Judged(me) /\ \A i \in 1 .. Len(ledger) : ledger'[i] = ledger[i]
  BY <1>2, StoresFacts
<1>5. \A x : Contains(ledger, x) => Contains(ledger', x)
  BY <1>4 DEF Contains
<1>6. Contains(ledger', Judged(me))
  BY <1>4 DEF Contains
<1>7. Completed' = Completed /\ Settled' = Settled
  BY DEF Completed, Settled, siteVars
<1>8. StoresType'
  BY <1>4, StoresFacts DEF StoresType, sourceVars, siteVars
<1>9. StreamSound' /\ JournalSound' /\ InStep' /\ SourceSound'
  BY <1>7, StoresFacts DEF StreamSound, JournalSound, InStep, SourceSound, siteVars, sourceVars
<1>10. IssuedIsJournaledOrPending'
  <2>1. IsInjective(ledger')
    <3>1. DOMAIN ledger = 1 .. Len(ledger) /\ DOMAIN ledger' = 1 .. Len(ledger) + 1
      BY <1>4, StoresFacts
    <3>2. \A i \in 1 .. Len(ledger) : ledger[i] # Judged(me)
      BY DEF Contains
    <3> QED
      BY <1>4, <3>1, <3>2, StoresFacts DEF IssuedIsJournaledOrPending, IsInjective
  <2>2. \A i \in 1 .. Len(journal') : journal'[i].env.frame \in Recommends => Contains(ledger', journal'[i])
    BY <1>5, StoresFacts DEF IssuedIsJournaledOrPending
  <2>3. \A i \in 1 .. Len(ledger') : Contains(journal', ledger'[i]) \/ eval'.pending = ledger'[i]
    BY <1>3, <1>4, StoresFacts DEF IssuedIsJournaledOrPending
  <2> QED
    BY <2>1, <2>2, <2>3 DEF IssuedIsJournaledOrPending
<1>11. Advance
  BY <1>5, <1>7, StoresFacts DEF Advance, siteVars
<1> QED
  BY <1>6, <1>8, <1>9, <1>10, <1>11 DEF StoresInv

\* An instance goes on with its record while the ledger or the journal may have grown.
LEMMA RecordingStep ==
  ASSUME AgentInv, StoresType', StoresInv', Advance, NEW r \in Runtimes, NEW me \in Instance, me = rt[r],
         me.pc \in Recording, NEW pc \in {"journal", "evalcomplete"}, Go(r, pc),
         pc = "journal" => Contains(ledger', Judged(me)),
         pc = "evalcomplete" => Contains(journal', Judged(me))
  PROVE  AgentInv'
<1>1. Holds(me) /\ me.pc \in Judging /\ pc \in Judging
  BY OneInstance DEF Judging, Recording
<1>2. PICK new : new = JudgingAt(me, pc, me.eval, me.outcome)
  OBVIOUS
<1>3. /\ new \in Instance /\ HoldsBatch(new) /\ HoldsPublication(new)
      /\ new.pc = pc /\ new.env = me.env /\ new.eval = me.eval /\ Judged(new) = Judged(me)
  <2>1. me.eval \in Evaluations /\ me.outcome \in {"none", "skipped", "evaluated"}
    BY JudgingMoves
  <2> QED
    BY <1>1, <1>2, <2>1, JudgingFacts
<1>4. Holds(me)'
  BY <1>1, StoresFacts, OthersHold
<1>5. /\ (Contains(stream, me.env) /\ Place(me.env) <= Completed)'
      /\ me.eval.pending = Judged(me) /\ (eval.pending = Judged(me) \/ Contains(journal, Judged(me)))'
  BY <1>1, <1>4 DEF Holds, HoldsEvaluation
<1>6. HoldsEvaluation(new)'
  BY <1>3, <1>5 DEF HoldsEvaluation
<1>7. HoldsBatch(new)'
  <2>1. Settled <= Settled' /\ Settled \in Nat /\ Settled' \in Nat
    BY StoresFacts, CountsAreNaturals DEF Advance, StoresType, Settled
  <2> QED
    BY <1>3, <2>1, ConstantsAssumption DEF HoldsBatch, Instance, Batch, Numbers
<1>8. HoldsPublication(new)'
  BY <1>3 DEF HoldsPublication, Publishing
<1>9. Set(r, new)
  BY <1>2, JudgingMoves DEF Go
<1> QED
  BY <1>3, <1>6, <1>7, <1>8, <1>9, StoreStep DEF Holds

LEMMA IssueRecommendationKeeps ==
  ASSUME AgentInv, NEW r \in Runtimes, IssueRecommendation(r)
  PROVE  AgentInv'
<1>1. PICK me \in Instance : me = rt[r]
  BY OneInstance
<1>2. me.pc = "issue" /\ me.pc \in Recording /\ Holds(me) /\ me.config \in Configs
  BY <1>1, OneInstance DEF IssueRecommendation, Recording
<1>3. CASE ~Contains(ledger, Judged(me)) /\ ledger' = Append(ledger, Judged(me))
  <2>1. StoresType' /\ StoresInv' /\ Advance /\ Contains(ledger', Judged(me))
    BY <1>2, <1>3, LedgerGrows DEF IssueRecommendation
  <2>2. CASE Go(r, "journal")
    BY <1>1, <1>2, <2>1, <2>2, RecordingStep
  <2>3. CASE Defer(r)
    BY <1>1, <1>2, <2>1, <2>3, CeaseIsIdle, IdleStep DEF Defer
  <2>4. CASE Fail(r)
    BY <1>1, <1>2, <2>1, <2>4, CeaseIsIdle, IdleStep DEF Fail
  <2> QED
    BY <2>2, <2>3, <2>4 DEF IssueRecommendation
<1>4. CASE UNCHANGED ledger /\ (Fail(r) \/ Defer(r))
  BY <1>1, <1>2, <1>4, CycleOver DEF IssueRecommendation, evidenceVars, AgentInv, TypeOK
<1> QED
  BY <1>1, <1>3, <1>4 DEF IssueRecommendation

\* A record that fits is the pending evaluation of the newest envelope.
LEMMA JournalGrows ==
  ASSUME AgentInv, NEW me \in Instance, Holds(me), me.pc = "journal", Fits(Judged(me)),
         journal' = Append(journal, Judged(me)), UNCHANGED <<kind, sourceVars, siteVars, eval, ledger, torn>>
  PROVE  StoresType' /\ StoresInv' /\ Advance /\ Contains(journal', Judged(me))
<1>1. me.pc \in Judging /\ me.pc \in Recording
  BY DEF Judging, Recording
<1>2. /\ me.env \in Envelope /\ Judged(me) \in Evaluation /\ Judged(me) # None /\ Judged(me).env = me.env
      /\ Place(me.env) \in 1 .. Len(stream) /\ stream[Place(me.env)] = me.env /\ Place(me.env) <= Completed
      /\ eval.pending = Judged(me) \/ Contains(journal, Judged(me))
      /\ me.env.frame \in Recommends => Contains(ledger, Judged(me))
  BY <1>1, RecordFacts DEF HoldsEvaluation
<1>3. ~Contains(journal, Judged(me))
  BY DEF Fits, Contains
<1>4. eval.pending = Judged(me) /\ Place(me.env) = Settled + 1 /\ Len(journal) = Settled
  BY <1>2, <1>3, StoresFacts DEF JournalSound, Contains
<1>5. Len(stream) >= Settled + 1
  BY <1>2, <1>4, StoresFacts
<1>6. /\ journal' \in Seq(Evaluation) /\ Len(journal') = Settled + 1
      /\ journal'[Settled + 1] = Judged(me) /\ \A i \in 1 .. Len(journal) : journal'[i] = journal[i]
  BY <1>2, <1>4, StoresFacts
<1>7. \A x : Contains(journal, x) => Contains(journal', x)
  BY <1>4, <1>6, StoresFacts DEF Contains
<1>8. Contains(journal', Judged(me))
  BY <1>6, StoresFacts DEF Contains
<1>9. Completed' = Completed /\ Settled' = Settled
  BY DEF Completed, Settled, siteVars
<1>10. StoresType'
  BY <1>6, StoresFacts DEF StoresType, sourceVars, siteVars
<1>11. StreamSound' /\ InStep' /\ SourceSound'
  BY <1>9, StoresFacts DEF StreamSound, InStep, SourceSound, siteVars, sourceVars
<1>12. JournalSound'
  <2>1. eval.last # None => Settled' \in 1 .. Len(journal') /\ journal'[Settled'] = eval.last
    BY <1>4, <1>6, <1>9, StoresFacts DEF JournalSound
  <2>2. \A i \in 1 .. Len(journal') : journal'[i].env = stream[i]
    BY <1>2, <1>4, <1>6, StoresFacts DEF JournalSound
  <2> QED
    BY <1>2, <1>4, <1>5, <1>6, <1>9, <2>1, <2>2, StoresFacts DEF JournalSound, siteVars
<1>13. IssuedIsJournaledOrPending'
  <2>1. \A i \in 1 .. Len(journal') : journal'[i].env.frame \in Recommends => Contains(ledger, journal'[i])
    BY <1>2, <1>4, <1>6, StoresFacts DEF IssuedIsJournaledOrPending
  <2> QED
    BY <1>7, <2>1, StoresFacts DEF IssuedIsJournaledOrPending
<1>14. Advance
  BY <1>7, <1>9, StoresFacts DEF Advance, siteVars
<1> QED
  BY <1>8, <1>10, <1>11, <1>12, <1>13, <1>14 DEF StoresInv

LEMMA AppendJournalKeeps ==
  ASSUME AgentInv, NEW r \in Runtimes, AppendJournal(r)
  PROVE  AgentInv'
<1>1. PICK me \in Instance : me = rt[r]
  BY OneInstance
<1>2. me.pc = "journal" /\ me.pc \in Recording /\ Holds(me) /\ me.config \in Configs
  BY <1>1, OneInstance DEF AppendJournal, Recording
<1>3. CASE Fits(Judged(me)) /\ journal' = Append(journal, Judged(me))
  <2>1. StoresType' /\ StoresInv' /\ Advance /\ Contains(journal', Judged(me))
    BY <1>2, <1>3, JournalGrows DEF AppendJournal
  <2>2. CASE Go(r, "evalcomplete")
    BY <1>1, <1>2, <2>1, <2>2, RecordingStep
  <2>3. CASE Defer(r)
    BY <1>1, <1>2, <2>1, <2>3, CeaseIsIdle, IdleStep DEF Defer
  <2>4. CASE Fail(r)
    BY <1>1, <1>2, <2>1, <2>4, CeaseIsIdle, IdleStep DEF Fail
  <2> QED
    BY <2>2, <2>3, <2>4 DEF AppendJournal
<1>4. CASE UNCHANGED journal
  <2>1. UNCHANGED <<kind, sourceVars, siteVars, evidenceVars>> /\ torn' \subseteq Files
    BY <1>4 DEF AppendJournal, evidenceVars, AgentInv, TypeOK
  <2>2. CASE Journaled(Judged(me)) /\ Go(r, "evalcomplete")
    BY <1>1, <1>2, <1>4, <2>1, <2>2, Unmoved, RecordingStep DEF Journaled
  <2>3. CASE Fail(r) \/ Defer(r)
    BY <1>1, <1>2, <2>1, <2>3, CycleOver
  <2>4. CASE Fits(Judged(me)) /\ journal' = Append(journal, Judged(me))
    BY <1>3, <2>4
  <2> QED
    BY <1>1, <2>2, <2>3, <2>4 DEF AppendJournal
<1> QED
  BY <1>1, <1>3, <1>4 DEF AppendJournal

\* The evaluation that is completed is the next one.
LEMMA CompletedIsNext ==
  ASSUME AgentInv, NEW me \in Instance, Holds(me), me.pc = "evalcomplete", eval = me.eval
  PROVE  /\ Complete(eval).last = Judged(me) /\ Complete(eval).pending = None /\ eval.pending = Judged(me)
         /\ Place(me.env) = Settled + 1 /\ Len(journal) = Settled + 1 /\ journal[Settled + 1] = Judged(me)
         /\ Judged(me) \in Evaluation /\ Judged(me) # None /\ Judged(me).env = me.env
<1>1. me.pc \in Judging /\ me.pc \in Recording
  BY DEF Judging, Recording
<1>2. /\ me.env \in Envelope /\ Judged(me) \in Evaluation /\ Judged(me) # None /\ Judged(me).env = me.env
      /\ eval.pending = Judged(me) /\ Contains(journal, Judged(me))
  BY <1>1, RecordFacts DEF HoldsEvaluation
<1>3. /\ Place(me.env) = Settled + 1 /\ Len(journal) = Settled + 1 /\ journal[Settled + 1] = Judged(me)
  BY <1>2, StoresFacts, WhereItStands DEF JournalSound
<1> QED
  BY <1>2, <1>3 DEF Complete

LEMMA CompleteEvaluationKeeps ==
  ASSUME AgentInv, NEW r \in Runtimes, CompleteEvaluation(r)
  PROVE  AgentInv'
<1>1. PICK me \in Instance : me = rt[r]
  BY OneInstance
<1>2. me.pc = "evalcomplete" /\ me.pc \in Judging /\ me.pc \in Recording /\ Holds(me)
  BY <1>1, OneInstance DEF CompleteEvaluation, Judging, Recording
<1> DEFINE completed == Complete(me.eval)
           saved == JudgingAt(me, "acknowledge", me.eval, "evaluated")
<1>3. /\ UNCHANGED <<kind, sourceVars, siteVars, ledger, journal, torn>>
      /\ SaveEvaluation(r, completed, [me EXCEPT !.pc = "acknowledge", !.outcome = "evaluated"])
  BY <1>1 DEF CompleteEvaluation
<1>4. [me EXCEPT !.pc = "acknowledge", !.outcome = "evaluated"] = saved
  BY DEF JudgingAt, Instance
<1>5. ASSUME eval = me.eval, eval' = completed
      PROVE  StoresType' /\ StoresInv' /\ Advance /\ saved \in Instance /\ Holds(saved)'
  <2>1. /\ me.env \in Envelope /\ Judged(me) \in Evaluation /\ Judged(me) # None /\ Judged(me).env = me.env
        /\ Contains(stream, me.env) /\ Place(me.env) <= Completed
        /\ eval.pending = Judged(me) /\ Contains(journal, Judged(me))
    BY <1>2, <1>5, RecordFacts DEF HoldsEvaluation
  <2>2. eval \in Evaluations /\ eval' \in Evaluations /\ eval'.last = Judged(me) /\ eval'.pending = None
    BY <1>5, <2>1, StoresFacts, CompletedEvaluation DEF Complete
  <2>3. /\ Place(me.env) = Settled + 1 /\ Len(journal) = Settled + 1 /\ journal[Settled + 1] = Judged(me)
        /\ Completed = Settled + 1
    BY <2>1, StoresFacts, WhereItStands DEF JournalSound, InStep
  <2>4. Completed' = Completed /\ Settled' = Settled + 1
    BY <1>3, <2>1, <2>2, <2>3 DEF Completed, Settled, siteVars
  <2>5. StoresType'
    BY <1>3, <2>2, StoresFacts DEF StoresType, sourceVars, siteVars
  <2>6. StreamSound' /\ SourceSound'
    <3>1. SourceSound'
      BY <1>3, <2>4, SourceFacts DEF SourceSound, sourceVars
    <3> QED
      BY <1>3, <2>4, <3>1, StoresFacts DEF StreamSound, siteVars
  <2>7. JournalSound'
    BY <1>3, <2>2, <2>3, <2>4, StoresFacts DEF JournalSound, siteVars
  <2>8. InStep'
    BY <1>3, <2>2, <2>3, <2>4, StoresFacts DEF InStep, siteVars
  <2>9. IssuedIsJournaledOrPending'
    BY <1>3, <2>1, StoresFacts DEF IssuedIsJournaledOrPending
  <2>10. Advance
    BY <1>3, <2>1, <2>4, StoresFacts DEF Advance, siteVars
  <2>11. "acknowledge" \in Judging /\ me.eval \in Evaluations /\ "evaluated" \in {"none", "skipped", "evaluated"}
    BY JudgingMoves DEF Judging
  <2>12. /\ saved \in Instance /\ HoldsBatch(saved) /\ HoldsPublication(saved)
         /\ saved.pc = "acknowledge" /\ saved.env = me.env
    BY <1>2, <2>11, JudgingFacts
  <2> HIDE DEF saved, completed
  <2>13. HoldsBatch(saved)'
    <3>1. Settled \in Nat /\ FirstNumber \in Nat /\ (saved.batch # None => saved.batch.seq \in Nat)
      BY <2>12, SourceFacts, ConstantsAssumption DEF Instance, Batch, Numbers
    <3> QED
      BY <2>4, <2>12, <3>1 DEF HoldsBatch
  <2>14. HoldsPublication(saved)'
    BY <2>12 DEF HoldsPublication, Publishing
  <2>15. HoldsEvaluation(saved)'
    BY <1>3, <2>1, <2>3, <2>4, <2>12, StoresFacts DEF HoldsEvaluation, Recording, siteVars
  <2> QED
    BY <2>5, <2>6, <2>7, <2>8, <2>9, <2>10, <2>12, <2>13, <2>14, <2>15 DEF StoresInv, Holds
<1> HIDE DEF completed, saved
<1> QED
  BY <1>1, <1>2, <1>3, <1>4, <1>5, SaveEvaluationKeeps

-----------------------------------------------------------------------------
(* The invariant, for any number of instances over the same stores.        *)

LEMMA AgentInvInit == Init => AgentInv
<1> SUFFICES ASSUME Init PROVE AgentInv
  OBVIOUS
<1>1. site = NoCheckpoint /\ eval = NoCheckpoint /\ NoCheckpoint.last = None /\ NoCheckpoint.pending = None
  BY DEF Init, NoCheckpoint
<1>2. StoresType
  BY <1>1, NoCheckpointTypes, ConstantsAssumption DEF Init, StoresType, Numbers
<1>3. Completed = 0 /\ Settled = 0
  BY <1>1 DEF Completed, Settled, Place
<1>4. StreamSound /\ JournalSound /\ InStep
  BY <1>1, <1>3 DEF Init, StreamSound, JournalSound, InStep
<1>5. SourceSound /\ IssuedIsJournaledOrPending
  BY <1>3, ConstantsAssumption DEF Init, SourceSound, IssuedIsJournaledOrPending, IsInjective
<1>6. rt \in [Runtimes -> Instance] /\ MemoryInv
  BY AsleepIsIdle, IdleHolds DEF Init, MemoryInv
<1> QED
  BY <1>2, <1>4, <1>5, <1>6, TypeSplits DEF AgentInv, StoresInv

LEMMA AgentInvStep == AgentInv /\ [Next]_vars => AgentInv'
<1> SUFFICES ASSUME AgentInv, [Next]_vars PROVE AgentInv'
  OBVIOUS
<1>1. CASE LoseAck
  BY <1>1, LoseAckKeeps
<1>2. ASSUME NEW r \in Runtimes, Work(r) PROVE AgentInv'
  <2>1. CASE Start(r) \/ Run(r) \/ Exit(r) \/ BeginCycle(r) \/ Recover(r)
    BY <2>1, StartKeeps, RunKeeps, ExitKeeps, BeginCycleKeeps, RecoverKeeps
  <2>2. CASE Pipeline(r)
    BY <2>2, PeekKeeps, ObserveKeeps, AdmitKeeps, ConsiderDiscardingKeeps, DiscardKeeps,
       PreparePublicationKeeps, PublishKeeps, CompletePublicationKeeps DEF Pipeline
  <2>3. CASE Evaluating(r)
    BY <2>3, EvaluateKeeps, PrepareEvaluationKeeps, LookInLedgerKeeps, IssueRecommendationKeeps,
       AppendJournalKeeps, CompleteEvaluationKeeps, AcknowledgeKeeps DEF Evaluating
  <2> QED
    BY <1>2, <2>1, <2>2, <2>3 DEF Work
<1>3. ASSUME NEW r \in Runtimes, Trouble(r) PROVE AgentInv'
  BY <1>3, OutageKeeps, CrashKeeps, TearWriteKeeps, RequestStopKeeps DEF Trouble
<1>4. CASE UNCHANGED vars
  <2>1. StoresType' /\ StoresInv' /\ Advance /\ rt' = rt
    BY <1>4, Unmoved DEF vars, AgentInv, TypeOK
  <2>2. ASSUME NEW s \in Runtimes PROVE Holds(rt[s])'
    <3>1. PICK me \in Instance : me = rt[s]
      BY OneInstance
    <3>2. Holds(me)'
      BY <2>1, <3>1, OneInstance, StoresFacts, OthersHold
    <3> QED
      BY <2>1, <3>1, <3>2
  <2>3. TypeOK'
    BY <2>1 DEF AgentInv, TypeOK, StoresType, Instance
  <2> QED
    BY <2>1, <2>2, <2>3 DEF AgentInv, MemoryInv
<1> QED
  BY <1>1, <1>2, <1>3, <1>4 DEF Next

\* However many instances run over the stores and the source, and whatever crashes, fails or is
\* torn on the way: the checkpoints tell what the stream and the journal hold, publication is at
\* most one envelope ahead of evaluation, and the source counts no further than what is settled.
THEOREM AgentInvariant == Spec => []AgentInv
BY AgentInvInit, AgentInvStep, PTL DEF Spec

LEMMA AgreesByInvariant == AgentInv => EvaluatedAsPublished
BY StoresFacts DEF JournalSound, StreamSound, InStep, EvaluatedAsPublished

\* What is judged is what was published, and the ledger and the journal tell one story: no
\* recommendation is an orphan, whatever configuration a restart brings.
THEOREM EvidenceAgrees == Spec => [](TypeOK /\ EvaluatedAsPublished /\ IssuedIsJournaledOrPending)
<1>1. AgentInv => TypeOK /\ EvaluatedAsPublished /\ IssuedIsJournaledOrPending
  BY AgreesByInvariant DEF AgentInv, StoresInv
<1> QED
  BY <1>1, AgentInvariant, PTL

\* Nothing is ever appended behind half a line, whoever tries (verify before append).
THEOREM NothingBehindHalfALine == Spec => HalfALineIsTheLast
<1>1. Next => [/\ "stream" \in torn => stream' = stream
               /\ "ledger" \in torn => ledger' = ledger
               /\ "journal" \in torn => journal' = journal]_vars
  <2> SUFFICES ASSUME Next
               PROVE  /\ "stream" \in torn => stream' = stream
                      /\ "ledger" \in torn => ledger' = ledger
                      /\ "journal" \in torn => journal' = journal
    OBVIOUS
  <2>1. CASE LoseAck
    BY <2>1 DEF LoseAck, siteVars, evidenceVars
  <2>2. ASSUME NEW r \in Runtimes, Start(r) \/ Run(r) \/ Exit(r) \/ BeginCycle(r) \/ Recover(r) \/ Trouble(r)
        PROVE  UNCHANGED <<stream, ledger, journal>>
    BY <2>2 DEF Start, Run, Exit, BeginCycle, Recover, VerifyLedger, ReadJournal, LoadSite, Reconcile, RecoveryUnavailable,
       Trouble, Outage, Crash, TearWrite, RequestStop, siteVars, evidenceVars
  <2>3. ASSUME NEW r \in Runtimes, Pipeline(r)
        PROVE  UNCHANGED <<ledger, journal>> /\ ("stream" \in torn => stream' = stream)
    BY <2>3 DEF Pipeline, Peek, Observe, Admit, ConsiderDiscarding, Discard, PreparePublication, Publish,
       CompletePublication, siteVars, evidenceVars
  <2>4. ASSUME NEW r \in Runtimes, Evaluating(r)
        PROVE  stream' = stream /\ ("ledger" \in torn => ledger' = ledger) /\ ("journal" \in torn => journal' = journal)
    BY <2>4 DEF Evaluating, Evaluate, PrepareEvaluation, LookInLedger, IssueRecommendation, AppendJournal, Fits,
       CompleteEvaluation, Acknowledge, siteVars, evidenceVars
  <2> QED
    BY <2>1, <2>2, <2>3, <2>4 DEF Next, Work
<1> QED
  BY <1>1, PTL DEF Spec, HalfALineIsTheLast

-----------------------------------------------------------------------------
(* The invariant of a source with one consumer.                            *)

LEMMA BelongsStays ==
  ASSUME UNCHANGED <<stream, acked, rejected>>, NEW n, NEW f
  PROVE  Belongs(n, f)' <=> Belongs(n, f)
BY DEF Belongs, Acked

\* Evaluating more does not disturb the order of the frames.
LEMMA FramesStay ==
  ASSUME AgentInv, FramesInv, UNCHANGED <<head, number, acked, rejected, site, stream>>,
         Settled' \in Nat, Settled <= Settled'
  PROVE  FramesInv'
<1>1. Belongs(number, head)' /\ (site.pending # None => Belongs(site.pending.seq, site.pending.frame)')
  BY BelongsStays DEF FramesInv
<1>2. \A a \in acked' : \E i \in 1 .. Len(stream') :
        stream'[i].frame = a.frame /\ stream'[i].seq = a.seq /\ i <= Settled'
  BY StoresFacts DEF FramesInv
<1> QED
  BY <1>1, <1>2 DEF FramesInv, FramesIn

\* The only consumer moves.
LEMMA ConsumerStep ==
  ASSUME OneConsumer, AgentInv, NEW r \in Runtimes, NEW me, Set(r, me), FramesInv', Consumes(me)'
  PROVE  SettledInv'
<1>1. PICK it : it = me
  OBVIOUS
<1>2. ASSUME NEW s \in Runtimes PROVE Consumes(rt[s])'
  <2>1. s = r
    BY DEF OneConsumer
  <2>2. rt'[s] = it
    BY <1>1, <2>1 DEF AgentInv, Set
  <2> QED
    BY <1>1, <2>2
<1> QED
  BY <1>2 DEF SettledInv, ConsumerInv

LEMMA IdleConsumes ==
  ASSUME NEW me, Idle(me)
  PROVE  Consumes(me)'
<1>1. me.batch = None /\ me.pc \in {"down", "rest", "cycle"}
  BY DEF Idle
<1>2. me.pc \notin Holding /\ me.pc \notin Assembling /\ me.pc \notin Judging
  BY <1>1, FreeStages
<1>3. me.pc # "discard" /\ me.pc \notin {"evalprepare"} \cup Recording
  BY <1>1, <1>2 DEF Judging, Recording
<1> QED
  BY <1>1, <1>2, <1>3 DEF Consumes

\* Its cycle is over.
LEMMA IdleConsumerStep ==
  ASSUME OneConsumer, AgentInv, NEW r \in Runtimes, NEW me, Set(r, me), Idle(me), FramesInv'
  PROVE  SettledInv'
BY IdleConsumes, ConsumerStep

\* How a cycle may be over.
Ends(r) ==
  \/ Defer(r) \/ Fail(r) \/ Set(r, Asleep) \/ Set(r, Proceed(rt[r]))
  \/ \E code \in Codes : Reject(r, code)

LEMMA EndedConsumer ==
  ASSUME OneConsumer, AgentInv, NEW r \in Runtimes, rt[r].pc # "down", Ends(r), FramesInv'
  PROVE  SettledInv'
<1>1. rt[r] \in Instance /\ rt[r].config \in Configs /\ kind \in [Frames -> Kinds]
  BY OneInstance
<1>2. Idle(Cease(rt[r])) /\ Idle(FailClosed(rt[r])) /\ Idle(Proceed(rt[r])) /\ Idle(Asleep)
  BY <1>1, CeaseIsIdle, AsleepIsIdle
<1>3. \A code \in Codes : Idle(Rejected(rt[r], code))
  BY <1>1, RejectedIsIdle
<1> QED
  BY <1>2, <1>3, IdleConsumerStep DEF Ends, Defer, Fail, Reject

\* Nothing moves but the consumer, which keeps its frame.
LEMMA QuietFrames ==
  ASSUME AgentInv, SettledInv, UNCHANGED <<sourceVars, siteVars, evidenceVars>>
  PROVE  FramesInv'
<1>1. Settled' = Settled /\ Settled \in Nat
  BY StoresFacts DEF Settled, evidenceVars
<1> QED
  BY <1>1, FramesStay DEF SettledInv, sourceVars, siteVars

LEMMA OneConsumes ==
  ASSUME SettledInv, NEW r \in Runtimes
  PROVE  Consumes(rt[r]) /\ FramesInv
BY DEF SettledInv, ConsumerInv

\* What it knows of its frame stays true.
LEMMA KeepsFrame ==
  ASSUME NEW me, Consumes(me), NEW new, new.batch = me.batch, UNCHANGED <<number, head, stream, acked, rejected>>
  PROVE  new.batch # None => (/\ Belongs(new.batch.seq, new.batch.frame)
                              /\ number <= new.batch.seq /\ (number = new.batch.seq => head = new.batch.frame))'
BY BelongsStays DEF Consumes

LEMMA FreeConsumes ==
  ASSUME NEW me, Consumes(me), NEW new, new.batch = me.batch, UNCHANGED <<number, head, stream, acked, rejected>>,
         new.pc \in (Stages \ Holding) \ {"loadsite", "reconcile"}
  PROVE  Consumes(new)'
<1>1. new.pc \notin Assembling /\ new.pc \notin Judging /\ new.pc \notin {"evalprepare"} \cup Recording /\ new.pc # "discard"
  BY FreeStages DEF Holding, Judging
<1> QED
  BY <1>1, KeepsFrame DEF Consumes

Quiet == UNCHANGED <<sourceVars, siteVars, evidenceVars>>

LEMMA QuietIsUnchanged == Quiet => UNCHANGED <<number, head, stream, acked, rejected, site, eval, journal, ledger>>
BY DEF Quiet, sourceVars, siteVars, evidenceVars

LEMMA GoesOnConsuming ==
  ASSUME OneConsumer, AgentInv, SettledInv, Quiet, NEW r \in Runtimes,
         NEW pc \in (Stages \ Holding) \ {"loadsite", "reconcile"}, Go(r, pc)
  PROVE  SettledInv'
<1>1. PICK new : new = [rt[r] EXCEPT !.pc = pc]
  OBVIOUS
<1>2. new.pc = pc /\ new.batch = rt[r].batch
  BY <1>1, OneInstance, WithPc
<1>3. Consumes(new)'
  BY <1>2, OneConsumes, FreeConsumes, QuietIsUnchanged
<1>4. FramesInv'
  BY QuietFrames DEF Quiet
<1> QED
  BY <1>1, <1>3, <1>4, ConsumerStep DEF Go

\* The steps between the frames, and the crashes.
LEMMA QuietSteps ==
  ASSUME OneConsumer, AgentInv, SettledInv, NEW r \in Runtimes,
         \/ Start(r) \/ Run(r) \/ Exit(r) \/ BeginCycle(r) \/ Peek(r) \/ VerifyLedger(r)
         \/ Outage(r) \/ Crash(r) \/ TearWrite(r)
  PROVE  SettledInv'
<1>1. Quiet
  BY DEF Start, Run, Exit, BeginCycle, Peek, VerifyLedger, Outage, Crash, TearWrite, Quiet
<1>2. FramesInv'
  BY <1>1, QuietFrames DEF Quiet
<1>3. CASE Start(r)
  <2>1. PICK c \in Configs : Set(r, [Asleep EXCEPT !.pc = "rest", !.config = c])
    BY <1>3 DEF Start
  <2>2. [Asleep EXCEPT !.pc = "rest"] \in Instance
    BY AsleepIsIdle, FreeStages DEF Idle, Instance
  <2>3. [Asleep EXCEPT !.pc = "rest", !.config = c] \in Instance
    BY <2>2 DEF Instance
  <2>4. Idle([Asleep EXCEPT !.pc = "rest", !.config = c])
    BY <2>3 DEF Idle, Asleep
  <2> QED
    BY <1>2, <2>1, <2>4, IdleConsumerStep
<1>4. CASE Run(r)
  <2>1. PICK p \in RunPolicies : Set(r, [rt[r] EXCEPT !.pc = "cycle", !.run = p])
    BY <1>4 DEF Run
  <2>2. PICK new : new = [rt[r] EXCEPT !.pc = "cycle", !.run = p]
    OBVIOUS
  <2>3. new.pc = "cycle" /\ new.batch = rt[r].batch
    BY <2>2, OneInstance DEF Instance
  <2>4. Consumes(new)'
    BY <1>1, <2>3, OneConsumes, FreeConsumes, FreeStages, QuietIsUnchanged
  <2> QED
    BY <1>2, <2>1, <2>2, <2>4, ConsumerStep
<1>5. CASE (\E pc \in {"peek", "verify", "readjournal", "observe"} : Go(r, pc)) /\ rt[r].pc # "down"
  BY <1>1, <1>5, GoesOnConsuming, FreeStages
<1>6. CASE rt[r].pc # "down" /\ Ends(r)
  BY <1>2, <1>6, EndedConsumer
<1>7. CASE Exit(r)
  BY <1>6, <1>7 DEF Exit, Ends
<1>8. CASE BeginCycle(r)
  BY <1>5, <1>6, <1>8 DEF BeginCycle, Ends
<1>9. CASE Peek(r) \/ VerifyLedger(r)
  BY <1>5, <1>6, <1>9 DEF Peek, VerifyLedger, Ends
<1>10. CASE Outage(r)
  <2>1. rt[r].code \in Codes
    BY OneInstance DEF Instance
  <2> QED
    BY <1>6, <1>10, <2>1 DEF Outage, Ends, Codes
<1>11. CASE Crash(r) \/ TearWrite(r)
  BY <1>6, <1>11 DEF Crash, TearWrite, HalfWritten, Ends, Codes
<1> QED
  BY <1>3, <1>4, <1>7, <1>8, <1>9, <1>10, <1>11

LEMMA RequestStopConsumes ==
  ASSUME OneConsumer, AgentInv, SettledInv, NEW r \in Runtimes, RequestStop(r)
  PROVE  SettledInv'
<1>1. PICK new : new = [rt[r] EXCEPT !.stop = TRUE]
  OBVIOUS
<1>2. Quiet /\ FramesInv'
  BY QuietFrames DEF RequestStop, Quiet
<1>3. /\ new.pc = rt[r].pc /\ new.batch = rt[r].batch /\ new.env = rt[r].env
      /\ new.site = rt[r].site /\ new.eval = rt[r].eval /\ new.journal = rt[r].journal
  BY <1>1, OneInstance DEF Instance
<1>4. Consumes(new)'
  BY <1>2, <1>3, OneConsumes, QuietIsUnchanged, KeepsFrame DEF Consumes, MayDiscard
<1> QED
  BY <1>1, <1>2, <1>4, ConsumerStep DEF RequestStop

\* The steps of recovery, which compares what it has read.
LEMMA RecoverConsumes ==
  ASSUME OneConsumer, AgentInv, SettledInv, NEW r \in Runtimes, Recover(r)
  PROVE  SettledInv'
<1>1. Quiet /\ FramesInv' /\ rt[r].pc # "down"
  BY QuietFrames DEF Recover, VerifyLedger, ReadJournal, LoadSite, Reconcile, RecoveryUnavailable, Quiet
<1>2. rt[r] \in Instance /\ Consumes(rt[r])
  BY OneInstance, OneConsumes
<1>3. CASE VerifyLedger(r)
  BY <1>3, QuietSteps
<1>4. CASE Fail(r)
  BY <1>1, <1>4, EndedConsumer DEF Ends
<1>5. ASSUME NEW new, Set(r, new), new.batch = rt[r].batch, new.pc \in {"loadsite", "reconcile", "peek"},
             new.pc \in {"loadsite", "reconcile"} => new.journal = journal, new.pc = "reconcile" => new.site = site
      PROVE  SettledInv'
  <2>1. /\ new.pc \notin Assembling /\ new.pc \notin Judging /\ new.pc \notin {"evalprepare"} \cup Recording
        /\ new.pc # "discard"
    BY <1>5, FreeStages DEF Holding, Judging
  <2>2. Consumes(new)'
    BY <1>1, <1>2, <1>5, <2>1, QuietIsUnchanged, KeepsFrame DEF Consumes
  <2> QED
    BY <1>1, <1>5, <2>2, ConsumerStep
<1>6. CASE ReadJournal(r)
  <2>1. PICK new : new = [rt[r] EXCEPT !.pc = "loadsite", !.journal = journal]
    OBVIOUS
  <2>2. new.batch = rt[r].batch /\ new.pc = "loadsite" /\ new.journal = journal
    BY <1>2, <2>1 DEF Instance
  <2>3. Fail(r) \/ Set(r, new)
    BY <1>6, <2>1 DEF ReadJournal
  <2> QED
    BY <1>4, <1>5, <2>2, <2>3
<1>7. CASE LoadSite(r)
  <2>1. PICK new : new = [rt[r] EXCEPT !.pc = "reconcile", !.site = site]
    OBVIOUS
  <2>2. new.batch = rt[r].batch /\ new.pc = "reconcile" /\ new.journal = rt[r].journal /\ new.site = site
    BY <1>2, <2>1 DEF Instance
  <2>3. rt[r].journal = journal
    BY <1>2, <1>7 DEF LoadSite, Consumes
  <2> QED
    BY <1>5, <1>7, <2>1, <2>2, <2>3 DEF LoadSite
<1>8. ToCycle(rt[r]).batch = rt[r].batch /\ ToCycle(rt[r]).pc = "peek"
  BY <1>2 DEF ToCycle, Instance
<1>9. CASE RecoveryUnavailable(r)
  BY <1>5, <1>8, <1>9 DEF RecoveryUnavailable
<1>10. CASE Reconcile(r)
  <2>1. PICK new : new = [ToCycle(rt[r]) EXCEPT !.recovered = TRUE]
    OBVIOUS
  <2>2. new.batch = rt[r].batch /\ new.pc = "peek"
    BY <1>1, <1>8, <2>1, ToCycleFacts DEF Instance
  <2>3. Fail(r) \/ Set(r, new)
    BY <1>10, <2>1 DEF Reconcile
  <2> QED
    BY <1>4, <1>5, <2>2, <2>3
<1> QED
  BY <1>3, <1>6, <1>7, <1>9, <1>10 DEF Recover

LEMMA ObserveConsumes ==
  ASSUME OneConsumer, AgentInv, SettledInv, NEW r \in Runtimes, Observe(r)
  PROVE  SettledInv'
<1>1. Quiet /\ FramesInv' /\ rt[r].pc # "down"
  BY QuietFrames DEF Observe, Quiet
<1>2. CASE Reject(r, "ingestion_failed")
  BY <1>1, <1>2, EndedConsumer DEF Ends, Codes
<1>3. CASE Set(r, [rt[r] EXCEPT !.pc = "admit", !.batch = [seq |-> number, frame |-> head]])
  <2>1. PICK new : new = [rt[r] EXCEPT !.pc = "admit", !.batch = [seq |-> number, frame |-> head]]
    OBVIOUS
  <2>2. new.pc = "admit" /\ new.batch.seq = number /\ new.batch.frame = head
    BY <2>1, OneInstance DEF Instance
  <2>3. Belongs(number, head)' /\ number' = number /\ head' = head /\ number \in Nat
    BY <1>1, QuietIsUnchanged, SourceFacts DEF FramesInv
  <2>4. Consumes(new)'
    BY <2>2, <2>3 DEF Consumes, Assembling, Publishing, Judging, Recording
  <2> QED
    BY <1>1, <1>3, <2>1, <2>4, ConsumerStep
<1> QED
  BY <1>2, <1>3 DEF Observe

LEMMA ConsiderDiscardingConsumes ==
  ASSUME OneConsumer, AgentInv, SettledInv, NEW r \in Runtimes, ConsiderDiscarding(r)
  PROVE  SettledInv'
<1>1. Quiet /\ FramesInv' /\ rt[r].pc # "down" /\ rt[r].code \in Codes
  BY QuietFrames, OneInstance DEF ConsiderDiscarding, Quiet, Instance
<1>2. CASE Reject(r, rt[r].code)
  BY <1>1, <1>2, EndedConsumer DEF Ends
<1>3. CASE MayDiscard(rt[r].batch.seq) /\ Go(r, "discard")
  <2>1. PICK new : new = [rt[r] EXCEPT !.pc = "discard"]
    OBVIOUS
  <2>2. new.pc = "discard" /\ new.batch = rt[r].batch
    BY <2>1, OneInstance, WithPc, FreeStages DEF Holding
  <2>3. MayDiscard(new.batch.seq)'
    BY <1>1, <1>3, <2>2, QuietIsUnchanged DEF MayDiscard
  <2>4. Consumes(new)'
    BY <1>1, <2>2, <2>3, OneConsumes, KeepsFrame, QuietIsUnchanged DEF Consumes, Assembling, Publishing, Judging, Recording
  <2> QED
    BY <1>1, <1>3, <2>1, <2>4, ConsumerStep DEF Go
<1> QED
  BY <1>2, <1>3 DEF ConsiderDiscarding

LEMMA AdmitConsumes ==
  ASSUME OneConsumer, AgentInv, SettledInv, NEW r \in Runtimes, Admit(r)
  PROVE  SettledInv'
<1>1. PICK me \in Instance : me = rt[r]
  BY OneInstance
<1>2. me.pc = "admit" /\ HoldsBatch(me) /\ Consumes(me) /\ site \in Publications
  BY <1>1, OneInstance, OneConsumes, StoresFacts DEF Admit
<1>3. Quiet /\ FramesInv'
  BY QuietFrames DEF Admit, Quiet
<1>4. ASSUME NEW code \in {"invalid_observation", "insufficient_quality"},
             Set(r, [me EXCEPT !.pc = "refuse", !.code = code])
      PROVE  SettledInv'
  <2>1. PICK new : new = [me EXCEPT !.pc = "refuse", !.code = code]
    OBVIOUS
  <2>2. new.pc = "refuse" /\ new.batch = me.batch
    BY <2>1 DEF Instance
  <2>3. Consumes(new)'
    BY <1>2, <1>3, <2>2, KeepsFrame, QuietIsUnchanged DEF Consumes, Assembling, Publishing, Judging, Recording
  <2> QED
    BY <1>3, <1>4, <2>1, <2>3, ConsumerStep
<1>5. ASSUME Set(r, [me EXCEPT !.pc = "prepare", !.env = Assembled(me), !.site = site])
      PROVE  SettledInv'
  <2>1. PICK new : new = AdmittedTo(me, "prepare", site)
    OBVIOUS
  <2>2. new.pc = "prepare" /\ new.site = site /\ new.batch = me.batch
    BY <1>2, <2>1, AdmittedFacts
  <2>3. Consumes(new)'
    BY <1>2, <1>3, <2>2, KeepsFrame, QuietIsUnchanged DEF Consumes, Judging, Recording
  <2> QED
    BY <1>3, <1>5, <2>1, <2>3, ConsumerStep DEF AdmittedTo
<1>6. ASSUME Set(r, [me EXCEPT !.pc = "evaluate", !.env = Assembled(me)]),
             site.last = Assembled(me), site.pending = None
      PROVE  SettledInv'
  <2>1. PICK new : new = AdmittedTo(me, "evaluate", me.site)
    OBVIOUS
  <2>2. new.pc = "evaluate" /\ new.env = Assembled(me) /\ new.batch = me.batch
    <3>1. me.site \in Publications
      BY DEF Instance
    <3> QED
      BY <1>2, <2>1, <3>1, AdmittedFacts
  <2>3. Consumes(new)'
    BY <1>2, <1>3, <1>6, <2>2, KeepsFrame, QuietIsUnchanged DEF Consumes, Assembling, Publishing, Recording
  <2> QED
    BY <1>3, <1>6, <2>1, <2>3, AdmittedToEvaluate, ConsumerStep
<1>7. ASSUME NEW code \in {"replay_mismatch", "invalid_sequence"}, Reject(r, code)
      PROVE  SettledInv'
  BY <1>1, <1>2, <1>3, <1>7, EndedConsumer DEF Ends, Codes
<1> QED
  BY <1>1, <1>4, <1>5, <1>6, <1>7 DEF Admit, SameEnvelope, CompletedReplay

\* An instance that goes on judging the newest envelope.
LEMMA JudgingConsumes ==
  ASSUME OneConsumer, AgentInv, SettledInv, NEW r \in Runtimes, NEW me \in Instance, me = rt[r], me.pc \in Judging,
         UNCHANGED <<number, head, stream, acked, rejected, site>>, Settled' \in Nat, Settled <= Settled',
         NEW pc \in Judging \ {"evaluate"}, NEW c \in Evaluations, NEW o \in {"none", "skipped", "evaluated"},
         pc # "acknowledge" => c = eval', Set(r, JudgingAt(me, pc, c, o))
  PROVE  SettledInv'
<1>1. Holds(me) /\ Consumes(me)
  BY OneInstance, OneConsumes
<1>2. PICK new : new = JudgingAt(me, pc, c, o)
  OBVIOUS
<1>3. new.pc = pc /\ new.env = me.env /\ new.eval = c /\ new.batch = me.batch
  BY <1>1, <1>2, JudgingFacts
<1>4. Consumes(new)'
  BY <1>1, <1>3, KeepsFrame DEF Consumes, Judging, Recording, Assembling, Publishing
<1>5. FramesInv'
  BY FramesStay DEF SettledInv
<1> QED
  BY <1>2, <1>4, <1>5, ConsumerStep

LEMMA EvaluateConsumes ==
  ASSUME OneConsumer, AgentInv, SettledInv, NEW r \in Runtimes, Evaluate(r)
  PROVE  SettledInv'
<1>1. PICK me \in Instance : me = rt[r]
  BY OneInstance
<1>2. /\ me.pc \in Judging /\ rt[r].pc # "down" /\ eval \in Evaluations
      /\ me.eval \in Evaluations /\ me.outcome \in {"none", "skipped", "evaluated"}
  BY <1>1, StoresFacts, JudgingMoves DEF Evaluate, Judging
<1>3. Quiet /\ FramesInv' /\ Settled' = Settled /\ Settled \in Nat
  BY QuietFrames, StoresFacts DEF Evaluate, Quiet, Settled, evidenceVars
<1>4. CASE Set(r, [me EXCEPT !.pc = "acknowledge", !.outcome = "skipped"])
  <2>1. Set(r, JudgingAt(me, "acknowledge", me.eval, "skipped"))
    <3>1. [me EXCEPT !.pc = "acknowledge", !.outcome = "skipped"] = JudgingAt(me, "acknowledge", me.eval, "skipped")
      BY DEF Instance, JudgingAt
    <3> QED
      BY <1>4, <3>1
  <2>2. "acknowledge" \in Judging \ {"evaluate"} /\ "skipped" \in {"none", "skipped", "evaluated"}
    BY DEF Judging
  <2> QED
    BY <1>1, <1>2, <1>3, <2>1, <2>2, QuietIsUnchanged, JudgingConsumes
<1>5. CASE Set(r, [me EXCEPT !.pc = "evalprepare", !.eval = eval])
  <2>1. Set(r, JudgingAt(me, "evalprepare", eval, me.outcome))
    BY <1>5, JudgingMoves
  <2>2. "evalprepare" \in Judging \ {"evaluate"} /\ eval' = eval
    BY <1>3, QuietIsUnchanged DEF Judging
  <2> QED
    BY <1>1, <1>2, <1>3, <2>1, <2>2, QuietIsUnchanged, JudgingConsumes
<1>6. CASE Fail(r)
  BY <1>2, <1>3, <1>6, EndedConsumer DEF Ends
<1> QED
  BY <1>1, <1>4, <1>5, <1>6 DEF Evaluate

\* Looking, issuing and journaling: the evaluation checkpoint stands.
LEMMA RecordingConsumes ==
  ASSUME OneConsumer, AgentInv, SettledInv, NEW r \in Runtimes,
         LookInLedger(r) \/ IssueRecommendation(r) \/ AppendJournal(r)
  PROVE  SettledInv'
<1>1. PICK me \in Instance : me = rt[r]
  BY OneInstance
<1>2. /\ me.pc \in Judging /\ me.pc \in Recording /\ rt[r].pc # "down"
      /\ me.eval \in Evaluations /\ me.outcome \in {"none", "skipped", "evaluated"}
  BY <1>1, JudgingMoves DEF LookInLedger, IssueRecommendation, AppendJournal, Judging, Recording
<1>3. UNCHANGED <<number, head, stream, acked, rejected, site, eval>>
  BY DEF LookInLedger, IssueRecommendation, AppendJournal, sourceVars, siteVars, evidenceVars
<1>4. Settled' = Settled /\ Settled \in Nat /\ me.eval = eval'
  BY <1>1, <1>2, <1>3, StoresFacts, OneConsumes DEF Settled, Consumes
<1>5. FramesInv'
  BY <1>3, <1>4, FramesStay DEF SettledInv
<1>6. ASSUME NEW pc \in {"issue", "journal", "evalcomplete"}, Go(r, pc) PROVE SettledInv'
  <2>1. Set(r, JudgingAt(me, pc, me.eval, me.outcome))
    BY <1>1, <1>6, JudgingMoves DEF Go
  <2>2. pc \in Judging \ {"evaluate"}
    BY DEF Judging, Recording
  <2> QED
    BY <1>1, <1>2, <1>3, <1>4, <2>1, <2>2, JudgingConsumes
<1>7. CASE Defer(r) \/ Fail(r)
  BY <1>2, <1>5, <1>7, EndedConsumer DEF Ends
<1> QED
  BY <1>6, <1>7 DEF LookInLedger, IssueRecommendation, AppendJournal

LEMMA PrepareEvaluationConsumes ==
  ASSUME OneConsumer, AgentInv, SettledInv, NEW r \in Runtimes, PrepareEvaluation(r)
  PROVE  SettledInv'
<1>1. PICK me \in Instance : me = rt[r]
  BY OneInstance
<1>2. /\ me.pc = "evalprepare" /\ me.pc \in Judging /\ Holds(me) /\ rt[r].pc # "down"
      /\ me.outcome \in {"none", "skipped", "evaluated"}
  BY <1>1, OneInstance, JudgingMoves DEF PrepareEvaluation, Judging
<1> DEFINE prepared == Prepare(me.eval, Judged(me))
           next == IF me.env.frame \in Recommends THEN "lookledger" ELSE "journal"
<1>3. /\ UNCHANGED <<number, head, stream, acked, rejected, site>>
      /\ SaveEvaluation(r, prepared, [me EXCEPT !.pc = next, !.eval = prepared])
  BY <1>1 DEF PrepareEvaluation, sourceVars, siteVars
<1>4. CASE eval = me.eval /\ eval' = prepared
  <2>1. prepared \in Evaluations /\ eval'.last = eval.last
    BY <1>2, <1>4, PreparedEvaluationIsNext
  <2>2. Settled' = Settled /\ Settled \in Nat
    BY <2>1, StoresFacts DEF Settled
  <2>3. next \in Judging \ {"evaluate"}
    BY DEF Judging, Recording
  <2>4. FramesInv'
    BY <1>3, <2>2, FramesStay DEF SettledInv
  <2> HIDE DEF next, prepared
  <2>5. CASE Set(r, [me EXCEPT !.pc = next, !.eval = prepared])
    <3>1. Set(r, JudgingAt(me, next, prepared, me.outcome))
      BY <2>5, JudgingMoves
    <3> QED
      BY <1>1, <1>2, <1>3, <1>4, <2>1, <2>2, <2>3, <3>1, JudgingConsumes
  <2>6. CASE Defer(r)
    BY <1>2, <2>4, <2>6, EndedConsumer DEF Ends
  <2> QED
    BY <1>3, <2>5, <2>6 DEF SaveEvaluation
<1>5. CASE UNCHANGED eval /\ Defer(r)
  <2>1. FramesInv'
    BY <1>3, <1>5, StoresFacts, FramesStay DEF SettledInv, Settled
  <2> QED
    BY <1>2, <1>5, <2>1, EndedConsumer DEF Ends
<1> QED
  BY <1>1, <1>3, <1>4, <1>5 DEF SaveEvaluation

LEMMA CompleteEvaluationConsumes ==
  ASSUME OneConsumer, AgentInv, SettledInv, NEW r \in Runtimes, CompleteEvaluation(r)
  PROVE  SettledInv'
<1>1. PICK me \in Instance : me = rt[r]
  BY OneInstance
<1>2. /\ me.pc = "evalcomplete" /\ me.pc \in Judging /\ Holds(me) /\ rt[r].pc # "down" /\ me.eval \in Evaluations
  <2>1. me.eval \in Evaluations
    BY DEF Instance
  <2>2. me.pc = "evalcomplete"
    BY <1>1 DEF CompleteEvaluation
  <2> QED
    BY <1>1, <2>1, <2>2, OneInstance DEF Judging, Recording
<1> DEFINE saved == JudgingAt(me, "acknowledge", me.eval, "evaluated")
<1>3. /\ UNCHANGED <<number, head, stream, acked, rejected, site>>
      /\ SaveEvaluation(r, Complete(me.eval), [me EXCEPT !.pc = "acknowledge", !.outcome = "evaluated"])
  BY <1>1 DEF CompleteEvaluation, sourceVars, siteVars
<1>4. [me EXCEPT !.pc = "acknowledge", !.outcome = "evaluated"] = saved
  BY DEF JudgingAt, Instance
<1>5. CASE eval = me.eval /\ eval' = Complete(me.eval)
  <2>1. eval'.last = Judged(me) /\ Judged(me) # None /\ Judged(me).env = me.env /\ Place(me.env) = Settled + 1
    BY <1>2, <1>5, CompletedIsNext
  <2>2. Settled' = Settled + 1 /\ Settled \in Nat
    BY <2>1, StoresFacts DEF Settled
  <2>3. FramesInv'
    BY <1>3, <2>2, FramesStay DEF SettledInv
  <2>4. CASE Set(r, saved)
    <3>1. "acknowledge" \in Judging \ {"evaluate"} /\ "evaluated" \in {"none", "skipped", "evaluated"}
      BY DEF Judging
    <3>2. Settled' \in Nat /\ Settled <= Settled'
      BY <2>2
    <3> QED
      BY <1>1, <1>2, <1>3, <2>4, <3>1, <3>2, JudgingConsumes
  <2>5. CASE Defer(r)
    BY <1>2, <2>3, <2>5, EndedConsumer DEF Ends
  <2> QED
    BY <1>3, <1>4, <2>4, <2>5 DEF SaveEvaluation
<1>6. CASE UNCHANGED eval /\ Defer(r)
  <2>1. FramesInv'
    BY <1>3, <1>6, StoresFacts, FramesStay DEF SettledInv, Settled
  <2> QED
    BY <1>2, <1>6, <2>1, EndedConsumer DEF Ends
<1> QED
  BY <1>1, <1>3, <1>5, <1>6 DEF SaveEvaluation

\* The frame at hand, as numbers.
LEMMA AtHand ==
  ASSUME AgentInv, NEW me \in Instance, Holds(me), me.batch # None, Consumes(me)
  PROVE  /\ me.batch.seq \in Nat /\ me.batch.frame \in Frames /\ me.batch.frame \in Nat
         /\ Belongs(me.batch.seq, me.batch.frame)
         /\ number <= me.batch.seq /\ (number = me.batch.seq => head = me.batch.frame)
BY ConstantsAssumption DEF Instance, Batch, Numbers, Frames, Consumes

\* The stream and its frames, as numbers.
LEMMA FramesAreNumbers ==
  ASSUME AgentInv
  PROVE  /\ \A i \in 1 .. Len(stream) : stream[i].frame \in Nat /\ stream[i].seq + 1 = FirstNumber + i /\ stream[i].seq \in Nat
         /\ \A f \in Frames : f \in Nat
         /\ \A f \in rejected : f \in Frames
         /\ Acked \subseteq Frames
<1>1. ASSUME NEW i \in 1 .. Len(stream)
      PROVE  stream[i].frame \in Nat /\ stream[i].seq + 1 = FirstNumber + i /\ stream[i].seq \in Nat
  <2>1. stream[i] \in Envelope
    BY StoresFacts
  <2>2. stream[i].frame \in Nat /\ stream[i].seq \in Nat
    BY <2>1, ConstantsAssumption DEF Envelope, Frames, Numbers
  <2> QED
    BY <2>2, StoresFacts DEF StreamSound
<1>2. \A f \in Frames : f \in Nat
  BY ConstantsAssumption DEF Frames
<1>3. rejected \subseteq Frames /\ Acked \subseteq Frames
  BY SourceFacts DEF Batch, Acked
<1> QED
  BY <1>1, <1>2, <1>3

LEMMA Counts ==
  ASSUME AgentInv
  PROVE  /\ head \in Nat /\ number \in Nat /\ FirstNumber \in Nat
         /\ Len(stream) \in Nat /\ Completed \in Nat /\ Settled \in Nat
BY SourceFacts, StoresFacts

LEMMA DiscardConsumes ==
  ASSUME OneConsumer, AgentInv, SettledInv, NEW r \in Runtimes, Discard(r)
  PROVE  SettledInv'
<1>1. PICK me \in Instance : me = rt[r]
  BY OneInstance
<1>2. /\ me.pc = "discard" /\ rt[r].pc # "down" /\ me.code \in Codes /\ Holds(me) /\ Consumes(me)
      /\ me.batch # None /\ MayDiscard(me.batch.seq)
  BY <1>1, OneInstance, OneConsumes, InHand DEF Discard, Consumes, Holding, Instance
<1>3. UNCHANGED <<number, acked, site, stream, eval>>
  BY DEF Discard, siteVars, evidenceVars
<1>4. CASE Offers(rt[r].batch.seq) /\ head' = head + 1 /\ rejected' = rejected \cup {head}
  <2>1. /\ number = me.batch.seq /\ head = me.batch.frame /\ head \in Frames /\ head \in Nat /\ number \in Nat
        /\ Belongs(number, head)
    BY <1>1, <1>2, <1>4, AtHand DEF Offers
  <2>2. site.pending = None /\ number + 1 >= FirstNumber + 1 /\ Len(stream) = Completed
    BY <1>2, StoresFacts, SourceFacts, ConstantsAssumption DEF MayDiscard, StreamSound, Numbers
  <2>3. number = FirstNumber + Completed
    <3>1. CASE site.last = None
      <4>1. Completed = 0
        BY <3>1, EnvelopePlaces DEF Completed
      <4> QED
        BY <2>1, <2>2, <4>1, SourceFacts, StoresFacts DEF Belongs
    <3>2. CASE site.last # None
      <4>1. site.last \in Envelope /\ number = site.last.seq + 1
        BY <1>2, <2>1, <3>2, StoresFacts DEF MayDiscard
      <4> QED
        BY <4>1, EnvelopePlaces DEF Completed
    <3> QED
      BY <3>1, <3>2
  <2>4. ASSUME NEW i \in 1 .. Len(stream) PROVE FirstNumber + i <= number /\ stream[i].frame < head
    <3>1. FirstNumber + i <= number
      BY <2>2, <2>3, Counts
    <3> QED
      BY <2>1, <3>1 DEF Belongs
  <2>5. Belongs(number, head)'
    <3>1. number <= FirstNumber + Len(stream)
      BY <2>1 DEF Belongs
    <3>2. \A i \in 1 .. Len(stream) : stream[i].frame < head + 1 /\ ~ (FirstNumber + i = number + 1)
      <4> SUFFICES ASSUME NEW i \in 1 .. Len(stream)
                   PROVE  stream[i].frame < head + 1 /\ ~ (FirstNumber + i = number + 1)
        OBVIOUS
      <4>1. FirstNumber + i <= number /\ stream[i].frame < head /\ stream[i].frame \in Nat
        BY <2>4, FramesAreNumbers
      <4> QED
        BY <4>1, Counts
    <3>3. ASSUME NEW g \in Frames, g < head + 1 PROVE g \in rejected' \cup Acked
      <4>1. g = head \/ g < head
        BY <3>3, FramesAreNumbers, Counts
      <4> QED
        BY <1>4, <2>1, <4>1 DEF Belongs
    <3>4. ASSUME NEW g \in rejected' PROVE g < head + 1
      <4>1. g = head \/ (g < head /\ g \in Nat)
        BY <1>4, <2>1, FramesAreNumbers DEF Belongs
      <4> QED
        BY <4>1, Counts
    <3> QED
      BY <1>3, <1>4, <3>1, <3>2, <3>3, <3>4 DEF Belongs, Acked
  <2>6. rejected' \cap FramesIn(stream) = {}
    BY <1>4, <2>1, <2>4, OneConsumes, FramesAreNumbers DEF FramesInv, FramesIn
  <2>7. FramesInv'
    BY <1>3, <2>2, <2>5, <2>6, OneConsumes DEF FramesInv, FramesIn, Settled
  <2>8. Ends(r)
    BY <1>1, <1>2 DEF Discard, Ends, Codes
  <2> QED
    BY <1>2, <2>7, <2>8, EndedConsumer
<1>5. CASE UNCHANGED <<head, rejected>> /\ Reject(r, "ingestion_failed")
  <2>1. FramesInv'
    BY <1>3, <1>5, StoresFacts, FramesStay DEF SettledInv, Settled
  <2> QED
    BY <1>2, <1>5, <2>1, EndedConsumer DEF Ends, Codes
<1> QED
  BY <1>4, <1>5 DEF Discard

LEMMA AcknowledgeConsumes ==
  ASSUME OneConsumer, AgentInv, SettledInv, NEW r \in Runtimes, Acknowledge(r)
  PROVE  SettledInv'
<1>1. PICK me \in Instance : me = rt[r]
  BY OneInstance
<1>2. /\ me.pc = "acknowledge" /\ me.pc \in Judging /\ rt[r].pc # "down" /\ Holds(me) /\ Consumes(me)
      /\ site.pending = None /\ site.last = me.env
  BY <1>1, OneInstance, OneConsumes DEF Acknowledge, Consumes, Judging
<1>3. UNCHANGED <<rejected, site, stream, eval>>
  BY DEF Acknowledge, siteVars, evidenceVars
<1>4. CASE /\ Offers(rt[r].batch.seq)
           /\ head' = head + 1 /\ number' = number + 1
           /\ acked' = acked \cup {[seq |-> number, frame |-> head]}
  <2>1. me.batch # None /\ me.env \in Envelope /\ me.env.seq = me.batch.seq /\ me.env.frame = me.batch.frame
    BY <1>2, InHand, FreeStages DEF Holds
  <2>2. /\ number = me.batch.seq /\ head = me.batch.frame /\ head \in Frames /\ head \in Nat /\ number \in Nat
        /\ Belongs(number, head)
    BY <1>1, <1>2, <1>4, <2>1, AtHand DEF Offers
  <2> DEFINE p == Place(me.env)
  <2>3. /\ p \in 1 .. Len(stream) /\ stream[p] = me.env /\ p <= Settled /\ p = number + 1 - FirstNumber
    BY <1>2, <2>1, <2>2, RecordFacts, EnvelopePlaces DEF HoldsEvaluation
  <2>4. Len(stream) = p
    BY <1>2, StoresFacts DEF StreamSound, Completed
  <2> HIDE DEF p
  <2>5. \A i \in 1 .. Len(stream) : stream[i].frame < head + 1 /\ ~ (FirstNumber + i = number + 2)
    <3> SUFFICES ASSUME NEW i \in 1 .. Len(stream) PROVE stream[i].frame < head + 1 /\ ~ (FirstNumber + i = number + 2)
      OBVIOUS
    <3>1. CASE i = p
      <4>1. stream[i].frame = head
        BY <2>1, <2>2, <2>3, <3>1
      <4>2. i = number + 1 - FirstNumber
        BY <2>3, <3>1
      <4> QED
        BY <4>1, <4>2, Counts
    <3>2. CASE i # p
      <4>1. FirstNumber + i <= number /\ i \in Nat
        BY <2>3, <2>4, <3>2, Counts
      <4>2. stream[i].frame < head /\ stream[i].frame \in Nat
        BY <2>2, <4>1, FramesAreNumbers DEF Belongs
      <4> QED
        BY <4>1, <4>2, Counts
    <3> QED
      BY <3>1, <3>2
  <2>6. Acked' = Acked \cup {head}
    <3>1. [seq |-> number, frame |-> head].frame = head
      OBVIOUS
    <3> QED
      BY <1>4, <3>1 DEF Acked
  <2>7. Belongs(number, head)'
    <3>1. number + 1 <= FirstNumber + Len(stream)
      BY <2>3, <2>4, Counts
    <3>2. ASSUME NEW g \in Frames, g < head + 1 PROVE g \in rejected \cup Acked'
      <4>1. g = head \/ g < head
        BY <3>2, FramesAreNumbers, Counts
      <4> QED
        BY <2>2, <2>6, <4>1 DEF Belongs
    <3>3. ASSUME NEW g \in rejected PROVE g < head + 1
      <4>1. g < head /\ g \in Nat
        BY <2>2, FramesAreNumbers DEF Belongs
      <4> QED
        BY <4>1, Counts
    <3>4. number + 1 + 1 = number + 2
      BY <2>2
    <3> QED
      BY <1>3, <1>4, <2>5, <3>1, <3>2, <3>3, <3>4 DEF Belongs
  <2>8. \A a \in acked' : \E i \in 1 .. Len(stream) : stream[i].frame = a.frame /\ stream[i].seq = a.seq /\ i <= Settled
    BY <1>4, <2>1, <2>2, <2>3, OneConsumes DEF FramesInv
  <2>9. FramesInv'
    BY <1>2, <1>3, <2>7, <2>8, OneConsumes DEF FramesInv, FramesIn, Settled
  <2>10. Ends(r)
    BY DEF Acknowledge, Ends
  <2> QED
    BY <1>2, <2>9, <2>10, EndedConsumer
<1>5. CASE UNCHANGED <<head, number, acked>> /\ Defer(r)
  <2>1. FramesInv'
    BY <1>3, <1>5, StoresFacts, FramesStay DEF SettledInv, Settled
  <2> QED
    BY <1>2, <1>5, <2>1, EndedConsumer DEF Ends
<1> QED
  BY <1>4, <1>5 DEF Acknowledge

LEMMA LoseAckConsumes ==
  ASSUME AgentInv, SettledInv, LoseAck
  PROVE  SettledInv'
<1>1. PICK a \in acked : a.frame = head - 1 /\ a.seq = number - 1 /\ head' = a.frame /\ number' = a.seq
  BY DEF LoseAck
<1>2. UNCHANGED <<acked, rejected, site, stream, eval, journal, rt>>
  BY DEF LoseAck, siteVars, evidenceVars
<1>3. PICK j \in 1 .. Len(stream) : stream[j].frame = a.frame /\ stream[j].seq = a.seq
  BY DEF SettledInv, FramesInv
<1>4. /\ j \in Nat /\ FirstNumber + j = number /\ head \in Nat /\ number \in Nat /\ a.seq \in Nat /\ a.frame \in Frames
      /\ stream[j].frame = head - 1
  <2>1. j \in Nat /\ stream[j].seq + 1 = FirstNumber + j /\ stream[j].seq \in Nat
    BY <1>3, FramesAreNumbers, Counts
  <2>2. a.frame \in Frames
    BY SourceFacts DEF Batch
  <2> QED
    BY <1>1, <1>3, <2>1, <2>2, Counts
<1>5. ASSUME NEW n \in Nat, NEW f, Belongs(n, f), a.seq = n PROVE a.frame = f
  <2>1. FirstNumber + j = n + 1
    BY <1>1, <1>4, <1>5
  <2> QED
    BY <1>3, <1>5, <2>1 DEF Belongs
<1>6. Belongs(a.seq, a.frame)
  <2>1. Belongs(number, head)
    BY DEF SettledInv, FramesInv
  <2>2. a.seq <= FirstNumber + Len(stream)
    BY <1>1, <1>4, <2>1, SourceFacts, StoresFacts DEF Belongs
  <2>3. ASSUME NEW i \in 1 .. Len(stream)
        PROVE  /\ FirstNumber + i <= a.seq => stream[i].frame < a.frame
               /\ FirstNumber + i = a.seq + 1 => stream[i].frame = a.frame
    <3>1. FirstNumber + i <= a.seq => i < j
      BY <1>1, <1>4, SourceFacts
    <3>2. i < j => stream[i].frame < stream[j].frame
      BY DEF SettledInv, FramesInv
    <3>3. FirstNumber + i = a.seq + 1 => i = j
      BY <1>1, <1>4, SourceFacts
    <3> QED
      BY <1>3, <3>1, <3>2, <3>3
  <2>4. \A g \in Frames : g < a.frame => g \in rejected \cup Acked
    BY <1>1, <1>4, <2>1, FramesAreNumbers DEF Belongs
  <2>5. ASSUME NEW g \in rejected PROVE g < a.frame
    <3>1. g < head /\ g \in Nat
      BY <2>1, FramesAreNumbers DEF Belongs
    <3>2. g # stream[j].frame
      BY DEF SettledInv, FramesInv, FramesIn
    <3> QED
      BY <1>1, <1>4, <3>1, <3>2
  <2> QED
    BY <2>2, <2>3, <2>4, <2>5 DEF Belongs
<1>7. FramesInv'
  <2>1. site.pending # None => site.pending.seq \in Nat
    BY StoresFacts, EnvelopePlaces
  <2>2. Belongs(a.seq, a.frame)' /\ (site.pending # None => Belongs(site.pending.seq, site.pending.frame)')
    BY <1>2, <1>6, BelongsStays DEF SettledInv, FramesInv
  <2>3. site.pending # None /\ a.seq = site.pending.seq => a.frame = site.pending.frame
    BY <1>5, <2>1 DEF SettledInv, FramesInv
  <2> QED
    BY <1>1, <1>2, <2>2, <2>3 DEF SettledInv, FramesInv, FramesIn, Settled
<1>8. ASSUME NEW s \in Runtimes PROVE Consumes(rt[s])'
  <2>1. PICK me \in Instance : me = rt[s]
    BY OneInstance
  <2>2. Consumes(me) /\ Holds(me)
    BY <2>1, OneConsumes, OneInstance
  <2>3. me.batch # None => (/\ Belongs(me.batch.seq, me.batch.frame)
                            /\ number <= me.batch.seq /\ (number = me.batch.seq => head = me.batch.frame))'
    <3> SUFFICES ASSUME me.batch # None
                 PROVE  (/\ Belongs(me.batch.seq, me.batch.frame)
                         /\ number <= me.batch.seq /\ (number = me.batch.seq => head = me.batch.frame))'
      OBVIOUS
    <3>1. me.batch.seq \in Nat /\ Belongs(me.batch.seq, me.batch.frame) /\ number <= me.batch.seq
      BY <2>2, AtHand
    <3>2. Belongs(me.batch.seq, me.batch.frame)'
      BY <1>2, <3>1, BelongsStays
    <3>3. a.seq <= me.batch.seq /\ (a.seq = me.batch.seq => a.frame = me.batch.frame)
      BY <1>1, <1>4, <1>5, <3>1
    <3> QED
      BY <1>1, <3>2, <3>3
  <2>4. Consumes(me)'
    BY <1>2, <2>2, <2>3 DEF Consumes, MayDiscard
  <2> QED
    BY <1>2, <2>1, <2>4
<1> QED
  BY <1>7, <1>8 DEF SettledInv, ConsumerInv

LEMMA PreparePublicationConsumes ==
  ASSUME OneConsumer, AgentInv, SettledInv, NEW r \in Runtimes, PreparePublication(r)
  PROVE  SettledInv'
<1>1. PICK me \in Instance : me = rt[r]
  BY OneInstance
<1>2. /\ me.pc = "prepare" /\ me.pc \in Assembling /\ rt[r].pc # "down"
      /\ Holds(me) /\ HoldsBatch(me) /\ Consumes(me) /\ site = me.site
  BY <1>1, OneInstance, OneConsumes DEF PreparePublication, Assembling, Consumes
<1> DEFINE prepared == Prepare(me.site, me.env)
           saved == PublishingAt(me, "publish", prepared)
<1>3. UNCHANGED <<head, number, acked, rejected, stream, evidenceVars>> /\ SaveSite(r, prepared, saved)
  BY <1>1 DEF PreparePublication, PublishingAt, sourceVars
<1>4. CASE site' = prepared
  <2>1. prepared \in Publications /\ site'.pending = me.env
    BY <1>2, <1>4, PreparedIsNext
  <2>2. /\ me.batch # None /\ me.env.seq = me.batch.seq /\ me.env.frame = me.batch.frame
        /\ Belongs(me.batch.seq, me.batch.frame)
        /\ number <= me.batch.seq /\ (number = me.batch.seq => head = me.batch.frame)
    <3>1. me.batch # None /\ me.env.seq = me.batch.seq /\ me.env.frame = me.batch.frame
      BY <1>2, InHand, FreeStages
    <3> QED
      BY <1>2, <3>1 DEF Consumes
  <2>3. FramesInv'
    <3>1. \A n, f : Belongs(n, f)' <=> Belongs(n, f)
      BY <1>3, BelongsStays
    <3>2. Belongs(number, head)' /\ Belongs(me.env.seq, me.env.frame)'
      BY <1>3, <2>2, <3>1, OneConsumes DEF FramesInv
    <3> QED
      BY <1>3, <2>1, <2>2, <3>2, OneConsumes DEF FramesInv, FramesIn, Settled, evidenceVars
  <2>4. CASE Set(r, saved)
    <3>1. "publish" \in Publishing \cup {"evaluate"}
      BY DEF Publishing
    <3>2. saved.pc = "publish" /\ saved.site = prepared /\ saved.batch = me.batch
      BY <1>2, <2>1, <3>1, PublishingFacts
    <3> HIDE DEF saved, prepared
    <3>3. Consumes(saved)'
      BY <1>2, <1>3, <1>4, <3>2, KeepsFrame DEF Consumes, Judging, Recording
    <3> QED
      BY <2>3, <2>4, <3>3, ConsumerStep
  <2>5. CASE Reject(r, "checkpoint_failed")
    BY <1>2, <2>3, <2>5, EndedConsumer DEF Ends, Codes
  <2> QED
    BY <1>3, <1>4, <2>4, <2>5, <1>1, <1>2 DEF SaveSite
<1>5. CASE UNCHANGED site /\ Reject(r, "checkpoint_failed")
  <2>1. FramesInv'
    BY <1>3, <1>5, StoresFacts, FramesStay DEF SettledInv, Settled, evidenceVars
  <2> QED
    BY <1>2, <1>5, <2>1, EndedConsumer DEF Ends, Codes
<1> QED
  BY <1>1, <1>3, <1>4, <1>5 DEF SaveSite

LEMMA CompletePublicationConsumes ==
  ASSUME OneConsumer, AgentInv, SettledInv, NEW r \in Runtimes, CompletePublication(r)
  PROVE  SettledInv'
<1>1. PICK me \in Instance : me = rt[r]
  BY OneInstance
<1>2. /\ me.pc = "complete" /\ me.pc \in Assembling /\ rt[r].pc # "down"
      /\ Holds(me) /\ HoldsBatch(me) /\ Consumes(me) /\ site = me.site
  BY <1>1, OneInstance, OneConsumes DEF CompletePublication, Assembling, Publishing, Consumes
<1> DEFINE completed == Complete(me.site)
           saved == PublishingAt(me, "evaluate", NoCheckpoint)
<1>3. UNCHANGED <<head, number, acked, rejected, stream, evidenceVars>> /\ SaveSite(r, completed, saved)
  BY <1>1 DEF CompletePublication, PublishingAt, sourceVars
<1>4. CASE site' = completed
  <2>1. site'.pending = None /\ site'.last = me.env
    BY <1>2, <1>4, AssemblingFacts DEF Complete, HoldsPublication, Publishing
  <2>2. FramesInv'
    <3>1. Belongs(number, head)'
      BY <1>3, BelongsStays, OneConsumes DEF FramesInv
    <3> QED
      BY <1>3, <2>1, <3>1, OneConsumes DEF FramesInv, FramesIn, Settled, evidenceVars
  <2>3. CASE Set(r, saved)
    <3>1. "evaluate" \in Publishing \cup {"evaluate"}
      OBVIOUS
    <3>2. saved.pc = "evaluate" /\ saved.env = me.env /\ saved.batch = me.batch
      BY <1>2, <3>1, NoCheckpointTypes, PublishingFacts
    <3> HIDE DEF saved, completed
    <3>3. Consumes(saved)'
      BY <1>2, <1>3, <2>1, <3>2, KeepsFrame DEF Consumes, Assembling, Publishing, Recording
    <3> QED
      BY <2>2, <2>3, <3>3, ConsumerStep
  <2>4. CASE Reject(r, "checkpoint_failed")
    BY <1>2, <2>2, <2>4, EndedConsumer DEF Ends, Codes
  <2> QED
    BY <1>1, <1>2, <1>3, <1>4, <2>3, <2>4 DEF SaveSite
<1>5. CASE UNCHANGED site /\ Reject(r, "checkpoint_failed")
  <2>1. FramesInv'
    BY <1>3, <1>5, StoresFacts, FramesStay DEF SettledInv, Settled, evidenceVars
  <2> QED
    BY <1>2, <1>5, <2>1, EndedConsumer DEF Ends, Codes
<1> QED
  BY <1>1, <1>3, <1>4, <1>5 DEF SaveSite

\* A frame that is appended comes after all that are published.
LEMMA AppendedFrame ==
  ASSUME AgentInv, SettledInv, NEW me \in Instance, Holds(me), Consumes(me), me.pc = "publish",
         ~Contains(stream, me.env), UNCHANGED <<head, number, acked, rejected, site, eval>>,
         stream' = Append(stream, me.env)
  PROVE  /\ Len(stream') = Len(stream) + 1 /\ stream'[Len(stream) + 1] = me.env
         /\ \A i \in 1 .. Len(stream) : stream'[i] = stream[i] /\ stream[i].frame < me.env.frame
         /\ me.env.seq = FirstNumber + Len(stream) /\ me.env.frame \in Frames /\ site.pending = me.env
         /\ Belongs(me.env.seq, me.env.frame) /\ me.batch.seq = me.env.seq /\ me.batch.frame = me.env.frame
         /\ FramesInv' /\ Belongs(me.env.seq, me.env.frame)'
<1> DEFINE n == me.env.seq
           f == me.env.frame
           p == Len(stream) + 1
<1>1. /\ me.batch # None /\ me.env.seq = me.batch.seq /\ me.env.frame = me.batch.frame /\ me.env \in Envelope
      /\ n \in Nat /\ f \in Frames /\ f \in Nat
      /\ Belongs(n, f) /\ number <= n /\ (number = n => head = f)
  <2>1. me.batch # None /\ me.env.seq = me.batch.seq /\ me.env.frame = me.batch.frame /\ me.env \in Envelope
    BY InHand, FreeStages DEF Holds, Assembling, Publishing
  <2> QED
    BY <2>1, AtHand
<1>2. site.pending = me.env /\ n = FirstNumber + Len(stream)
  <2>1. site.pending = me.env /\ Place(me.env) = Len(stream) + 1
    BY PublishedIsNext
  <2>2. Place(me.env) = n + 1 - FirstNumber
    BY <1>1, EnvelopePlaces
  <2> QED
    BY <1>1, <2>1, <2>2, Counts
<1>3. /\ Len(stream') = p /\ stream'[p] = me.env /\ p \in Nat
      /\ \A i \in 1 .. Len(stream) : stream'[i] = stream[i]
  BY <1>1, StoresFacts
<1>4. ASSUME NEW i \in 1 .. Len(stream) PROVE stream[i].frame < f
  <2>1. FirstNumber + i <= n
    BY <1>2, Counts
  <2> QED
    BY <1>1, <2>1 DEF Belongs
<1> HIDE DEF n, f, p
<1>5. ASSUME NEW k \in Nat, NEW g, Belongs(k, g), k <= n, k = n => g = f
      PROVE  Belongs(k, g)'
  <2>1. k <= FirstNumber + Len(stream')
    BY <1>2, <1>3, <1>5, Counts DEF p
  <2>2. ASSUME NEW i \in 1 .. Len(stream')
        PROVE  /\ FirstNumber + i <= k => stream'[i].frame < g
               /\ FirstNumber + i = k + 1 => stream'[i].frame = g
    <3>1. CASE i \in 1 .. Len(stream)
      BY <1>3, <1>5, <3>1 DEF Belongs
    <3>2. CASE i = p
      <4>1. ~ (FirstNumber + i <= k) /\ (FirstNumber + i = k + 1 => k = n)
        BY <1>2, <1>5, <3>2, Counts DEF p
      <4> QED
        BY <1>3, <1>5, <3>2, <4>1 DEF f
    <3> QED
      BY <1>3, <3>1, <3>2, Counts DEF p
  <2> QED
    BY <1>5, <2>1, <2>2 DEF Belongs, Acked
<1>6. Belongs(number, head)' /\ Belongs(n, f)'
  <2>1. Belongs(number, head)
    BY DEF SettledInv, FramesInv
  <2> QED
    BY <1>1, <1>5, <2>1, Counts
<1>7. \A i, j \in 1 .. Len(stream') : i < j => stream'[i].frame < stream'[j].frame
  <2> SUFFICES ASSUME NEW i \in 1 .. Len(stream'), NEW j \in 1 .. Len(stream'), i < j
               PROVE  stream'[i].frame < stream'[j].frame
    OBVIOUS
  <2>1. i \in 1 .. Len(stream)
    BY <1>3, Counts DEF p
  <2>2. CASE j = p
    BY <1>3, <1>4, <2>1, <2>2 DEF f
  <2>3. CASE j # p
    <3>1. j \in 1 .. Len(stream)
      BY <1>3, <2>3, Counts DEF p
    <3>2. stream[i].frame < stream[j].frame
      BY <2>1, <3>1 DEF SettledInv, FramesInv
    <3> QED
      BY <1>3, <2>1, <3>1, <3>2
  <2> QED
    BY <2>2, <2>3
<1>8. rejected \cap FramesIn(stream') = {}
  <2> SUFFICES ASSUME NEW i \in 1 .. Len(stream') PROVE stream'[i].frame \notin rejected
    BY DEF FramesIn
  <2>1. CASE i = p
    <3>1. ~ (f < f)
      BY <1>1
    <3> QED
      BY <1>1, <1>3, <2>1, <3>1 DEF Belongs, f
  <2>2. CASE i # p
    <3>1. i \in 1 .. Len(stream)
      BY <1>3, <2>2, Counts DEF p
    <3> QED
      BY <1>3, <3>1 DEF SettledInv, FramesInv, FramesIn
  <2> QED
    BY <2>1, <2>2
<1>9. \A a \in acked : \E i \in 1 .. Len(stream') :
        stream'[i].frame = a.frame /\ stream'[i].seq = a.seq /\ i <= Settled
  <2> SUFFICES ASSUME NEW a \in acked
               PROVE  \E i \in 1 .. Len(stream') : stream'[i].frame = a.frame /\ stream'[i].seq = a.seq /\ i <= Settled
    OBVIOUS
  <2>1. PICK i \in 1 .. Len(stream) : stream[i].frame = a.frame /\ stream[i].seq = a.seq /\ i <= Settled
    BY DEF SettledInv, FramesInv
  <2>2. i \in 1 .. Len(stream')
    BY <1>3, Counts DEF p
  <2> QED
    BY <1>3, <2>1, <2>2
<1>10. FramesInv'
  BY <1>1, <1>2, <1>6, <1>7, <1>8, <1>9 DEF FramesInv, Settled, n, f
<1> QED
  BY <1>1, <1>2, <1>3, <1>4, <1>6, <1>10 DEF n, f, p

LEMMA PublishConsumes ==
  ASSUME OneConsumer, AgentInv, SettledInv, NEW r \in Runtimes, Publish(r)
  PROVE  SettledInv'
<1>1. PICK me \in Instance : me = rt[r]
  BY OneInstance
<1>2. /\ me.pc = "publish" /\ me.pc \in Assembling /\ rt[r].pc # "down"
      /\ Holds(me) /\ HoldsBatch(me) /\ Consumes(me) /\ site = me.site /\ me.site \in Publications
  BY <1>1, OneInstance, OneConsumes DEF Publish, Assembling, Publishing, Consumes, Instance
<1>3. UNCHANGED <<head, number, acked, rejected, site, eval, journal>>
  BY DEF Publish, sourceVars, evidenceVars
<1>4. me.batch # None
  BY <1>2, InHand, FreeStages
<1>5. CASE stream' = IF Contains(stream, me.env) THEN stream ELSE Append(stream, me.env)
  <2>1. FramesInv' /\ Belongs(me.batch.seq, me.batch.frame)'
    <3>1. CASE Contains(stream, me.env)
      <4>1. FramesInv'
        BY <1>3, <1>5, <3>1, StoresFacts, FramesStay DEF SettledInv, Settled
      <4> QED
        BY <1>2, <1>3, <1>4, <1>5, <3>1, <4>1, BelongsStays DEF Consumes
    <3>2. CASE ~Contains(stream, me.env)
      BY <1>2, <1>3, <1>5, <3>2, AppendedFrame
    <3> QED
      BY <3>1, <3>2
  <2>2. CASE Go(r, "complete")
    <3>1. PICK new : new = PublishingAt(me, "complete", me.site)
      OBVIOUS
    <3>2. new.pc = "complete" /\ new.site = me.site /\ new.batch = me.batch
      BY <1>2, <3>1, PublishingFacts DEF Publishing
    <3>3. Consumes(new)'
      BY <1>2, <1>3, <2>1, <3>2 DEF Consumes, Judging, Recording
    <3>4. [me EXCEPT !.pc = "complete"] = new
      BY <3>1 DEF PublishingAt, Instance
    <3> QED
      BY <1>1, <2>1, <2>2, <3>3, <3>4, ConsumerStep DEF Go
  <2>3. CASE Reject(r, "publish_failed")
    BY <1>2, <2>1, <2>3, EndedConsumer DEF Ends, Codes
  <2> QED
    BY <2>2, <2>3 DEF Publish
<1>6. CASE UNCHANGED stream /\ Reject(r, "publish_failed")
  <2>1. FramesInv'
    BY <1>3, <1>6, StoresFacts, FramesStay DEF SettledInv, Settled
  <2> QED
    BY <1>2, <1>6, <2>1, EndedConsumer DEF Ends, Codes
<1> QED
  BY <1>1, <1>5, <1>6 DEF Publish

LEMMA UnmovedConsumes ==
  ASSUME AgentInv, SettledInv, UNCHANGED vars
  PROVE  SettledInv'
<1>1. Quiet /\ rt' = rt
  BY DEF vars, Quiet
<1>2. FramesInv'
  BY <1>1, QuietFrames DEF Quiet
<1>3. ASSUME NEW s \in Runtimes PROVE Consumes(rt[s])'
  <2>1. PICK me : me = rt[s]
    OBVIOUS
  <2>2. Consumes(me)'
    BY <1>1, <2>1, OneConsumes, KeepsFrame, QuietIsUnchanged DEF Consumes, MayDiscard
  <2> QED
    BY <1>1, <2>1, <2>2
<1> QED
  BY <1>2, <1>3 DEF SettledInv, ConsumerInv

LEMMA SettledInvInit == Init => SettledInv
<1> SUFFICES ASSUME Init PROVE SettledInv
  OBVIOUS
<1>1. FramesInv
  BY ConstantsAssumption DEF Init, FramesInv, Belongs, NoCheckpoint, Frames, FramesIn
<1>2. ConsumerInv
  BY DEF Init, ConsumerInv, Consumes, Asleep, Assembling, Publishing, Judging, Recording
<1> QED
  BY <1>1, <1>2 DEF SettledInv

LEMMA SettledInvStep ==
  ASSUME OneConsumer, AgentInv, SettledInv, [Next]_vars
  PROVE  SettledInv'
<1>1. CASE LoseAck
  BY <1>1, LoseAckConsumes
<1>2. ASSUME NEW r \in Runtimes, Work(r) PROVE SettledInv'
  <2>1. CASE Start(r) \/ Run(r) \/ Exit(r) \/ BeginCycle(r) \/ Recover(r)
    BY <2>1, QuietSteps, RecoverConsumes
  <2>2. CASE Pipeline(r)
    BY <2>2, QuietSteps, ObserveConsumes, AdmitConsumes, ConsiderDiscardingConsumes, DiscardConsumes,
       PreparePublicationConsumes, PublishConsumes, CompletePublicationConsumes DEF Pipeline
  <2>3. CASE Evaluating(r)
    BY <2>3, EvaluateConsumes, PrepareEvaluationConsumes, RecordingConsumes, CompleteEvaluationConsumes,
       AcknowledgeConsumes DEF Evaluating
  <2> QED
    BY <1>2, <2>1, <2>2, <2>3 DEF Work
<1>3. ASSUME NEW r \in Runtimes, Trouble(r) PROVE SettledInv'
  BY <1>3, QuietSteps, RequestStopConsumes DEF Trouble
<1>4. CASE UNCHANGED vars
  BY <1>4, UnmovedConsumes
<1> QED
  BY <1>1, <1>2, <1>3, <1>4 DEF Next

\* A source with one consumer: what it holds in memory is what the stores hold, every number
\* belongs to one frame, and the frames before it are settled, whatever crashes, is retried or
\* is forgotten.
THEOREM SettledInvariant ==
  ASSUME OneConsumer
  PROVE  Spec => []SettledInv
<1>1. Init => SettledInv
  BY SettledInvInit
<1>2. AgentInv /\ SettledInv /\ [Next]_vars => SettledInv'
  BY SettledInvStep
<1> QED
  BY <1>1, <1>2, AgentInvariant, PTL DEF Spec

-----------------------------------------------------------------------------
(* No frame is lost.                                                       *)

LEMMA NoneLost == AgentInv /\ SettledInv => NoFrameIsLost
<1> SUFFICES ASSUME AgentInv, SettledInv, NEW f \in 1 .. head - 1, f \notin rejected
             PROVE  \E a \in acked, i \in 1 .. Len(journal) :
                      a.frame = f /\ journal[i].env.frame = f /\ journal[i].env.seq = a.seq
  BY DEF NoFrameIsLost
<1>1. head \in 1 .. NumFrames + 1 /\ f \in Frames /\ f < head
  BY StoresFacts, ConstantsAssumption DEF StoresType, Frames
<1>2. PICK a \in acked : a.frame = f
  BY <1>1 DEF SettledInv, FramesInv, Belongs, Acked
<1>3. PICK i \in 1 .. Len(stream) : stream[i].frame = a.frame /\ stream[i].seq = a.seq /\ i <= Settled
  BY DEF SettledInv, FramesInv
<1>4. Settled <= Len(journal)
  BY StoresFacts DEF JournalSound
<1>5. i \in 1 .. Len(journal) /\ journal[i].env = stream[i]
  BY <1>3, <1>4, StoresFacts DEF JournalSound
<1> QED
  BY <1>2, <1>3, <1>5

\* A frame the source forgets is in the journal under the number it was acknowledged with, or
\* was discarded; and what is judged, issued and published tells one story.
THEOREM NothingLost ==
  ASSUME OneConsumer
  PROVE  Spec => []EvidenceIsKept
<1>1. AgentInv /\ SettledInv => EvidenceIsKept
  BY NoneLost, AgreesByInvariant DEF AgentInv, StoresInv, EvidenceIsKept
<1> QED
  BY <1>1, AgentInvariant, SettledInvariant, PTL

-----------------------------------------------------------------------------
(* The promise of FrameSettlement, step by step.                           *)

Published == [i \in DOMAIN stream |-> [seq |-> stream[i].seq, frame |-> stream[i].frame]]
Evaluated == [i \in DOMAIN journal |-> [seq |-> journal[i].env.seq, frame |-> journal[i].env.frame]]

LEMMA FunctionIsSequence ==
  ASSUME NEW S, NEW n \in Nat, NEW f \in [1 .. n -> S]
  PROVE  f \in Seq(S) /\ Len(f) = n
OBVIOUS

LEMMA EnvelopeFields ==
  /\ \A e \in Envelope : e.seq \in Numbers /\ e.frame \in Frames
  /\ \A e \in Evaluation : e.env \in Envelope /\ e.env.seq \in Numbers /\ e.env.frame \in Frames
BY DEF Envelope, Evaluation

LEMMA MappedFacts ==
  ASSUME AgentInv
  PROVE  /\ Published \in Seq([seq : Numbers, frame : Frames]) /\ Len(Published) = Len(stream)
         /\ \A i \in 1 .. Len(stream) : Published[i] = [seq |-> stream[i].seq, frame |-> stream[i].frame]
         /\ Evaluated \in Seq([seq : Numbers, frame : Frames]) /\ Len(Evaluated) = Len(journal)
         /\ \A i \in 1 .. Len(journal) : Evaluated[i] = [seq |-> journal[i].env.seq, frame |-> journal[i].env.frame]
<1>1. DOMAIN stream = 1 .. Len(stream) /\ DOMAIN journal = 1 .. Len(journal)
  BY StoresFacts
<1>2. \A i \in 1 .. Len(stream) : stream[i].seq \in Numbers /\ stream[i].frame \in Frames
  BY StoresFacts, EnvelopeFields
<1>3. \A i \in 1 .. Len(journal) : journal[i].env.seq \in Numbers /\ journal[i].env.frame \in Frames
  BY StoresFacts, EnvelopeFields
<1>4. Published \in [1 .. Len(stream) -> [seq : Numbers, frame : Frames]]
  BY <1>1, <1>2 DEF Published
<1>5. Evaluated \in [1 .. Len(journal) -> [seq : Numbers, frame : Frames]]
  BY <1>1, <1>3 DEF Evaluated
<1>6. Len(stream) \in Nat /\ Len(journal) \in Nat
  BY StoresFacts
<1>7. Published \in Seq([seq : Numbers, frame : Frames]) /\ Len(Published) = Len(stream)
  BY <1>4, <1>6, FunctionIsSequence
<1>8. Evaluated \in Seq([seq : Numbers, frame : Frames]) /\ Len(Evaluated) = Len(journal)
  BY <1>5, <1>6, FunctionIsSequence
<1> QED
  BY <1>1, <1>7, <1>8 DEF Published, Evaluated

\* Two sequences with the same elements are the same; so an append here is an append there.
LEMMA AppendedThere ==
  ASSUME NEW S, NEW s \in Seq(S), NEW e \in S, NEW t \in Seq(S),
         Len(t) = Len(s) + 1, t[Len(s) + 1] = e, \A i \in 1 .. Len(s) : t[i] = s[i]
  PROVE  t = Append(s, e)
<1>1. Append(s, e) \in Seq(S) /\ Len(Append(s, e)) = Len(s) + 1 /\ Len(s) \in Nat
  OBVIOUS
<1>2. ASSUME NEW i \in 1 .. Len(t) PROVE t[i] = Append(s, e)[i]
  BY <1>1
<1> QED
  BY <1>1, <1>2, SeqEqual

LEMMA PublishPromised ==
  ASSUME AgentInv, AgentInv', FramesInv, NEW e, e.frame \in Frames, e.seq = FirstNumber + Len(stream),
         Len(journal) = Len(stream), Len(stream') = Len(stream) + 1, stream'[Len(stream) + 1] = e,
         \A i \in 1 .. Len(stream) : stream'[i] = stream[i] /\ stream[i].frame < e.frame,
         Belongs(e.seq, e.frame), UNCHANGED <<journal, acked, rejected>>
  PROVE  Promise!Publish(e.frame)
<1>1. Published' = Append(Published, [seq |-> FirstNumber + Len(Published), frame |-> e.frame])
  <2> DEFINE S == [seq : Numbers, frame : Frames]
             x == [seq |-> FirstNumber + Len(Published), frame |-> e.frame]
  <2>1. Published \in Seq(S) /\ Len(Published) = Len(stream)
    BY MappedFacts
  <2>2. Published' \in Seq(S) /\ Len(Published') = Len(stream')
        /\ \A i \in 1 .. Len(stream') : Published'[i] = [seq |-> stream'[i].seq, frame |-> stream'[i].frame]
    <3>1. DOMAIN stream' = 1 .. Len(stream') /\ Len(stream') \in Nat /\ stream' \in Seq(Envelope)
      BY DEF AgentInv, TypeOK
    <3>2. \A i \in 1 .. Len(stream') : stream'[i].seq \in Numbers /\ stream'[i].frame \in Frames
      BY <3>1, EnvelopeFields
    <3>3. Published' \in [1 .. Len(stream') -> S]
      BY <3>1, <3>2 DEF Published
    <3> QED
      BY <3>1, <3>3 DEF Published
  <2>3. Published'[Len(Published) + 1] = x /\ x \in S
    <3>1. Len(stream) + 1 \in 1 .. Len(stream') /\ Len(stream) \in Nat
      BY Counts
    <3>2. Published'[Len(stream) + 1] = x
      BY <2>1, <2>2, <3>1
    <3>3. Published'[Len(stream) + 1] \in S
      BY <2>2, <3>1
    <3> QED
      BY <2>1, <3>2, <3>3
  <2>4. \A i \in 1 .. Len(Published) : Published'[i] = Published[i]
    BY <2>1, <2>2, MappedFacts, Counts
  <2> HIDE DEF S, x
  <2>5. Published' = Append(Published, x)
    BY <2>1, <2>2, <2>3, <2>4, AppendedThere
  <2> QED
    BY <2>5 DEF x
<1>2. Len(Evaluated) = Len(Published) /\ Evaluated' = Evaluated
  BY MappedFacts DEF Evaluated
<1>3. e.frame \notin Acked
  <2> SUFFICES ASSUME NEW a \in acked, a.frame = e.frame PROVE FALSE
    BY DEF Acked
  <2>1. PICK i \in 1 .. Len(stream) : stream[i].frame = a.frame
    BY DEF FramesInv
  <2>2. stream[i].frame < e.frame /\ stream[i].frame \in Nat
    BY FramesAreNumbers
  <2> QED
    BY <2>1, <2>2
<1>4. e.frame \notin rejected
  <2>1. e.frame \in Nat /\ (e.frame \in rejected => e.frame < e.frame)
    BY FramesAreNumbers DEF Belongs
  <2> QED
    BY <2>1
<1>5. \A g \in Frames : g < e.frame => g \in Acked \cup rejected
  BY DEF Belongs
<1> QED
  BY <1>1, <1>2, <1>3, <1>4, <1>5 DEF Promise!Publish, Promise!Earlier, Published, Evaluated, Acked

LEMMA EvaluatePromised ==
  ASSUME AgentInv, AgentInv', NEW record \in Evaluation, journal' = Append(journal, record),
         UNCHANGED <<stream, acked, rejected>>
  PROVE  Promise!Evaluate
<1> DEFINE S == [seq : Numbers, frame : Frames]
           p == Len(journal) + 1
<1>1. journal' \in Seq(Evaluation) /\ Len(journal') = p /\ p \in Nat /\ \A i \in 1 .. Len(journal) : journal'[i] = journal[i]
  BY StoresFacts
<1>2. p \in 1 .. Len(stream) /\ journal'[p].env = stream[p]
  <2>1. Len(journal') <= Len(stream') /\ \A i \in 1 .. Len(journal') : journal'[i].env = stream'[i]
    BY DEF AgentInv, StoresInv, JournalSound
  <2> QED
    BY <1>1, <2>1, StoresFacts
<1>3. Evaluated \in Seq(S) /\ Len(Evaluated) = Len(journal) /\ Len(journal) \in Nat
  BY MappedFacts, StoresFacts
<1>4. Evaluated' \in Seq(S) /\ Len(Evaluated') = p
      /\ \A i \in 1 .. p : Evaluated'[i] = [seq |-> journal'[i].env.seq, frame |-> journal'[i].env.frame]
  <2>1. DOMAIN journal' = 1 .. p
    BY <1>1
  <2>2. \A i \in 1 .. p : journal'[i].env.seq \in Numbers /\ journal'[i].env.frame \in Frames
    BY <1>1, EnvelopeFields
  <2>3. Evaluated' \in [1 .. p -> S]
    BY <2>1, <2>2 DEF Evaluated
  <2> QED
    BY <1>1, <2>1, <2>3 DEF Evaluated
<1>5. Evaluated'[p] = Published[p] /\ Published[p] \in S
  BY <1>2, <1>4, MappedFacts
<1>6. ASSUME NEW i \in 1 .. Len(Evaluated) PROVE Evaluated'[i] = Evaluated[i]
  <2>1. i \in 1 .. Len(journal) /\ i \in 1 .. p /\ journal'[i] = journal[i]
    BY <1>1, <1>3
  <2>2. Evaluated[i] = [seq |-> journal[i].env.seq, frame |-> journal[i].env.frame]
    BY <2>1, MappedFacts
  <2>3. Evaluated'[i] = [seq |-> journal'[i].env.seq, frame |-> journal'[i].env.frame]
    BY <1>4, <2>1
  <2> QED
    BY <2>1, <2>2, <2>3
<1> HIDE DEF S
<1>7. Evaluated' = Append(Evaluated, Published[p])
  BY <1>3, <1>4, <1>5, <1>6, AppendedThere
<1>8. Len(Evaluated) < Len(Published) /\ Published' = Published
  BY <1>1, <1>2, <1>3, MappedFacts DEF Published
<1> QED
  BY <1>3, <1>7, <1>8 DEF Promise!Evaluate, Published, Evaluated

LEMMA AcknowledgePromised ==
  ASSUME AgentInv, NEW f, \E i \in 1 .. Len(journal) : journal[i].env.frame = f,
         acked' = acked \cup {[seq |-> number, frame |-> f]}, UNCHANGED <<stream, journal, rejected>>
  PROVE  Promise!Acknowledge(f)
<1>1. PICK i \in 1 .. Len(journal) : journal[i].env.frame = f
  OBVIOUS
<1>2. i \in 1 .. Len(Evaluated) /\ Evaluated[i].frame = f
  <2>1. Evaluated[i] = [seq |-> journal[i].env.seq, frame |-> journal[i].env.frame]
    BY MappedFacts
  <2>2. Len(Evaluated) = Len(journal)
    BY MappedFacts
  <2> QED
    BY <1>1, <2>1, <2>2
<1>3. Acked' = Acked \cup {f}
  <2>1. [seq |-> number, frame |-> f].frame = f
    OBVIOUS
  <2> QED
    BY <2>1 DEF Acked
<1>4. Published' = Published /\ Evaluated' = Evaluated
  BY DEF Published, Evaluated
<1> QED
  BY <1>2, <1>3, <1>4 DEF Promise!Acknowledge, Promise!FramesOf, Published, Evaluated, Acked

LEMMA DiscardPromised ==
  ASSUME AgentInv, NEW f, \A i \in 1 .. Len(stream) : stream[i].frame # f,
         rejected' = rejected \cup {f}, UNCHANGED <<stream, journal, acked>>
  PROVE  Promise!Discard(f)
<1>1. ASSUME NEW i \in 1 .. Len(Published) PROVE Published[i].frame # f
  <2>1. i \in 1 .. Len(stream)
    BY MappedFacts
  <2>2. Published[i] = [seq |-> stream[i].seq, frame |-> stream[i].frame]
    BY <2>1, MappedFacts
  <2> QED
    BY <2>1, <2>2
<1>2. Published' = Published /\ Evaluated' = Evaluated /\ Acked' = Acked
  BY DEF Published, Evaluated, Acked
<1> QED
  BY <1>1, <1>2 DEF Promise!Discard, Promise!FramesOf, Published, Evaluated, Acked

LEMMA NothingSeen ==
  ASSUME UNCHANGED <<stream, journal, acked, rejected>>
  PROVE  UNCHANGED Promise!vars
BY DEF Promise!vars

LEMMA PublishStepPromised ==
  ASSUME AgentInv, AgentInv', SettledInv, NEW r \in Runtimes, Publish(r)
  PROVE  [Promise!Next]_Promise!vars
<1>1. PICK me \in Instance : me = rt[r]
  BY OneInstance
<1>2. me.pc = "publish" /\ Holds(me) /\ Consumes(me) /\ FramesInv
  BY <1>1, OneInstance, OneConsumes DEF Publish
<1>3. UNCHANGED <<head, number, acked, rejected, site, eval, journal>>
  BY DEF Publish, sourceVars, evidenceVars
<1>4. CASE stream' = stream
  BY <1>3, <1>4, NothingSeen
<1>5. CASE ~Contains(stream, me.env) /\ stream' = Append(stream, me.env)
  <2>1. /\ Len(stream') = Len(stream) + 1 /\ stream'[Len(stream) + 1] = me.env
        /\ \A i \in 1 .. Len(stream) : stream'[i] = stream[i] /\ stream[i].frame < me.env.frame
        /\ me.env.seq = FirstNumber + Len(stream) /\ me.env.frame \in Frames /\ site.pending = me.env
        /\ Belongs(me.env.seq, me.env.frame)
    BY <1>2, <1>3, <1>5, AppendedFrame
  <2>2. Len(journal) = Len(stream)
    <3>1. site.pending # None /\ Len(stream) = Completed
      BY <1>2, <1>5, <2>1, PublishedIsNext, AssemblingFacts DEF Assembling, Publishing
    <3> QED
      BY <3>1, StoresFacts DEF InStep, JournalSound
  <2>3. Promise!Publish(me.env.frame)
    BY <1>2, <1>3, <2>1, <2>2, PublishPromised
  <2> QED
    BY <2>1, <2>3 DEF Promise!Next
<1> QED
  BY <1>1, <1>4, <1>5 DEF Publish

LEMMA JournalStepPromised ==
  ASSUME AgentInv, AgentInv', NEW r \in Runtimes, AppendJournal(r)
  PROVE  [Promise!Next]_Promise!vars
<1>1. PICK me \in Instance : me = rt[r]
  BY OneInstance
<1>2. me.pc = "journal" /\ Holds(me)
  BY <1>1, OneInstance DEF AppendJournal
<1>3. UNCHANGED <<stream, acked, rejected>>
  BY DEF AppendJournal, sourceVars, siteVars
<1>4. CASE journal' = journal
  BY <1>3, <1>4, NothingSeen
<1>5. CASE journal' = Append(journal, Judged(me))
  <2>1. Judged(me) \in Evaluation
    BY <1>2, RecordFacts DEF Judging, Recording
  <2>2. Promise!Evaluate
    BY <1>3, <1>5, <2>1, EvaluatePromised
  <2> QED
    BY <2>2 DEF Promise!Next
<1> QED
  BY <1>1, <1>4, <1>5 DEF AppendJournal

LEMMA SourceStepPromised ==
  ASSUME AgentInv, SettledInv, NEW r \in Runtimes, Acknowledge(r) \/ Discard(r)
  PROVE  [Promise!Next]_Promise!vars
<1>1. PICK me \in Instance : me = rt[r]
  BY OneInstance
<1>2. Holds(me) /\ Consumes(me) /\ FramesInv /\ UNCHANGED <<stream, journal>>
  BY <1>1, OneInstance, OneConsumes DEF Acknowledge, Discard, siteVars, evidenceVars
<1>3. CASE UNCHANGED <<acked, rejected>>
  BY <1>2, <1>3, NothingSeen
<1>4. CASE /\ me.pc = "acknowledge" /\ Offers(me.batch.seq)
           /\ acked' = acked \cup {[seq |-> number, frame |-> head]} /\ rejected' = rejected
  <2>1. /\ me.batch # None /\ me.env \in Envelope /\ me.env.frame = me.batch.frame /\ me.pc \in Judging
    BY <1>2, <1>4, InHand, FreeStages DEF Holds, Judging
  <2>2. head = me.env.frame /\ head \in Frames
    BY <1>2, <1>4, <2>1, AtHand DEF Offers
  <2>3. Place(me.env) \in 1 .. Len(stream) /\ stream[Place(me.env)] = me.env /\ Place(me.env) <= Settled
    BY <1>2, <1>4, <2>1, RecordFacts DEF HoldsEvaluation
  <2>4. Place(me.env) \in 1 .. Len(journal) /\ journal[Place(me.env)].env = me.env
    <3>1. Settled <= Len(journal)
      BY StoresFacts DEF JournalSound
    <3>2. Place(me.env) \in 1 .. Len(journal)
      BY <2>3, <3>1, StoresFacts
    <3> QED
      BY <2>3, <3>2, StoresFacts DEF JournalSound
  <2>5. PICK f \in Frames : f = head
    BY <2>2
  <2>6. \E i \in 1 .. Len(journal) : journal[i].env.frame = f
    BY <2>2, <2>4, <2>5
  <2>7. Promise!Acknowledge(f)
    BY <1>2, <1>4, <2>5, <2>6, AcknowledgePromised
  <2> QED
    BY <2>7 DEF Promise!Next
<1>5. CASE /\ me.pc = "discard" /\ Offers(me.batch.seq)
           /\ rejected' = rejected \cup {head} /\ acked' = acked
  <2>1. me.batch # None /\ MayDiscard(me.batch.seq)
    BY <1>2, <1>5, InHand DEF Holds, Consumes, Holding
  <2>2. number = me.batch.seq /\ head \in Frames /\ Belongs(number, head)
    BY <1>2, <1>5, <2>1, AtHand DEF Offers
  <2>3. site.pending = None /\ Len(stream) = Completed /\ (site.last # None => number = site.last.seq + 1)
    BY <2>1, <2>2, StoresFacts DEF MayDiscard, StreamSound
  <2>4. Len(stream) = 0 \/ number = FirstNumber + Len(stream)
    <3>1. CASE site.last = None
      BY <2>3, <3>1, EnvelopePlaces DEF Completed
    <3>2. CASE site.last # None
      <4>1. site.last \in Envelope
        BY <3>2, StoresFacts
      <4> QED
        BY <2>3, <3>2, <4>1, EnvelopePlaces DEF Completed
    <3> QED
      BY <3>1, <3>2
  <2>5. ASSUME NEW i \in 1 .. Len(stream) PROVE stream[i].frame # head
    <3>1. FirstNumber + i <= number
      BY <2>4, Counts
    <3>2. stream[i].frame < head /\ stream[i].frame \in Nat
      BY <2>2, <3>1, FramesAreNumbers DEF Belongs
    <3> QED
      BY <3>2
  <2>6. Promise!Discard(head)
    BY <1>2, <1>5, <2>5, DiscardPromised
  <2> QED
    BY <2>2, <2>6 DEF Promise!Next
<1> QED
  BY <1>1, <1>3, <1>4, <1>5 DEF Acknowledge, Discard

LEMMA OtherStepsUnseen ==
  ASSUME NEW r \in Runtimes,
         \/ Start(r) \/ Run(r) \/ Exit(r) \/ BeginCycle(r) \/ Recover(r) \/ Trouble(r)
         \/ Peek(r) \/ Observe(r) \/ Admit(r) \/ ConsiderDiscarding(r) \/ PreparePublication(r) \/ CompletePublication(r)
         \/ Evaluate(r) \/ PrepareEvaluation(r) \/ LookInLedger(r) \/ IssueRecommendation(r) \/ CompleteEvaluation(r)
  PROVE  UNCHANGED <<stream, journal, acked, rejected>>
<1>1. CASE Start(r) \/ Run(r) \/ Exit(r) \/ BeginCycle(r) \/ Recover(r) \/ Trouble(r)
  BY <1>1 DEF Start, Run, Exit, BeginCycle, Recover, VerifyLedger, ReadJournal, LoadSite, Reconcile, RecoveryUnavailable,
     Trouble, Outage, Crash, TearWrite, RequestStop, sourceVars, siteVars, evidenceVars
<1>2. CASE \/ Peek(r) \/ Observe(r) \/ Admit(r) \/ ConsiderDiscarding(r) \/ PreparePublication(r) \/ CompletePublication(r)
  BY <1>2 DEF Peek, Observe, Admit, ConsiderDiscarding, PreparePublication, CompletePublication,
     sourceVars, siteVars, evidenceVars
<1>3. CASE Evaluate(r) \/ PrepareEvaluation(r) \/ LookInLedger(r) \/ IssueRecommendation(r) \/ CompleteEvaluation(r)
  BY <1>3 DEF Evaluate, PrepareEvaluation, LookInLedger, IssueRecommendation, CompleteEvaluation,
     sourceVars, siteVars, evidenceVars
<1> QED
  BY <1>1, <1>2, <1>3

LEMMA PromiseStep ==
  ASSUME AgentInv, AgentInv', SettledInv, [Next]_vars
  PROVE  [Promise!Next]_Promise!vars
<1>1. CASE UNCHANGED vars
  BY <1>1, NothingSeen DEF vars, sourceVars, siteVars, evidenceVars
<1>2. CASE LoseAck
  BY <1>2, NothingSeen DEF LoseAck, siteVars, evidenceVars
<1>3. ASSUME NEW r \in Runtimes, Work(r) \/ Trouble(r) PROVE [Promise!Next]_Promise!vars
  BY <1>3, PublishStepPromised, JournalStepPromised, SourceStepPromised, OtherStepsUnseen, NothingSeen
     DEF Work, Pipeline, Evaluating
<1> QED
  BY <1>1, <1>2, <1>3 DEF Next

\* The runtime implements FrameSettlement: whatever crashes, fails, is torn or is forgotten by
\* the source, every step of one consumer publishes the next frame, judges the newest one,
\* acknowledges a judged one, discards one that was never published, or is not seen.
THEOREM FramesSettled ==
  ASSUME OneConsumer
  PROVE  Spec => PromiseKept
<1>1. Init => Promise!Init
  BY DEF Init, Promise!Init
<1>2. AgentInv /\ AgentInv' /\ SettledInv /\ [Next]_vars => [Promise!Next]_Promise!vars
  BY PromiseStep
<1> QED
  BY <1>1, <1>2, AgentInvariant, SettledInvariant, PTL DEF Spec, PromiseKept, Promise!Spec

-----------------------------------------------------------------------------
(* The runtime fails closed for a reason only.                             *)

OneConfiguration == \A c, d \in Configs : c = d

LEMMA SingleConfiguration ==
  ASSUME IsFiniteSet(Configs), ~ (Cardinality(Configs) > 1)
  PROVE  OneConfiguration
<1> SUFFICES ASSUME NEW c \in Configs, NEW d \in Configs, c # d PROVE FALSE
  BY DEF OneConfiguration
<1>1. IsFiniteSet({c}) /\ Cardinality({c}) = 1
  BY FS_Singleton
<1>2. Cardinality({c} \cup {d}) = 2
  BY <1>1, FS_AddElement
<1>3. {c} \cup {d} \in SUBSET Configs
  OBVIOUS
<1>4. Cardinality({c} \cup {d}) <= Cardinality(Configs) /\ Cardinality(Configs) \in Nat
  BY <1>3, FS_Subset, FS_CardinalityType
<1> QED
  BY <1>2, <1>4

\* The number of an envelope, from its place.
LEMMA NumberOfPlace ==
  ASSUME NEW e \in Envelope
  PROVE  e.seq + 1 = Place(e) + FirstNumber /\ e.seq \in Nat /\ Place(e) \in Nat
BY EnvelopePlaces

\* What recovery compares agrees, ...
LEMMA StoresAgree ==
  ASSUME AgentInv
  PROVE  Aligned(eval, site, journal)
<1>1. eval.last # None => eval.last \in Evaluation /\ eval.last.env \in Envelope /\ Settled = Place(eval.last.env)
  BY StoresFacts, EnvelopePlaces DEF Settled
<1>2. site.last # None => site.last \in Envelope /\ Completed = Place(site.last)
  BY StoresFacts DEF Completed
<1>3. eval.last # None /\ site.last # None => eval.last.env.seq = site.last.seq \/ eval.last.env.seq + 1 = site.last.seq
  <2> SUFFICES ASSUME eval.last # None, site.last # None
               PROVE  eval.last.env.seq = site.last.seq \/ eval.last.env.seq + 1 = site.last.seq
    OBVIOUS
  <2>1. eval.last.env.seq + 1 = Settled + FirstNumber /\ eval.last.env.seq \in Nat
    BY <1>1, NumberOfPlace
  <2>2. site.last.seq + 1 = Completed + FirstNumber /\ site.last.seq \in Nat
    BY <1>2, NumberOfPlace
  <2>3. Settled <= Completed /\ Completed <= Settled + 1 /\ Completed \in Nat /\ Settled \in Nat /\ FirstNumber \in Nat
    BY StoresFacts, Counts DEF InStep
  <2>4. Completed = Settled \/ Completed = Settled + 1
    BY <2>3
  <2> QED
    BY <2>1, <2>2, <2>3, <2>4
<1>4. eval.pending # None /\ site.last # None => eval.pending.env.seq = site.last.seq
  BY StoresFacts DEF InStep
<1>5. journal # <<>> => /\ eval.pending # None => Last(journal).env.seq <= eval.pending.env.seq
                        /\ eval.pending = None => eval.last # None /\ Last(journal).env.seq <= eval.last.env.seq
  <2> SUFFICES ASSUME journal # <<>>
               PROVE  /\ eval.pending # None => Last(journal).env.seq <= eval.pending.env.seq
                      /\ eval.pending = None => eval.last # None /\ Last(journal).env.seq <= eval.last.env.seq
    OBVIOUS
  <2> DEFINE n == Len(journal)
  <2>1. n \in 1 .. Len(journal) /\ n \in Nat \ {0} /\ Last(journal) = journal[n]
    BY StoresFacts DEF Last
  <2>2. journal[n] \in Evaluation /\ Place(journal[n].env) = n
    BY <2>1, StoresFacts, WhereItStands
  <2>3. journal[n].env.seq + 1 = n + FirstNumber /\ journal[n].env.seq \in Nat
    <3>1. journal[n].env \in Envelope
      BY <2>2, EnvelopePlaces
    <3> QED
      BY <2>2, <3>1, NumberOfPlace
  <2>4. ASSUME eval.pending # None PROVE journal[n].env.seq <= eval.pending.env.seq
    <3>1. /\ Place(eval.pending.env) = Settled + 1 /\ (n = Settled \/ n = Settled + 1)
          /\ Settled \in Nat /\ FirstNumber \in Nat
      BY <2>4, StoresFacts, Counts DEF JournalSound
    <3>2. eval.pending.env \in Envelope
      BY <2>4, StoresFacts, EnvelopePlaces
    <3>3. eval.pending.env.seq + 1 = Place(eval.pending.env) + FirstNumber /\ eval.pending.env.seq \in Nat
      BY <3>2, NumberOfPlace
    <3> HIDE DEF n
    <3> QED
      BY <2>3, <3>1, <3>3
  <2>5. ASSUME eval.pending = None PROVE eval.last # None /\ journal[n].env.seq <= eval.last.env.seq
    <3>1. n = Settled
      BY <2>5, StoresFacts DEF JournalSound
    <3>2. eval.last # None
      BY <2>1, <3>1 DEF Settled
    <3>3. eval.last.env.seq + 1 = Settled + FirstNumber /\ eval.last.env.seq \in Nat
      BY <1>1, <3>2, NumberOfPlace
    <3>4. Settled \in Nat /\ FirstNumber \in Nat
      BY Counts
    <3> HIDE DEF n
    <3> QED
      BY <2>3, <3>1, <3>2, <3>3, <3>4
  <2> QED
    BY <2>1, <2>4, <2>5
<1>6. eval.last # None => \E i \in 1 .. Len(journal) : journal[i] = eval.last
  BY StoresFacts DEF JournalSound
<1> QED
  BY <1>3, <1>4, <1>5, <1>6 DEF Aligned

\* ... an envelope that was just published may be judged, ...
LEMMA NewestMayBeJudged ==
  ASSUME OneConfiguration, AgentInv, NEW me \in Instance, Holds(me), Consumes(me), me.pc = "evaluate"
  PROVE  AlreadyEvaluated(me) \/ MayEvaluate(me)
<1>1. /\ me.env \in Envelope /\ Judged(me) \in Evaluation /\ me.config \in Configs
      /\ Place(me.env) \in 1 .. Len(stream) /\ stream[Place(me.env)] = me.env
      /\ site.pending = None /\ site.last = me.env
  <2>1. me.pc \in Judging /\ me.pc \in Holding
    BY FreeStages DEF Judging
  <2> QED
    BY <2>1, RecordFacts, InHand DEF Consumes
<1>2. Place(me.env) = Completed
  BY <1>1 DEF Completed
<1>3. ASSUME eval.last # None, eval.last.env.seq = me.env.seq PROVE AlreadyEvaluated(me)
  <2>1. eval.last \in Evaluation /\ eval.last.env \in Envelope /\ Settled = Place(eval.last.env)
    BY <1>3, StoresFacts, EnvelopePlaces DEF Settled
  <2>2. Settled = Place(me.env)
    BY <1>1, <1>3, <2>1, EnvelopePlaces
  <2>3. Settled \in 1 .. Len(journal) /\ journal[Settled] = eval.last /\ journal[Settled].env = stream[Settled]
    BY <1>3, StoresFacts DEF JournalSound
  <2> QED
    BY <1>1, <1>3, <2>2, <2>3 DEF AlreadyEvaluated
<1>4. eval.pending # None => eval.pending = Judged(me)
  <2> SUFFICES ASSUME eval.pending # None PROVE eval.pending = Judged(me)
    OBVIOUS
  <2>1. eval.pending \in Evaluation /\ eval.pending.env = me.env
    BY <1>1, StoresFacts DEF InStep
  <2>2. eval.pending.policy = me.config.policy
    BY <1>1, <2>1 DEF OneConfiguration, Evaluation
  <2> QED
    BY <2>1, <2>2 DEF Evaluation, Judged
<1>5. ASSUME eval.last # None, eval.last.env.seq # me.env.seq PROVE me.env.seq = eval.last.env.seq + 1
  <2>1. eval.last.env \in Envelope /\ Settled = Place(eval.last.env)
    BY <1>5, StoresFacts, EnvelopePlaces DEF Settled
  <2>2. eval.last.env.seq + 1 = Settled + FirstNumber /\ eval.last.env.seq \in Nat
    BY <2>1, NumberOfPlace
  <2>3. me.env.seq + 1 = Completed + FirstNumber /\ me.env.seq \in Nat
    BY <1>1, <1>2, NumberOfPlace
  <2>4. Settled <= Completed /\ Completed <= Settled + 1 /\ Completed \in Nat /\ Settled \in Nat /\ FirstNumber \in Nat
    BY StoresFacts, Counts DEF InStep
  <2>5. Completed = Settled \/ Completed = Settled + 1
    BY <2>4
  <2> QED
    BY <1>5, <2>2, <2>3, <2>4, <2>5
<1> QED
  BY <1>3, <1>4, <1>5 DEF MayEvaluate

\* ... and its record fits or is there already.
LEMMA RecordFits ==
  ASSUME AgentInv, torn = {}, NEW me \in Instance, Holds(me), me.pc = "journal"
  PROVE  Fits(Judged(me)) \/ Journaled(Judged(me))
<1>1. /\ me.env \in Envelope /\ Judged(me) \in Evaluation /\ Judged(me).env = me.env /\ Judged(me) # None
      /\ (eval.pending = Judged(me) \/ Contains(journal, Judged(me)))
  <2>1. me.pc \in Judging /\ me.pc \in Recording
    BY DEF Judging, Recording
  <2> QED
    BY <2>1, RecordFacts DEF HoldsEvaluation
<1>2. CASE Contains(journal, Judged(me))
  BY <1>2 DEF Journaled
<1>3. CASE ~Contains(journal, Judged(me)) /\ eval.pending = Judged(me)
  <2>1. /\ Place(me.env) = Settled + 1 /\ Len(journal) = Settled
        /\ Settled \in Nat /\ FirstNumber \in Nat
    <3>1. Settled + 1 \in 1 .. Len(journal) /\ journal[Settled + 1] = Judged(me) => Contains(journal, Judged(me))
      BY DEF Contains
    <3> QED
      BY <1>1, <1>3, <3>1, StoresFacts, Counts DEF JournalSound
  <2>2. me.env.seq + 1 = Place(me.env) + FirstNumber /\ me.env.seq \in Nat
    BY <1>1, NumberOfPlace
  <2>3. ASSUME NEW i \in 1 .. Len(journal) PROVE journal[i].env.seq + 1 = FirstNumber + i /\ journal[i].env.seq \in Nat
    <3>1. journal[i] \in Evaluation /\ Place(journal[i].env) = i
      BY StoresFacts, WhereItStands
    <3>2. journal[i].env.seq + 1 = i + FirstNumber /\ journal[i].env.seq \in Nat
      BY <3>1, EnvelopePlaces, NumberOfPlace
    <3> QED
      BY <2>1, <3>2
  <2>4. \A i \in 1 .. Len(journal) : journal[i].env.seq # me.env.seq
    BY <2>1, <2>2, <2>3
  <2>5. journal # <<>> => me.env.seq = Last(journal).env.seq + 1
    <3> SUFFICES ASSUME journal # <<>> PROVE me.env.seq = Last(journal).env.seq + 1
      OBVIOUS
    <3>1. Len(journal) \in 1 .. Len(journal) /\ Last(journal) = journal[Len(journal)]
      BY StoresFacts DEF Last
    <3>2. journal[Len(journal)].env.seq + 1 = FirstNumber + Len(journal) /\ journal[Len(journal)].env.seq \in Nat
      BY <2>3, <3>1
    <3> QED
      BY <2>1, <2>2, <3>1, <3>2
  <2>6. "journal" \notin torn
    OBVIOUS
  <2> QED
    BY <1>1, <2>4, <2>5, <2>6 DEF Fits
<1> QED
  BY <1>1, <1>2, <1>3

\* Steps after which no instance has failed that had not failed before.
Calm == \A s \in Runtimes : rt'[s].failed => rt[s].failed

LEMMA CalmIfKept ==
  ASSUME AgentInv, NEW r \in Runtimes, NEW new, Set(r, new), new.failed => rt[r].failed
  PROVE  Calm
BY DEF Calm, Set, AgentInv

LEMMA EndsKeepFailed ==
  ASSUME NEW me \in Instance
  PROVE  /\ AtCycleEnd(me).failed = me.failed /\ Cease(me).failed = me.failed /\ Proceed(me).failed = me.failed
         /\ ToCycle(me).failed = me.failed /\ ToCycle(me) \in Instance
         /\ \A code : Rejected(me, code).failed = me.failed
         /\ \A pc : [me EXCEPT !.pc = pc].failed = me.failed
<1>1. AtCycleEnd(me).failed = me.failed /\ ToCycle(me).failed = me.failed /\ ToCycle(me) \in Instance
  BY NoCheckpointTypes, FreeStages, EmptySeq DEF AtCycleEnd, Asleep, ToCycle, Instance
<1>2. DOMAIN AtCycleEnd(me) = DOMAIN Asleep /\ "failed" \in DOMAIN Asleep
  BY DEF AtCycleEnd, Asleep
<1>3. \A pc, p : [AtCycleEnd(me) EXCEPT !.pc = pc, !.previous = p].failed = me.failed
  BY <1>1, <1>2
<1>4. Cease(me).failed = me.failed /\ Proceed(me).failed = me.failed
  BY <1>3 DEF Cease, Proceed
<1>5. \A code : Rejected(me, code).failed = me.failed
  BY <1>3, <1>4 DEF Rejected
<1>6. \A pc : [me EXCEPT !.pc = pc].failed = me.failed
  BY DEF Instance
<1> QED
  BY <1>1, <1>4, <1>5, <1>6

LEMMA CalmEnds ==
  ASSUME AgentInv, NEW r \in Runtimes,
         Defer(r) \/ Set(r, Proceed(rt[r])) \/ Set(r, Asleep) \/ (\E code : Reject(r, code)) \/ \E pc : Go(r, pc)
  PROVE  Calm
<1>1. PICK me \in Instance : me = rt[r]
  BY OneInstance
<1>2. CASE Defer(r)
  BY <1>1, <1>2, EndsKeepFailed, CalmIfKept DEF Defer
<1>3. CASE Set(r, Proceed(rt[r]))
  BY <1>1, <1>3, EndsKeepFailed, CalmIfKept
<1>4. CASE Set(r, Asleep)
  <2>1. Asleep.failed = FALSE
    BY DEF Asleep
  <2> QED
    BY <1>4, <2>1, CalmIfKept
<1>5. CASE \E code : Reject(r, code)
  BY <1>1, <1>5, EndsKeepFailed, CalmIfKept DEF Reject
<1>6. CASE \E pc : Go(r, pc)
  <2>1. PICK pc : Set(r, [me EXCEPT !.pc = pc])
    BY <1>1, <1>6 DEF Go
  <2>2. [me EXCEPT !.pc = pc].failed = rt[r].failed
    BY <1>1, EndsKeepFailed
  <2> QED
    BY <2>1, <2>2, CalmIfKept
<1> QED
  BY <1>2, <1>3, <1>4, <1>5, <1>6

LEMMA SavesAreCalm ==
  ASSUME AgentInv, NEW r \in Runtimes, NEW saved, saved.failed = rt[r].failed, NEW updated,
         SaveSite(r, updated, saved) \/ SaveEvaluation(r, updated, saved)
  PROVE  Calm
BY CalmIfKept, CalmEnds DEF SaveSite, SaveEvaluation

\* The stages at which an instance finds its stores or its record at odds.
AtOdds(me) ==
  \/ me.pc = "reconcile" /\ ~Aligned(eval, me.site, me.journal)
  \/ me.pc = "evaluate" /\ ~AlreadyEvaluated(me) /\ ~MayEvaluate(me)
  \/ me.pc = "journal" /\ ~Fits(Judged(me)) /\ ~Journaled(Judged(me))

\* An instance fails closed only over half a line or at odds.
LEMMA CyclesFailForAReason ==
  ASSUME AgentInv, NEW r \in Runtimes, Start(r) \/ Run(r) \/ Exit(r) \/ BeginCycle(r) \/ Recover(r)
  PROVE  Calm \/ torn # {} \/ AtOdds(rt[r])
<1>1. PICK me \in Instance : me = rt[r]
  BY OneInstance
<1>2. CASE Start(r)
  <2>1. \A c : [Asleep EXCEPT !.pc = "rest", !.config = c].failed = FALSE
    BY DEF Asleep
  <2> QED
    BY <1>2, <2>1, CalmIfKept DEF Start
<1>3. CASE Run(r)
  <2>1. \A p : [me EXCEPT !.pc = "cycle", !.run = p].failed = me.failed
    BY DEF Instance
  <2> QED
    BY <1>1, <1>3, <2>1, CalmIfKept DEF Run
<1>4. CASE Exit(r) \/ BeginCycle(r) \/ VerifyLedger(r)
  BY <1>4, CalmEnds DEF Exit, BeginCycle, VerifyLedger
<1>5. CASE ReadJournal(r) \/ LoadSite(r)
  <2>1. /\ [me EXCEPT !.pc = "loadsite", !.journal = journal].failed = me.failed
        /\ [me EXCEPT !.pc = "reconcile", !.site = site].failed = me.failed
    BY DEF Instance
  <2> QED
    BY <1>1, <1>5, <2>1, CalmIfKept DEF ReadJournal, LoadSite
<1>6. CASE Reconcile(r)
  <2>1. ToCycle(me).failed = me.failed /\ ToCycle(me) \in Instance
    BY EndsKeepFailed
  <2>2. [ToCycle(me) EXCEPT !.recovered = TRUE].failed = me.failed
    BY <2>1 DEF Instance
  <2>3. CASE Aligned(eval, me.site, me.journal)
    BY <1>1, <1>6, <2>2, <2>3, CalmIfKept DEF Reconcile
  <2> QED
    BY <1>1, <1>6, <2>3 DEF Reconcile, AtOdds
<1>7. CASE RecoveryUnavailable(r)
  BY <1>1, <1>7, EndsKeepFailed, CalmIfKept DEF RecoveryUnavailable
<1> QED
  BY <1>2, <1>3, <1>4, <1>5, <1>6, <1>7 DEF Recover

LEMMA PipelineIsCalm ==
  ASSUME AgentInv, NEW r \in Runtimes, Pipeline(r)
  PROVE  Calm
<1>1. PICK me \in Instance : me = rt[r]
  BY OneInstance
<1>2. CASE Peek(r) \/ ConsiderDiscarding(r) \/ Discard(r) \/ Publish(r)
  BY <1>2, CalmEnds DEF Peek, ConsiderDiscarding, Discard, Publish
<1>3. CASE Observe(r)
  <2>1. [me EXCEPT !.pc = "admit", !.batch = [seq |-> number, frame |-> head]].failed = me.failed
    BY DEF Instance
  <2> QED
    BY <1>1, <1>3, <2>1, CalmIfKept, CalmEnds DEF Observe
<1>4. CASE Admit(r)
  <2>1. /\ \A code : [me EXCEPT !.pc = "refuse", !.code = code].failed = me.failed
        /\ \A env : [me EXCEPT !.pc = "prepare", !.env = env, !.site = site].failed = me.failed
        /\ \A env : [me EXCEPT !.pc = "evaluate", !.env = env].failed = me.failed
    BY DEF Instance
  <2>2. \/ \E new : Set(r, new) /\ new.failed = me.failed
        \/ \E code : Reject(r, code)
    BY <1>1, <1>4, <2>1 DEF Admit
  <2> QED
    BY <1>1, <2>2, CalmIfKept, CalmEnds
<1>5. CASE PreparePublication(r)
  <2>1. \A c : [me EXCEPT !.pc = "publish", !.site = c].failed = me.failed
    BY DEF Instance
  <2> QED
    BY <1>1, <1>5, <2>1, SavesAreCalm DEF PreparePublication
<1>6. CASE CompletePublication(r)
  <2>1. [me EXCEPT !.pc = "evaluate", !.site = NoCheckpoint].failed = me.failed
    BY DEF Instance
  <2> QED
    BY <1>1, <1>6, <2>1, SavesAreCalm DEF CompletePublication
<1> QED
  BY <1>2, <1>3, <1>4, <1>5, <1>6 DEF Pipeline

LEMMA EvaluationsFailForAReason ==
  ASSUME AgentInv, NEW r \in Runtimes, Evaluating(r)
  PROVE  Calm \/ torn # {} \/ AtOdds(rt[r])
<1>1. PICK me \in Instance : me = rt[r]
  BY OneInstance
<1>2. CASE Evaluate(r)
  <2>1. /\ [me EXCEPT !.pc = "acknowledge", !.outcome = "skipped"].failed = me.failed
        /\ [me EXCEPT !.pc = "evalprepare", !.eval = eval].failed = me.failed
    BY DEF Instance
  <2>2. CASE AlreadyEvaluated(me) \/ MayEvaluate(me)
    BY <1>1, <1>2, <2>1, <2>2, CalmIfKept DEF Evaluate
  <2> QED
    BY <1>1, <1>2, <2>2 DEF Evaluate, AtOdds
<1>3. CASE PrepareEvaluation(r)
  <2>1. \A pc, c : [me EXCEPT !.pc = pc, !.eval = c].failed = me.failed
    BY DEF Instance
  <2> QED
    BY <1>1, <1>3, <2>1, SavesAreCalm DEF PrepareEvaluation
<1>4. CASE LookInLedger(r) \/ IssueRecommendation(r) \/ Acknowledge(r)
  BY <1>4, CalmEnds DEF LookInLedger, IssueRecommendation, Acknowledge
<1>5. CASE AppendJournal(r)
  BY <1>5, CalmEnds DEF AppendJournal, AtOdds
<1>6. CASE CompleteEvaluation(r)
  <2>1. [me EXCEPT !.pc = "acknowledge", !.outcome = "evaluated"].failed = me.failed
    BY DEF Instance
  <2> QED
    BY <1>1, <1>6, <2>1, SavesAreCalm DEF CompleteEvaluation
<1> QED
  BY <1>2, <1>3, <1>4, <1>5, <1>6 DEF Evaluating

LEMMA TroubleIsCalm ==
  ASSUME AgentInv, NEW r \in Runtimes, Trouble(r)
  PROVE  Calm
<1>1. PICK me \in Instance : me = rt[r]
  BY OneInstance
<1>2. CASE Outage(r) \/ Crash(r)
  BY <1>2, CalmEnds DEF Outage, Crash
<1>3. CASE TearWrite(r)
  BY <1>3, CalmEnds DEF TearWrite, HalfWritten
<1>4. CASE RequestStop(r)
  <2>1. [me EXCEPT !.stop = TRUE].failed = me.failed
    BY DEF Instance
  <2> QED
    BY <1>1, <1>4, <2>1, CalmIfKept DEF RequestStop
<1> QED
  BY <1>2, <1>3, <1>4 DEF Trouble

LEMMA NeverAtOdds ==
  ASSUME OneConfiguration, AgentInv, SettledInv, torn = {}, NEW r \in Runtimes
  PROVE  ~AtOdds(rt[r])
<1>1. PICK me \in Instance : me = rt[r]
  BY OneInstance
<1>2. Holds(me) /\ Consumes(me)
  BY <1>1, OneInstance, OneConsumes
<1>3. me.pc = "reconcile" => Aligned(eval, me.site, me.journal)
  BY <1>2, StoresAgree DEF Consumes
<1> QED
  BY <1>1, <1>2, <1>3, NewestMayBeJudged, RecordFits DEF AtOdds

LEMMA TornOnlyGrows == ASSUME [Next]_vars PROVE torn \subseteq torn'
<1>1. ASSUME NEW r \in Runtimes, Work(r) PROVE torn' = torn
  BY <1>1 DEF Work, Start, Run, Exit, BeginCycle, Recover, VerifyLedger, ReadJournal, LoadSite, Reconcile,
     RecoveryUnavailable, Pipeline, Peek, Observe, Admit, ConsiderDiscarding, Discard, PreparePublication, Publish,
     CompletePublication, Evaluating, Evaluate, PrepareEvaluation, LookInLedger, IssueRecommendation, AppendJournal,
     CompleteEvaluation, Acknowledge
<1>2. ASSUME NEW r \in Runtimes, Trouble(r) PROVE torn \subseteq torn'
  BY <1>2 DEF Trouble, Outage, Crash, TearWrite, HalfWritten, RequestStop
<1>3. CASE LoseAck \/ UNCHANGED vars
  BY <1>3 DEF LoseAck, vars
<1> QED
  BY <1>1, <1>2, <1>3 DEF Next

LEMMA NoFalseAlarmStep ==
  ASSUME IsFiniteSet(Configs), AgentInv, SettledInv, NoFalseAlarm, [Next]_vars
  PROVE  NoFalseAlarm'
<1> SUFFICES ASSUME torn' = {}, ~ (Cardinality(Configs) > 1), NEW s \in Runtimes, rt'[s].failed PROVE FALSE
  BY DEF NoFalseAlarm
<1>1. torn = {} /\ OneConfiguration
  BY TornOnlyGrows, SingleConfiguration
<1>2. Calm
  <2>1. CASE UNCHANGED vars \/ LoseAck
    BY <2>1 DEF vars, LoseAck, Calm
  <2>2. ASSUME NEW r \in Runtimes, Work(r) PROVE Calm
    BY <1>1, <2>2, NeverAtOdds, CyclesFailForAReason, PipelineIsCalm, EvaluationsFailForAReason DEF Work
  <2>3. ASSUME NEW r \in Runtimes, Trouble(r) PROVE Calm
    BY <2>3, TroubleIsCalm
  <2> QED
    BY <2>1, <2>2, <2>3 DEF Next
<1>3. rt[s].failed
  BY <1>2 DEF Calm
<1> QED
  BY <1>1, <1>3 DEF NoFalseAlarm

\* With one configuration and one consumer no crash, no failing call and no forgotten
\* acknowledgement makes the runtime fail closed: without half a line in a file, what recover()
\* compares agrees, the envelope at hand may be judged, and its record fits the journal.
THEOREM NoFalseAlarms ==
  ASSUME OneConsumer, IsFiniteSet(Configs)
  PROVE  Spec => []NoFalseAlarm
<1>1. Init => NoFalseAlarm
  BY DEF Init, NoFalseAlarm, Asleep
<1>2. AgentInv /\ SettledInv /\ NoFalseAlarm /\ [Next]_vars => NoFalseAlarm'
  BY NoFalseAlarmStep
<1> QED
  BY <1>1, <1>2, AgentInvariant, SettledInvariant, PTL DEF Spec

=============================================================================
