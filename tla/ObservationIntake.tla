------------------------- MODULE ObservationIntake -------------------------
(***************************************************************************)
(* The way in: a feed of raw batches, the adapters that make a frame of    *)
(* each, and the site runtime that validates, assembles, gates and         *)
(* publishes it, and then tells the feed to go on.                         *)
(*                                                                         *)
(* The feed lives in memory.  It delivers a batch until it is acknowledged *)
(* or rejected; a rejected batch leaves its sequence number to the next.   *)
(* A restart builds a new feed and has to tell it how many batches were    *)
(* consumed and which number comes next; the checkpoint survives.  The     *)
(* writes within one publication are the subject of AgentRuntime.          *)
(***************************************************************************)
EXTENDS FacilityAssembly

CONSTANT Setups     \* families of setups: what was commissioned, the batches that will come, and
                    \* how many crashes and repeated decisions are explored

VARIABLES
    deployment, batches,
    feed,        \* taken: batches consumed; next: sequence number; open: a decision is due
    frames,      \* what the adapters make of each batch: always the same
    delivery,    \* what the runtime holds: a batch and its number
    verdict,     \* what became of the delivery
    checkpoint,  \* last: number, batch: whose envelope it was
    published,   \* the envelopes, in order
    fate,        \* of each batch, over all lives of the feed
    up, faults,
    startedOver  \* some restart began at the beginning

vars == <<deployment, batches, frames, feed, delivery, verdict, checkpoint, published, fate, up, faults, startedOver>>

Discardable == {"invalid_observation", "stale_observation", "insufficient_quality"}
Retained == {"invalid_sequence", "replay_mismatch", "assembly_failed"}
Verdicts == Discardable \cup Retained
    \cup {None, "published", "replayed", "acknowledged", "rejected", "protocol_error"}

\* The frame of a batch, with the adapters' report.
Converted(d, batch) ==
    LET c == Convert(d, batch)
    IN  [frame |-> Frame(batch, c.obs), accepted |-> c.accepted, rejected |-> c.rejected]

NewFeed(taken, next) == [taken |-> taken, next |-> next, open |-> FALSE]

Init ==
    /\ \E family \in DOMAIN Setups : \E s \in Setups[family] :
           deployment = s.deployment /\ batches = s.batches /\ faults = s.faults
    /\ frames = [k \in DOMAIN batches |-> Converted(deployment, batches[k])]
    /\ feed = NewFeed(0, 0)
    /\ delivery = None
    /\ verdict = None
    /\ checkpoint = [last |-> None, batch |-> None]
    /\ published = <<>>
    /\ fate = [k \in DOMAIN batches |-> "waiting"]
    /\ up = TRUE
    /\ startedOver = FALSE

Exhausted == feed.taken = Len(batches)

\* Peek: the same batch until it is decided, and one decision per peek.
Observe ==
    /\ up
    /\ ~Exhausted
    /\ delivery' = [batch |-> feed.taken + 1, seq |-> feed.next]
    /\ feed' = [feed EXCEPT !.open = TRUE]
    /\ verdict' = None
    /\ UNCHANGED <<deployment, batches, frames, checkpoint, published, fate, up, faults, startedOver>>

-----------------------------------------------------------------------------
\* The runtime.

TheFrame == frames[delivery.batch].frame

NextSequence == IF checkpoint.last = None THEN delivery.seq ELSE checkpoint.last + 1
Replays == checkpoint.last # None /\ delivery.seq = checkpoint.last
SequenceProblem ==
    IF Replays THEN IF delivery.batch # checkpoint.batch THEN "replay_mismatch" ELSE None
    ELSE IF delivery.seq # NextSequence THEN "invalid_sequence" ELSE None

Outcome ==
    IF Invalid(TheFrame) THEN "invalid_observation"
    ELSE IF SequenceProblem # None THEN SequenceProblem
    ELSE IF ~Assembles(TheFrame) THEN "assembly_failed"
    ELSE IF Replays THEN "replayed"
    ELSE IF QualityGate(TheFrame) # "ok" THEN QualityGate(TheFrame)
    ELSE "published"

PublishFrame ==
    /\ published' = Append(published, [seq |-> delivery.seq, batch |-> delivery.batch,
                                       state |-> Assemble(TheFrame)])
    /\ checkpoint' = [last |-> delivery.seq, batch |-> delivery.batch]

Process ==
    /\ up
    /\ delivery # None
    /\ verdict = None
    /\ verdict' = Outcome
    /\ IF Outcome = "published" THEN PublishFrame ELSE UNCHANGED <<published, checkpoint>>
    /\ UNCHANGED <<deployment, batches, frames, feed, delivery, fate, up, faults, startedOver>>

\* A decision of the feed: refused unless it is due and names the number
\* that was delivered.
DueWithoutPeek(n) == ~Exhausted /\ n = feed.next
Due(n) == feed.open /\ ~Exhausted /\ n = feed.next

Acknowledge(n) ==
    IF Due(n)
    THEN /\ feed' = NewFeed(feed.taken + 1, feed.next + 1)
         /\ fate' = [fate EXCEPT ![feed.taken + 1] = "acknowledged"]
         /\ verdict' = "acknowledged"
    ELSE /\ verdict' = "protocol_error"
         /\ UNCHANGED <<feed, fate>>
RejectAndAdvance(n) ==
    IF Due(n)
    THEN /\ feed' = NewFeed(feed.taken + 1, feed.next + 1)
         /\ fate' = [fate EXCEPT ![feed.taken + 1] = "rejected"]
         /\ verdict' = "rejected"
    ELSE /\ verdict' = "protocol_error"
         /\ UNCHANGED <<feed, fate>>
RejectDelivery(n) ==
    IF Due(n)
    THEN /\ feed' = NewFeed(feed.taken + 1, feed.next)
         /\ fate' = [fate EXCEPT ![feed.taken + 1] = "rejected"]
         /\ verdict' = "rejected"
    ELSE /\ verdict' = "protocol_error"
         /\ UNCHANGED <<feed, fate>>

\* Only a bad frame at the next position is discarded.
MayReject == verdict \in Discardable /\ delivery.seq = NextSequence

Settle ==
    /\ up
    /\ delivery # None
    /\ \/ verdict \in {"published", "replayed"} /\ Acknowledge(delivery.seq)
       \/ MayReject /\ RejectDelivery(delivery.seq)
    /\ UNCHANGED <<deployment, batches, frames, delivery, checkpoint, published, up, faults, startedOver>>

\* A caller that is not sure of its decision makes it once more.
SettleAgain ==
    /\ up
    /\ faults > 0
    /\ faults' = faults - 1
    /\ \/ verdict = "acknowledged" /\ Acknowledge(delivery.seq)
       \/ verdict = "rejected" /\ RejectDelivery(delivery.seq)
    /\ UNCHANGED <<deployment, batches, frames, delivery, checkpoint, published, up, startedOver>>

-----------------------------------------------------------------------------
Crash ==
    /\ up
    /\ faults > 0
    /\ faults' = faults - 1
    /\ up' = FALSE
    /\ feed' = NewFeed(0, 0)
    /\ delivery' = None
    /\ verdict' = None
    /\ UNCHANGED <<deployment, batches, frames, checkpoint, published, fate, startedOver>>

\* The batches before the first one that was neither decided nor published:
\* one may be published and not yet acknowledged.
Published(k) == \E i \in DOMAIN published : published[i].batch = k
Consumed(k) == fate[k] # "waiting" \/ Published(k)
ConsumedCycles ==
    CHOOSE n \in 0 .. Len(batches) :
        /\ \A k \in 1 .. n : Consumed(k)
        /\ n = Len(batches) \/ ~Consumed(n + 1)
NextPosition == IF checkpoint.last = None THEN 0 ELSE checkpoint.last + 1

\* The composition's two ways to start again: where the checkpoint and the
\* consumed batches say, or from the beginning.
Restart(f, over) ==
    /\ ~up
    /\ up' = TRUE
    /\ feed' = f
    /\ startedOver' = (startedOver \/ over)
    /\ UNCHANGED <<deployment, batches, frames, delivery, verdict, checkpoint, published, fate, faults>>
Resume == Restart(NewFeed(ConsumedCycles, NextPosition), FALSE)
StartOver == Restart(NewFeed(0, 0), TRUE)

Next == Observe \/ Process \/ Settle \/ SettleAgain \/ Crash \/ Resume \/ StartOver

Spec == Init /\ [][Next]_vars

\* The runtime is called again and again and every call decides what it
\* processed; what was stopped is started again.
FairSpec ==
    /\ Spec
    /\ WF_vars(Observe) /\ WF_vars(Process) /\ SF_vars(Settle) /\ WF_vars(Resume \/ StartOver)

-----------------------------------------------------------------------------
\* Every reading of a batch that can speak for a channel.

Bindings == ToSet(deployment.bindings)

CellReadings(batch, b) ==
    {k \in DOMAIN batch.cells : /\ batch.cells[k].sensor = b.sensor
                                /\ b.kind \in {"count", "quantity"} /\ b.unit = "balls"}
InputReadings(batch, b) ==
    {jk \in (DOMAIN batch.snapshots) \X (1 .. 3) :
        /\ deployment.devices[batch.snapshots[jk[1]].device] # None
        /\ jk[2] \in DOMAIN batch.snapshots[jk[1]].inputs
        /\ batch.snapshots[jk[1]].inputs[jk[2]].sensor = b.sensor}
RobotReadings(batch, b) ==
    {k \in DOMAIN batch.robots : /\ b.channel[1] = batch.robots[k].robot
                                 /\ deployment.robots[batch.robots[k].robot] # None}
Readings(batch, b) ==
    Cardinality(CellReadings(batch, b)) + Cardinality(InputReadings(batch, b))
        + Cardinality(RobotReadings(batch, b))

InTime(timing, t) == timing.sample <= t /\ timing.available <= t

\* A mass that is a number of balls this cell can hold, by the calibration
\* that was commissioned.
GoodCell(s, b, t) ==
    LET p == deployment.cells[s.sensor]
    IN  /\ p # None /\ p.calibration = b.calibration /\ p.unit = s.unit
        /\ s.calibration = (IF b.required THEN b.calibration ELSE None)
        /\ s.device = "ok" /\ InTime(s.timing, t)
        /\ s.raw \notin {None, NotFinite}
        /\ s.raw >= p.tare
\* The nearest number of whole balls, or the measured mass.
SaysBalls(s, b, v) ==
    LET p == deployment.cells[s.sensor]
        off == 2 * ((s.raw - p.tare) - v * p.massPerBall)
    IN  IF b.kind = "count" THEN v <= p.capacity /\ off <= p.massPerBall /\ -off <= p.massPerBall
        ELSE v = s.raw - p.tare /\ v <= p.capacity * p.massPerBall

\* A contact is asserted when its level differs from its resting level.
AssertedContact(i) ==
    deployment.inputs[i.sensor] # None /\ i.state = ~deployment.inputs[i.sensor].activeLow
GoodInput(s, i, b, t) ==
    LET p == deployment.inputs[i.sensor]
    IN  /\ p # None /\ p.calibration = b.calibration /\ ~b.required
        /\ <<b.kind, b.unit>> \in {<<"boolean", "1">>, <<"count", "count">>}
        /\ s.status = "ok" /\ InTime(s.timing, t) /\ i.state # None
        /\ \A pair \in deployment.devices[s.device].exclusive :
               i.name \in {pair[1], pair[2]} =>
                   \E n \in {pair[1], pair[2]} :
                       \A k \in DOMAIN s.inputs : s.inputs[k].name = n => ~AssertedContact(s.inputs[k])

GoodField(s, b, t) ==
    LET p == deployment.robots[s.robot]
        v == s[b.channel[2]]
    IN  /\ p.calibration = b.calibration /\ s.device = "ok" /\ InTime(s.timing, t)
        /\ v # None
        /\ CASE b.channel[2] = "battery" -> v # NotFinite /\ v \in 0 .. (IF p.percent THEN 10000 ELSE 100)
             [] b.channel[2] = "payload" -> v >= 0
             [] b.channel[2] = "activity" -> v \in p.activities
             [] b.channel[2] = "zone" -> v \in p.zones \cup {""}
             [] OTHER -> TRUE

Says(batch, b, v) ==
    \/ \E k \in CellReadings(batch, b) :
           GoodCell(batch.cells[k], b, batch.t) /\ SaysBalls(batch.cells[k], b, v)
    \/ \E jk \in InputReadings(batch, b) :
           LET i == batch.snapshots[jk[1]].inputs[jk[2]]
           IN  /\ GoodInput(batch.snapshots[jk[1]], i, b, batch.t)
               /\ v = (IF b.kind = "boolean" THEN AssertedContact(i)
                       ELSE IF AssertedContact(i) THEN 1 ELSE 0)
    \/ \E k \in RobotReadings(batch, b) :
           LET s == batch.robots[k]
           IN  /\ GoodField(s, b, batch.t)
               /\ v = (IF b.channel[2] = "battery" /\ deployment.robots[s.robot].percent
                       THEN s.battery \div 100 ELSE s[b.channel[2]])

\* What speaks for a channel is no older than its profile and the runtime
\* allow.
Sources(batch, b) ==
    {<<batch.cells[k].timing, deployment.cells[b.sensor]>> : k \in CellReadings(batch, b)}
        \cup {<<batch.snapshots[jk[1]].timing, deployment.inputs[b.sensor]>> :
                 jk \in InputReadings(batch, b)}
        \cup {<<batch.robots[k].timing, deployment.robots[b.channel[1]]>> :
                 k \in RobotReadings(batch, b)}
Within(timing, age, t) == t - timing.sample <= age
Fresh(batch, b) ==
    \A s \in Sources(batch, b) :
        s[2] # None /\ Within(s[1], s[2].staleAfter, batch.t) /\ Within(s[1], MaxAge, batch.t)

\* The values a reading could possibly have.
Possible(batch, b) ==
    CASE b.kind \in {"count", "quantity"} -> 0 .. 2 * TotalBalls
      [] b.kind = "boolean" -> BOOLEAN
      [] b.kind = "fraction" -> 0 .. 100
      [] OTHER -> UNION {{batch.robots[k][b.channel[2]]} : k \in RobotReadings(batch, b)}

-----------------------------------------------------------------------------
\* Numbers, verdicts and fates are what the code can hold, and a decision is
\* due only on what was delivered.
TypeOK ==
    /\ feed.taken \in 0 .. Len(batches) /\ feed.next \in 0 .. Len(batches) /\ feed.open \in BOOLEAN
    /\ verdict \in Verdicts
    /\ checkpoint.last \in {None} \cup 0 .. Len(batches)
    /\ \A k \in DOMAIN batches : fate[k] \in {"waiting", "acknowledged", "rejected"}
    /\ up \in BOOLEAN /\ (~up => delivery = None)
    /\ feed.open => delivery # None /\ delivery.seq = feed.next

\* A commissioned channel never disappears: it has a value that the report
\* lists as accepted, or a gap that the report gives a reason for
\* (convert, _reconcile_silent_devices).
EveryChannelIsAnswered ==
    delivery # None =>
        \A b \in Bindings :
            LET report == frames[delivery.batch]
                o == report.frame.obs
            IN  /\ b.channel \in DOMAIN o
                /\ b.channel \in report.accepted <=> o[b.channel].status # "missing"
                /\ o[b.channel].status = "missing" =>
                       \E r \in report.rejected : r[2] = b.channel

\* A channel has a value exactly when one reading speaks for it, and only
\* one, and that reading is sound; the value is what the reading says.
\* Whatever the order of the samples, contradicting or repeated readings
\* leave nothing behind (the three adapters, emit and demote_to_missing).
OneSoundReadingOrNone ==
    delivery # None =>
        \A b \in Bindings :
            LET o == TheFrame.obs[b.channel]
                batch == batches[delivery.batch]
            IN  IF o.status # "missing"
                THEN Readings(batch, b) = 1 /\ Says(batch, b, o.value)
                ELSE Readings(batch, b) = 1 => ~\E v \in Possible(batch, b) : Says(batch, b, v)

\* A channel is said to be silent only if no reading of the batch was about
\* it (_reconcile_silent_devices: no NO_SAMPLE for what was rejected).
SilenceIsNotBlamed ==
    delivery # None =>
        \A b \in Bindings :
            <<b.sensor, b.channel, "no_sample">> \in frames[delivery.batch].rejected =>
                /\ Readings(batches[delivery.batch], b) = 0
                /\ \A k \in DOMAIN batches[delivery.batch].cells :
                       batches[delivery.batch].cells[k].sensor # b.sensor

\* No default of the assembler is ever published as a fact: everything in a
\* published state was sensed by one sound reading, every commissioned channel
\* and the upstream inputs were as recent as the channel's profile and the
\* runtime's limit ask for, and the balls add up (QualityGate's docstring;
\* the adapters' stale marks, _validate_inputs, _apply_quality_gate).
PublishedIsSensed ==
    \A i \in DOMAIN published :
        LET s == published[i].state
            batch == batches[published[i].batch]
            Sensed(ch, v) ==
                \E b \in Bindings : /\ b.channel = ch /\ Readings(batch, b) = 1
                                    /\ Says(batch, b, v)
        IN  /\ Sensed(CleanCount, s.clean) /\ Sensed(CleanSensed, s.sensed)
            /\ Sensed(ZoneOpen, s.zone.open)
            /\ \A r \in Robots :
                   /\ Sensed(<<r, "activity">>, s.robots[r].activity)
                   /\ Sensed(<<r, "battery">>, s.robots[r].battery)
                   /\ Sensed(<<r, "payload">>, s.robots[r].payload)
                   /\ Sensed(<<r, "estop">>, s.robots[r].estop)
            /\ \A b \in Bindings : Fresh(batch, b)
            /\ s.clean + s.zone.balls + InTransit(s) = TotalBalls
            /\ batch.upstream.status = "ok"
            /\ InTime(batch.upstream, batch.t) /\ Within(batch.upstream, MaxAge, batch.t)

\* A decision consumes the batch its caller was given, however often the
\* caller repeats it (feed.py: a duplicated decision never consumes the
\* batch that inherited the rejected position).
ConsumesWhatItSaw ==
    \A k \in DOMAIN batches : fate'[k] # fate[k] => delivery # None /\ delivery.batch = k
DecisionConsumesWhatItSaw == [][ConsumesWhatItSaw]_vars

\* Over all lives of the feed every batch is published at most once, in
\* order and under consecutive numbers, and a published one is never
\* discarded.
NoBatchTwice ==
    \A i \in DOMAIN published :
        /\ published[i].seq = i - 1
        /\ fate[published[i].batch] # "rejected"
        /\ i > 1 => published[i - 1].batch < published[i].batch

\* What the feed says of a site is what its devices said, once: every gap is named, and no
\* default, contradiction or stale reading becomes a fact.
FeedIsHonest ==
    TypeOK /\ EveryChannelIsAnswered /\ OneSoundReadingOrNone /\ SilenceIsNotBlamed
    /\ PublishedIsSensed /\ NoBatchTwice

\* As long as no restart begins at the beginning and every frame can be
\* assembled, every batch is published or discarded.
EveryFrameAssembles == \A k \in DOMAIN batches : Assembles(frames[k].frame)
AllDecided == startedOver \/ \A k \in DOMAIN batches : Consumed(k)
EveryBatchIsDecided == []<>(EveryFrameAssembles => AllDecided)
=============================================================================
