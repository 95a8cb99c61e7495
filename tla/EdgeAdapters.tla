---------------------------- MODULE EdgeAdapters ----------------------------
(***************************************************************************)
(* The edge observation kit: one batch of raw device samples becomes one   *)
(* observation for every commissioned channel and a report that says what  *)
(* was accepted, rejected and left unmapped.                               *)
(*                                                                         *)
(* A deployment d is a record of what was commissioned (bindings, in the   *)
(* order of their sensor ids) and of the declared device profiles; a       *)
(* profile that is not declared is None.  The collector c is the state     *)
(* the adapters thread through one batch:                                  *)
(*   obs       the observation of each channel claimed so far              *)
(*   accepted  the channels published with a value                         *)
(*   rejected  <<sensor, channel, code>> of every rejection                *)
(*   unmapped  <<sensor, field>> of every field without a channel          *)
(* Masses and batteries are integers: a ball weighs MassPerBall units, a   *)
(* battery is read in hundredths of its declared unit.  Of the nine fields *)
(* of a robot the five kept stand for the kinds of check there are: health *)
(* and location are checked like activity, destination like zone,          *)
(* awaiting_human like estop.                                              *)
(***************************************************************************)
EXTENDS Integers, Sequences, SequencesExt

CONSTANTS None, NotFinite,
          SampleOrder      \* the ids of sensors, devices and robots, sorted

ChannelKind == {"count", "quantity", "fraction", "boolean", "label"}
RobotFields == <<"activity", "battery", "estop", "payload", "zone">>
RobotChannel(robot, field) == <<robot, field>>

NoReport(batch) ==
    [t |-> batch.t, obs |-> <<>>, accepted |-> {}, rejected |-> {}, unmapped |-> {}]

BySensor(d, sensor) == {b \in ToSet(d.bindings) : b.sensor = sensor}
ByChannel(d, channel) == {b \in ToSet(d.bindings) : b.channel = channel}
The(S) == CHOOSE x \in S : TRUE

Reject(c, sensor, channel, code) ==
    [c EXCEPT !.rejected = @ \cup {<<sensor, channel, code>>}]
RejectedChannels(c) == {r[2] : r \in c.rejected} \ {None}
Unmap(c, sensor, field) == [c EXCEPT !.unmapped = @ \cup {<<sensor, field>>}]

\* A conflict invalidates the value already published for a channel.
DemoteToMissing(c, channel) ==
    IF channel \notin DOMAIN c.obs THEN c
    ELSE [c EXCEPT !.obs[channel] = [@ EXCEPT !.status = "missing", !.value = None],
                   !.accepted = @ \ {channel}]

Observed(c, b, observation) ==
    [c EXCEPT !.obs = [ch \in DOMAIN @ \cup {b.channel} |->
                         IF ch = b.channel THEN observation ELSE @[ch]],
              !.accepted = IF observation.status = "missing" THEN @ ELSE @ \cup {b.channel}]

EmitTheLast(c, b, value, status, timing) ==
    Observed(c, b, [value |-> value, status |-> status, sample |-> timing.sample,
                    available |-> timing.available])
Emit(c, b, value, status, timing) ==
    IF b.channel \in DOMAIN c.obs
    THEN DemoteToMissing(Reject(c, b.sensor, b.channel, "duplicate_channel"), b.channel)
    ELSE Observed(c, b, [value |-> value, status |-> status, sample |-> timing.sample,
                         available |-> timing.available])

EmitMissing(c, b, code, timing) ==
    Emit(Reject(c, b.sensor, b.channel, code), b, None, "missing", timing)

\* Either what is wrong, published as a gap, or the value.
Publish(c, b, problem, value, stale, timing) ==
    IF problem # None THEN EmitMissing(c, b, problem, timing)
    ELSE Emit(c, b, value, IF stale THEN "stale" ELSE "ok", timing)

-----------------------------------------------------------------------------
TimingProblem(timing, t) ==
    IF timing.sample > t THEN "future_sample"
    ELSE IF timing.available > t THEN "inconsistent_timestamps" ELSE None
Stale(timing, t, p) == t - timing.sample > p.staleAfter

DeviceProblem(status) ==
    CASE status = "ok" -> None
      [] status = "fault" -> "device_fault"
      [] status = "no_data" -> "device_reported_missing"
      [] OTHER -> "unknown_value"

-----------------------------------------------------------------------------
\* The load cell.

HalfToEven(n, k) ==
    LET q == n \div k
        r == 2 * (n % k)
    IN  IF r > k \/ (r = k /\ q % 2 = 1) THEN q + 1 ELSE q

\* A counted channel is rounded to whole balls, a measured one is not; the
\* measure is kept in the units of mass.
Balls(s, b, p) ==
    IF b.kind = "count" THEN HalfToEven(s.raw - p.tare, p.massPerBall) ELSE s.raw - p.tare
UpperLimit(b, p) == IF b.kind = "count" THEN p.capacity ELSE p.capacity * p.massPerBall

CalibrationProblem(s, b, p) ==
    IF p = None THEN "calibration_missing"
    ELSE IF p.calibration # b.calibration THEN "calibration_mismatch"
    ELSE IF b.required /\ s.calibration = None THEN "calibration_missing"
    ELSE IF b.required /\ s.calibration # b.calibration THEN "calibration_mismatch"
    ELSE IF ~b.required /\ s.calibration # None THEN "calibration_mismatch"
    ELSE None

MassProblem(s, b, p) ==
    IF s.raw = None THEN "device_reported_missing"
    ELSE IF s.unit # p.unit THEN "unsupported_unit"
    ELSE IF s.raw = NotFinite THEN "non_finite_value"
    ELSE IF s.raw - p.tare < 0 \/ Balls(s, b, p) > UpperLimit(b, p) THEN "value_out_of_range"
    ELSE None

CellProblem(s, b, p, t) ==
    IF CalibrationProblem(s, b, p) # None THEN CalibrationProblem(s, b, p)
    ELSE IF TimingProblem(s.timing, t) # None THEN TimingProblem(s.timing, t)
    ELSE IF DeviceProblem(s.device) # None THEN DeviceProblem(s.device)
    ELSE MassProblem(s, b, p)

ConvertCell(d, c0, s) ==
    LET c == IF s.diagnostic THEN Unmap(c0, s.sensor, "diagnostic_code") ELSE c0
        b == The(BySensor(d, s.sensor))
        p == d.cells[s.sensor]
        problem == CellProblem(s, b, p, c.t)
    IN  IF BySensor(d, s.sensor) = {} THEN Reject(c, s.sensor, None, "no_binding")
        ELSE IF b.kind \notin {"count", "quantity"} THEN
             Reject(c, s.sensor, b.channel, "unsupported_channel")
        ELSE IF b.unit # "balls" THEN Reject(c, s.sensor, b.channel, "unsupported_unit")
        ELSE Publish(c, b, problem, IF problem = None THEN Balls(s, b, p) ELSE None,
                     problem = None /\ Stale(s.timing, c.t, p), s.timing)

-----------------------------------------------------------------------------
\* Digital inputs.

LogicalState(i, p) ==
    IF i.state = None \/ p = None THEN None ELSE IF p.activeLow THEN ~i.state ELSE i.state

\* The names of the inputs that contradict each other.
Impossible(d, snapshot) ==
    LET dev == d.devices[snapshot.device]
        asserted(name) == \E k \in DOMAIN snapshot.inputs :
            LET i == snapshot.inputs[k]
            IN  i.name = name /\ LogicalState(i, d.inputs[i.sensor]) = TRUE
    IN  UNION {{pair[1], pair[2]} : pair \in {q \in dev.exclusive : asserted(q[1]) /\ asserted(q[2])}}

RejectImpossible(d, c, snapshot) ==
    [c EXCEPT !.rejected = @ \cup {<<snapshot.inputs[k].sensor, None, "impossible_state">> :
        k \in {j \in DOMAIN snapshot.inputs :
                 snapshot.inputs[j].name \in Impossible(d, snapshot)}}]

InputProblem(d, b, p, snapshot, i, t) ==
    IF p = None THEN "calibration_missing"
    ELSE IF p.calibration # b.calibration THEN "calibration_mismatch"
    ELSE IF b.kind \notin {"boolean", "count"} THEN "unsupported_channel"
    ELSE IF b.unit # (IF b.kind = "boolean" THEN "1" ELSE "count") THEN "unsupported_unit"
    ELSE IF b.required THEN "calibration_missing"
    ELSE IF TimingProblem(snapshot.timing, t) # None THEN TimingProblem(snapshot.timing, t)
    ELSE IF DeviceProblem(snapshot.status) # None THEN DeviceProblem(snapshot.status)
    ELSE IF i.name \in Impossible(d, snapshot) THEN "impossible_state"
    ELSE IF i.state = None THEN "device_reported_missing" ELSE None

InputValue(i, b, p) ==
    LET on == LogicalState(i, p)
    IN  IF b.kind = "boolean" THEN on ELSE IF on THEN 1 ELSE 0

ConvertInput(d, c, snapshot, k) ==
    LET i == snapshot.inputs[k]
        b == The(BySensor(d, i.sensor))
        p == d.inputs[i.sensor]
        problem == InputProblem(d, b, p, snapshot, i, c.t)
        before == {snapshot.inputs[j].sensor : j \in 1 .. k - 1}
    IN  IF BySensor(d, i.sensor) = {} THEN
             IF i.name \in d.devices[snapshot.device].rawOnly THEN Unmap(c, i.sensor, i.name)
             ELSE Reject(c, i.sensor, None, "no_binding")
        ELSE IF i.sensor \in before THEN
             DemoteToMissing(Reject(c, i.sensor, b.channel, "duplicate_channel"), b.channel)
        ELSE Publish(c, b, problem, IF problem = None THEN InputValue(i, b, p) ELSE None,
                     problem = None /\ Stale(snapshot.timing, c.t, p), snapshot.timing)

ConvertSnapshot(d, c, snapshot) ==
    IF d.devices[snapshot.device] = None
    THEN Reject(c, snapshot.device, None, "unknown_source")
    ELSE FoldLeft(LAMBDA cc, k : ConvertInput(d, cc, snapshot, k),
                  RejectImpossible(d, c, snapshot),
                  [k \in 1 .. Len(snapshot.inputs) |-> k])

-----------------------------------------------------------------------------
\* Robots.

Vocabulary(p, field) == IF field = "activity" THEN p.activities ELSE p.zones \cup {""}

FieldProblem(s, p, field) ==
    LET v == s[field]
    IN  IF v = None THEN "device_reported_missing"
        ELSE IF field = "battery" THEN
             IF v = NotFinite THEN "non_finite_value"
             ELSE IF v < 0 \/ v > (IF p.percent THEN 10000 ELSE 100) THEN "value_out_of_range"
             ELSE None
        ELSE IF field = "payload" THEN IF v < 0 THEN "value_out_of_range" ELSE None
        ELSE IF field = "estop" \/ v \in Vocabulary(p, field) THEN None
        ELSE "unknown_value"

FieldValue(s, p, field) ==
    IF field = "battery" /\ p.percent THEN s.battery \div 100 ELSE s[field]

ConvertField(d, c, s, field) ==
    LET channel == RobotChannel(s.robot, field)
        b == The(ByChannel(d, channel))
        p == d.robots[s.robot]
        problem ==
            IF b.calibration # p.calibration THEN "calibration_mismatch"
            ELSE IF TimingProblem(s.timing, c.t) # None THEN TimingProblem(s.timing, c.t)
            ELSE IF DeviceProblem(s.device) # None THEN DeviceProblem(s.device)
            ELSE FieldProblem(s, p, field)
    IN  IF ByChannel(d, channel) = {} THEN Unmap(c, s.robot, field)
        ELSE Publish(c, b, problem, IF problem = None THEN FieldValue(s, p, field) ELSE None,
                     Stale(s.timing, c.t, p), s.timing)

ReportOther(d, c, s) ==
    LET withFault == IF s.fault THEN Unmap(c, s.robot, "fault_code") ELSE c
    IN  IF s.frame = None THEN withFault
        ELSE IF s.frame # d.frame
             THEN Reject(withFault, s.robot, None, "coordinate_frame_mismatch")
             ELSE Unmap(withFault, s.robot, "coordinate_frame")

ConvertRobot(d, c, s) ==
    IF d.robots[s.robot] = None THEN Reject(c, s.robot, None, "identity_mismatch")
    ELSE FoldLeft(LAMBDA cc, field : ConvertField(d, cc, s, field), ReportOther(d, c, s), RobotFields)

-----------------------------------------------------------------------------
\* The kit: the samples in the order of their ids, then a gap for every
\* commissioned channel that nothing has claimed.

Sorted(samples, IdOf(_)) ==
    FoldLeft(LAMBDA acc, id : acc \o SelectSeq(samples, LAMBDA s : IdOf(s) = id),
             <<>>, SampleOrder)

\* A channel whose sample was rejected is not said to be silent.
Reconcile(d, c, b) ==
    LET now == [sample |-> c.t, available |-> c.t]
    IN  IF b.channel \in DOMAIN c.obs THEN c
        ELSE IF b.channel \in RejectedChannels(c) THEN Emit(c, b, None, "missing", now)
        ELSE EmitMissing(c, b, "no_sample", now)

Convert(d, batch) ==
    LET cells == FoldLeft(LAMBDA c, s : ConvertCell(d, c, s), NoReport(batch),
                          Sorted(batch.cells, LAMBDA s : s.sensor))
        inputs == FoldLeft(LAMBDA c, s : ConvertSnapshot(d, c, s), cells,
                           Sorted(batch.snapshots, LAMBDA s : s.device))
        robots == FoldLeft(LAMBDA c, s : ConvertRobot(d, c, s), inputs,
                           Sorted(batch.robots, LAMBDA s : s.robot))
    IN  FoldLeft(LAMBDA c, b : Reconcile(d, c, b), robots, d.bindings)
=============================================================================
