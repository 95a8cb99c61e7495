---------------------------- MODULE PolicyReview ----------------------------
(***************************************************************************)
(* An offline review (nxt_pilot_ops/cli.py): a native capture of facility  *)
(* states is read and validated line by line, adapted to snapshots         *)
(* (adapters/facility_state.py), and every snapshot is evaluated by the    *)
(* guardian; or one live snapshot of another source is evaluated.          *)
(*                                                                         *)
(* A capture is [lines, declared, written, sensed]: what is in the file,   *)
(* the scenario, the seed and the number of records its sidecar declares,  *)
(* what the recorder wrote, and whether the caller declares the first      *)
(* sensor value valid.  lines and written differ when the file was cut,    *)
(* spliced, repeated or altered after the recorder.  A record says of what *)
(* scenario and seed it is, not of which run.                              *)
(***************************************************************************)
EXTENDS Guardian

CONSTANTS
    Captures,       \* the captures a review may be given
    LiveSnapshots,  \* the snapshots another source may hand over
    Day,            \* the last instant of a day
    FullBattery     \* battery_frac = 1, as a level

VARIABLES
    stage,      \* "reading", "reviewing", "refused" or "done"
    capture,    \* the capture under review, or None
    records,    \* the lines accepted so far
    pending,    \* the snapshots not evaluated yet
    evaluation  \* the last evaluation, or None

vars == <<stage, capture, records, pending, evaluation>>

-----------------------------------------------------------------------------
(* The adapter.                                                            *)

ActivityStatus ==
    [idle |-> "available", traveling |-> "busy", collecting |-> "busy",
     queued_handoff |-> "busy", unloading |-> "busy", queued_charger |-> "charging",
     charging |-> "charging", paused |-> "paused", failed |-> "faulted",
     emergency_stopped |-> "estopped", awaiting_human |-> "awaiting_human"]

HealthValues == {"ok", "degraded", "failed"}

\* The most restrictive reading wins; a degraded robot is left out.
MapStatus(r) ==
    IF r.estop \/ r.activity = "emergency_stopped" THEN "estopped"
    ELSE IF r.health = "failed" \/ r.activity = "failed" THEN "faulted"
    ELSE IF r.awaiting \/ r.activity = "awaiting_human" THEN "awaiting_human"
    ELSE IF r.health = "degraded" THEN "offline"
    ELSE ActivityStatus[r.activity]

\* What a facility state does not say of a robot stays unknown.
AdaptRobot(r) ==
    [id |-> r.id, status |-> MapStatus(r), battery |-> r.battery, yield |-> None, eta |-> None,
     capabilities |-> None, washing |-> None, fault |-> None]

UnavailableFacts ==
    {"committed inbound batch ETAs", "current demand rate", "global collection permission",
     "robot capability, ETA, expected yield, and washing requirement", "washer availability"}

BuildSnapshot(values, sensedValid) ==
    [observedAt |-> values.t, clean |-> values.clean,
     sensed |-> IF sensedValid THEN values.sensed ELSE None,
     current |-> None, forecast |-> values.forecast, bucket |-> values.bucket,
     minutesToClose |-> values.close, rangeOpen |-> values.open,
     collection |-> None, blockReason |-> None, washer |-> None, inbound |-> {},
     robots |-> {AdaptRobot(r) : r \in values.robots},
     missing |-> UnavailableFacts \union (IF sensedValid THEN {} ELSE {"clean_sensed"})]

RobotRecordAccepted(r) ==
    r.activity \in DOMAIN ActivityStatus /\ r.health \in HealthValues /\ r.battery <= FullBattery

\* Every ball is somewhere, and the record knows it.
Conserved(line) ==
    /\ line.conserved
    /\ line.clean + line.wash + line.dirty + line.field + line.transit = line.total

RecordAccepted(line) ==
    /\ Conserved(line)
    /\ line.wip = line.wash
    /\ line.forecast # << >> /\ line.bucket >= 1
    /\ line.t <= Day /\ line.minute = line.t
    /\ \A r \in line.robots : RobotRecordAccepted(r)

\* A later record than the one before it, of the declared scenario and seed.
SameScenario(line) == line.scenario = capture.declared.scenario /\ line.seed = capture.declared.seed

\* A plausible slip: a record may have the time of the one before it.
FollowsOrRepeats(line) ==
    (records # << >> => line.t >= Last(records).t) /\ SameScenario(line)

Follows(line) ==
    (records # << >> => line.t > Last(records).t) /\ SameScenario(line)

MetaAccepted(declared) == declared.schema = "v1" /\ declared.n >= 1

-----------------------------------------------------------------------------
TypeOK ==
    /\ stage \in {"reading", "reviewing", "refused", "done"}
    /\ capture \in Captures \union {None}
    /\ capture = None => records = << >>
    /\ Len(pending) <= Len(records) + 1
    /\ \A i \in DOMAIN pending : SnapshotAccepted(pending[i])
    /\ evaluation # None => /\ evaluation.verdict \in {"no_action", "recommend"}
                            /\ \A c \in evaluation.trace.candidates : c.robot.status \in RobotStatus

Init ==
    /\ records = << >> /\ evaluation = None
    /\ \/ /\ capture \in Captures
          /\ stage = "reading" /\ pending = << >>
       \/ /\ capture = None /\ stage = "reviewing"
          /\ \E s \in LiveSnapshots : SnapshotAccepted(s) /\ pending = <<s>>

Unread == SubSeq(capture.lines, Len(records) + 1, Len(capture.lines))

\* The sidecar and then one line after another; the first line at fault ends
\* the review.
ReadRecord ==
    /\ stage = "reading" /\ MetaAccepted(capture.declared)
    /\ Unread # << >> /\ RecordAccepted(Head(Unread)) /\ Follows(Head(Unread))
    /\ records' = Append(records, Head(Unread))
    /\ UNCHANGED <<stage, capture, pending, evaluation>>

Refuse ==
    /\ stage = "reading"
    /\ \/ ~MetaAccepted(capture.declared)
       \/ Unread # << >> /\ ~ (RecordAccepted(Head(Unread)) /\ Follows(Head(Unread)))
       \/ Unread = << >> /\ Len(records) # capture.declared.n
    /\ stage' = "refused"
    /\ UNCHANGED <<capture, records, pending, evaluation>>

\* All lines are in and there are as many as declared.  Only the first may
\* precede the first sensor value.
Adapt ==
    /\ stage = "reading" /\ MetaAccepted(capture.declared)
    /\ Unread = << >> /\ Len(records) = capture.declared.n
    /\ pending' = [i \in DOMAIN records |-> BuildSnapshot(records[i], i > 1 \/ capture.sensed)]
    /\ stage' = "reviewing"
    /\ UNCHANGED <<capture, records, evaluation>>

EvaluateNext ==
    /\ stage = "reviewing" /\ pending # << >>
    /\ evaluation' = Evaluate(Head(pending))
    /\ pending' = Tail(pending)
    /\ stage' = IF Len(pending) = 1 THEN "done" ELSE "reviewing"
    /\ UNCHANGED <<capture, records>>

Next == ReadRecord \/ Refuse \/ Adapt \/ EvaluateNext

Spec == Init /\ [][Next]_vars

-----------------------------------------------------------------------------
(* A second definition of the stockout: tick by tick.                      *)

RateAt(demand, t) == demand.rates[Least(t \div demand.bucket, Len(demand.rates) - 1) + 1]

StockAt(stock, demand, batches, t) ==
    stock + MapThenSumSet(LAMBDA b : b.balls, {b \in batches : b.eta <= t})
          - MapThenSumSet(LAMBDA u : RateAt(demand, u), 0..(t - 1))

FirstEmpty(stock, demand, batches) ==
    LET empty == {t \in 0..demand.horizon :
                    /\ StockAt(stock, demand, batches, t) = 0
                    /\ \/ t > 0 /\ RateAt(demand, t - 1) > 0
                       \/ t < demand.horizon /\ RateAt(demand, t) > 0}
    IN IF empty = {} THEN None ELSE Min(empty)

EmptyWith(trace, r) ==
    FirstEmpty(trace.inventory, trace.demand, trace.facts.inbound \union {Counterfactual(r)})

\* The sweep over events finds the instant a tick-by-tick account finds, for
\* the stock as it is and for the stock with each candidate's delivery
\* (projection.py, project_stockout_minutes).
ProjectionIsExact ==
    evaluation # None /\ evaluation.trace.demand # None =>
      LET t == evaluation.trace IN
      /\ t.stockout = FirstEmpty(t.inventory, t.demand, t.facts.inbound)
      /\ \A c \in t.candidates :
           t.stockout # None /\ SafetyExclusions(c.robot, t.facts, t.stockout) = {} =>
             c.stockout = EmptyWith(t, c.robot)

\* The policy produces nothing its own validators refuse: an evaluation is
\* constructed for every snapshot (contracts.py, semantics.py).
ValidatorsAccept ==
    evaluation # None => /\ TraceAccepted(evaluation.trace)
                         /\ EvaluationAccepted(evaluation)

\* A dispatch is proposed only on known and favourable facts, to a robot whose
\* delivery puts the first stockout off, early enough unless it is late
\* already, and no other usable robot would put it off further.
DispatchIsJustified ==
    evaluation # None /\ evaluation.recommendation # None
      /\ evaluation.recommendation.action = "dispatch_collector" =>
        LET t == evaluation.trace
            rec == evaluation.recommendation
            chosen == (CHOOSE c \in t.candidates : c.robot.id = rec.target).robot
            gain(r) == LET e == EmptyWith(t, r) IN IF e = None THEN t.demand.horizon ELSE e
        IN /\ t.facts.rangeOpen = TRUE /\ t.facts.collection = TRUE
           /\ chosen.washing # None /\ (chosen.washing => t.facts.washer = TRUE)
           /\ chosen.status = "available" /\ chosen.battery >= MinimumBattery
           /\ chosen.eta < t.stockout /\ gain(chosen) > t.stockout
           /\ \/ rec.executeBefore + chosen.eta + SafetyBuffer <= t.facts.observedAt + t.stockout
              \/ rec.executeBefore = t.facts.observedAt
           /\ \A c \in t.candidates :
                SafetyExclusions(c.robot, t.facts, t.stockout) = {} => gain(c.robot) <= gain(chosen)

\* When an operator is asked to step in although the demand is known, no
\* usable robot would have helped: except that a stock running out exactly at
\* the horizon cannot be put off beyond it.
HelpIsNotOverlooked ==
    evaluation # None /\ evaluation.trace.stockout # None /\ evaluation.recommendation # None
      /\ evaluation.recommendation.action = "operator_intervention" =>
        LET t == evaluation.trace IN
        \A r \in t.facts.robots :
          SafetyExclusions(r, t.facts, t.stockout) = {} =>
            EmptyWith(t, r) = t.stockout \/ t.stockout = t.demand.horizon

\* Nothing the recorder wrote can be lost, repeated or moved unnoticed: a file
\* that is read to its end and holds none but the recorder's records holds all
\* of them, in their order; and none of another scenario or seed is ever among
\* the accepted (read_native_facility_state_capture).  A record of another run
\* of the same scenario and seed, alone or in the place of one that is lost, and
\* an altered record whose balls add up are accepted, and this says nothing of
\* files that hold one.
AcceptedIsComplete ==
    capture # None /\ stage \in {"reviewing", "done"} =>
        /\ ToSet(records) \subseteq ToSet(capture.written) => records = capture.written
        /\ \A i \in DOMAIN records : SameScenario(records[i])

\* What a facility state does not tell is never taken for granted: no capture
\* leads to the dispatch of a robot.
CapturesNeverDispatch ==
    capture # None /\ evaluation # None /\ evaluation.recommendation # None =>
      evaluation.recommendation.action = "operator_intervention"

\* A review can be relied on as far as its records can: none of them is missing or out of place,
\* the projection is exact, and no advice is given that the facts in them do not bear out.
ReviewIsSound ==
    TypeOK /\ ProjectionIsExact /\ ValidatorsAccept /\ DispatchIsJustified /\ HelpIsNotOverlooked
    /\ AcceptedIsComplete /\ CapturesNeverDispatch
=============================================================================
