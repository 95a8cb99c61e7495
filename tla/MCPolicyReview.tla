---- MODULE MCPolicyReview ----
EXTENDS Guardian

Snapshot == [observedAt |-> 0, clean |-> 6, sensed |-> None, current |-> None, forecast |-> <<1, 2, 1>>,
             bucket |-> 4, minutesToClose |-> None, rangeOpen |-> TRUE, collection |-> TRUE,
             blockReason |-> None, washer |-> TRUE, inbound |-> {}, robots |-> {}, missing |-> {}]

Robot == [id |-> 1, status |-> "available", battery |-> 2, yield |-> 4, eta |-> 2,
          capabilities |-> {"collect"}, washing |-> FALSE, fault |-> None]

\* The shape of demand, stock and arrivals.
Projections ==
    {[Snapshot EXCEPT !.clean = clean, !.current = current, !.forecast = forecast, !.minutesToClose = close,
                      !.inbound = inbound, !.robots = {[Robot EXCEPT !.eta = eta]}] :
        clean \in {0, 4, 8}, current \in {None, 1}, forecast \in UNION {[1..n -> 0..2] : n \in 1..3},
        close \in {None, 6}, eta \in {2, 6},
        inbound \in SUBSET {[source |-> "a", eta |-> 4, balls |-> 2], [source |-> "b", eta |-> 8, balls |-> 4]}}

\* No forecast, a closed range, the end of the day, a sensed stock.
Degraded ==
    {[Snapshot EXCEPT !.forecast = None, !.bucket = None, !.current = current, !.rangeOpen = open, !.sensed = sensed,
                      !.minutesToClose = close, !.robots = {Robot}] :
        current \in {None, 0, 1, 2}, open \in {None, TRUE, FALSE}, sensed \in {None, 0, 4, 12}, close \in {None, 0, 6}}

\* What is known of the range and of a robot.
Facts ==
    {[Snapshot EXCEPT !.rangeOpen = open, !.collection = collection, !.blockReason = "storm", !.washer = washer,
        !.robots = {[id |-> 1, status |-> status, battery |-> battery, yield |-> yield, eta |-> eta,
                     capabilities |-> capabilities, washing |-> washing, fault |-> fault]}] :
        open \in {None, TRUE, FALSE}, collection \in {None, TRUE, FALSE}, washer \in {None, TRUE, FALSE},
        status \in {"available", "offline"}, battery \in {0, 1}, yield \in {None, 0, 2}, eta \in {None, 2, 8},
        capabilities \in {None, {}, {"collect"}}, washing \in {None, TRUE, FALSE}, fault \in {None, "jam"}}

\* Several robots to choose from.
Rankings ==
    {[Snapshot EXCEPT !.clean = clean,
        !.robots = {[Robot EXCEPT !.eta = a, !.yield = x], [Robot EXCEPT !.id = 2, !.eta = b, !.yield = y],
                    [Robot EXCEPT !.id = 3, !.eta = c, !.yield = z]}] :
        clean \in {4, 6, 12}, a \in {2, 4}, b \in {2, 4}, c \in {2, 4}, x \in {2, 8}, y \in {2, 8}, z \in {2, 8}}

Snapshots == Projections \union Degraded \union Facts \union Rankings

Line(t) ==
    [scenario |-> "this", seed |-> 7, t |-> t, minute |-> t, total |-> 10, clean |-> 4, wash |-> 2, wip |-> 2, dirty |-> 1, field |-> 3,
     transit |-> 0, conserved |-> TRUE, sensed |-> 6, forecast |-> <<1, 2>>, bucket |-> 4, close |-> 8, open |-> TRUE,
     robots |-> {}]
NativeRobot(activity, health, estop, awaiting) ==
    [id |-> 1, activity |-> activity, health |-> health, battery |-> 2, estop |-> estop, awaiting |-> awaiting]

Written == <<Line(0), [Line(2) EXCEPT !.clean = 2, !.field = 5], [Line(4) EXCEPT !.clean = 0, !.field = 7]>>

\* Records of other runs: of the same scenario and seed, and not.
Foreign ==
    {[Line(2) EXCEPT !.clean = 1, !.field = 6], [Line(6) EXCEPT !.clean = 1, !.field = 6],
     [Line(4) EXCEPT !.scenario = "other"], [Line(0) EXCEPT !.seed = 8]}

\* What may happen to the file after the recorder: a record is altered, or the
\* file is put together anew from the records of this run and of others.
Altered ==
    {[Written EXCEPT ![2].clean = 5], [Written EXCEPT ![3].conserved = FALSE], [Written EXCEPT ![1].wip = 0],
     [Written EXCEPT ![2].minute = 3], [Written EXCEPT ![2].forecast = <<2, 2>>], [Written EXCEPT ![1].sensed = 3],
     [Written EXCEPT ![2].clean = 5, ![2].field = 2],
     [Written EXCEPT ![2].robots = {NativeRobot("idle", "odd", FALSE, FALSE)}]}
Spliced == UNION {[1..n -> ToSet(Written) \union Foreign] : n \in 0..4}

Capture(lines, n, schema, sensed) ==
    [lines |-> lines, written |-> lines, sensed |-> sensed,
     declared |-> [schema |-> schema, scenario |-> "this", seed |-> 7, n |-> n]]

Activities ==
    {"idle", "traveling", "collecting", "queued_handoff", "unloading", "queued_charger", "charging", "paused",
     "failed", "emergency_stopped", "awaiting_human"}

RobotCaptures ==
    {Capture(<<[Line(0) EXCEPT !.robots = {NativeRobot(activity, health, estop, awaiting)}]>>, 1, "v1", sensed) :
        activity \in Activities, health \in {"ok", "degraded", "failed"}, estop \in BOOLEAN, awaiting \in BOOLEAN, sensed \in BOOLEAN}

FileCaptures ==
    {[Capture(lines, 3, schema, sensed) EXCEPT !.written = Written] :
        lines \in Altered \union {Written}, schema \in {"v1", "v2"}, sensed \in BOOLEAN}
SplicedCaptures == {[Capture(lines, 3, "v1", FALSE) EXCEPT !.written = Written] : lines \in Spliced}

AllCaptures == RobotCaptures \union FileCaptures \union SplicedCaptures
====
