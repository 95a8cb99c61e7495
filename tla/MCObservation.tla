---------------------------- MODULE MCObservation ----------------------------
(***************************************************************************)
(* One dispenser with two load cells, one zone with a gate contact, one    *)
(* robot.  Either any single batch that differs from a good one in one     *)
(* sample, under the good deployment or one with a single mistake, or a    *)
(* few batches in a row under the good deployment.                         *)
(***************************************************************************)
EXTENDS FacilityAssembly

Bind(sensor, channel, kind, unit, required) ==
    [sensor |-> sensor, channel |-> channel, kind |-> kind, unit |-> unit,
     calibration |-> IF required THEN "cal" ELSE "none", required |-> required]

RobotBind(field, kind) == Bind(field, <<"R", field>>, kind, "1", FALSE)

Good ==
    [bindings |-> <<Bind("cell1", CleanCount, "count", "balls", TRUE),
                    Bind("cell2", CleanSensed, "quantity", "balls", TRUE),
                    RobotBind("activity", "label"), RobotBind("battery", "fraction"),
                    RobotBind("estop", "boolean"),
                    Bind("gate", ZoneOpen, "boolean", "1", FALSE),
                    [RobotBind("payload", "count") EXCEPT !.unit = "balls"],
                    RobotBind("zone", "label")>>,
     cells |-> [s \in {"cell1", "cell2", "gate", "ghost"} |->
                  IF s \in {"cell1", "cell2"}
                  THEN [calibration |-> "cal", staleAfter |-> 1, unit |-> "kg", tare |-> 1,
                        massPerBall |-> 2, capacity |-> 2]
                  ELSE None],
     devices |-> [d \in {"io", "other"} |->
                    IF d = "io" THEN [exclusive |-> {<<"open", "closed">>}, rawOnly |-> {"closed"}]
                    ELSE None],
     inputs |-> [s \in {"gate", "gate2", "cell1"} |->
                   IF s = "cell1" THEN None
                   ELSE [calibration |-> "none", staleAfter |-> 1, activeLow |-> s = "gate2"]],
     robots |-> [r \in {"R", "stranger"} |->
                   IF r = "R"
                   THEN [calibration |-> "none", staleAfter |-> 1, percent |-> FALSE,
                         activities |-> {"idle", "working", "dancing"}, zones |-> {"Z"}]
                   ELSE None],
     frame |-> "map"]

Rebound(n, b) == [Good EXCEPT !.bindings[n] = b]
CellMistakes ==
    {Rebound(1, Bind("cell1", CleanCount, "count", "balls", FALSE)),
     Rebound(1, Bind("cell1", CleanCount, "count", "count", TRUE)),
     Rebound(1, Bind("cell1", CleanCount, "boolean", "balls", TRUE)),
     [Good EXCEPT !.cells["cell1"] = None],
     [Good EXCEPT !.cells["cell1"].calibration = "old"]}
InputMistakes ==
    {Rebound(6, Bind("gate", ZoneOpen, "count", "count", FALSE)),
     Rebound(6, Bind("gate", ZoneOpen, "boolean", "count", FALSE)),
     Rebound(6, Bind("gate", ZoneOpen, "label", "1", FALSE)),
     Rebound(6, Bind("gate", ZoneOpen, "boolean", "1", TRUE)),
     [Good EXCEPT !.devices["io"] = None],
     [Good EXCEPT !.inputs["gate"] = None],
     [Good EXCEPT !.inputs["gate2"] = None],
     [Good EXCEPT !.inputs["gate"].calibration = "old"],
     [Good EXCEPT !.inputs["gate"].activeLow = TRUE]}
RobotMistakes ==
    {[Good EXCEPT !.bindings = SubSeq(@, 1, 6) \o <<Good.bindings[8]>>],
     [Good EXCEPT !.robots["R"] = None],
     [Good EXCEPT !.robots["R"].calibration = "old"],
     [Good EXCEPT !.robots["R"].percent = TRUE]}

-----------------------------------------------------------------------------
At(sample, available) == [sample |-> sample, available |-> available]

Cell(sensor, timing, raw, unit, device, calibration, diagnostic) ==
    [sensor |-> sensor, timing |-> timing, raw |-> raw, unit |-> unit, device |-> device,
     calibration |-> calibration, diagnostic |-> diagnostic]
Contact(sensor, name, state) == [sensor |-> sensor, name |-> name, state |-> state]

GoodBatch(t) ==
    [t |-> t,
     cells |-> <<Cell("cell1", At(t, t), 3, "kg", "ok", "cal", FALSE),
                 Cell("cell2", At(t - 1, t), 3, "kg", "ok", "cal", FALSE)>>,
     snapshots |-> <<[device |-> "io", timing |-> At(t, t), status |-> "ok",
                      inputs |-> <<Contact("gate", "open", TRUE), Contact("gate2", "closed", TRUE)>>]>>,
     robots |-> <<[robot |-> "R", timing |-> At(t, t), device |-> "ok", battery |-> 100,
                   payload |-> 0, activity |-> "idle", zone |-> "", estop |-> FALSE,
                   fault |-> FALSE, frame |-> None]>>,
     zoneBalls |-> 1,
     upstream |-> [status |-> "ok", sample |-> t, available |-> t]]

T == 5
Timings == {At(T, T), At(T - 2, T), At(T - 4, T), At(T + 1, T + 1), At(T, T + 1)}
Statuses == {"ok", "fault", "no_data", "odd"}

RawValues == {None, NotFinite, 0, 1, 2, 3, 4, 6, 7}
CellSamples ==
    {Cell("cell1", timing, raw, "kg", "ok", "cal", raw = 0) : timing \in Timings, raw \in RawValues}
        \cup {Cell("cell1", At(T, T), raw, unit, device, calibration, raw = 0) :
                 raw \in RawValues, unit \in {"kg", "lb"}, device \in Statuses,
                 calibration \in {None, "cal", "old"}}
        \cup {Cell("cell1", timing, 3, unit, device, calibration, FALSE) :
                 timing \in Timings, unit \in {"kg", "lb"}, device \in Statuses,
                 calibration \in {None, "cal", "old"}}
InputSeqs ==
    {<<Contact("gate", "open", a), Contact("gate2", "closed", b)>> : a, b \in {TRUE, FALSE, None}}
        \cup {<<Contact("gate", "open", a), Contact("gate", "closed", b)>> : a, b \in BOOLEAN}
        \cup {<<Contact("gate", "open", a)>> : a \in BOOLEAN}
        \cup {<<Contact("gate2", "unknown", TRUE), Contact("gate", "open", TRUE)>>,
              <<Contact("cell1", "open", TRUE)>>, <<>>}
Snapshot(device, timing, status, inputs) ==
    [device |-> device, timing |-> timing, status |-> status, inputs |-> inputs]
Snapshots ==
    {Snapshot("io", timing, status, inputs) :
        timing \in Timings, status \in Statuses, inputs \in InputSeqs}
        \cup {Snapshot("other", At(T, T), status, inputs) : status \in {"ok", "odd"}, inputs \in InputSeqs}
RobotSample == GoodBatch(T).robots[1]
RobotSamples ==
    {[RobotSample EXCEPT !.battery = v] : v \in {None, NotFinite, -1, 0, 100, 200, 10000, 10100}}
        \cup {[RobotSample EXCEPT !.payload = v] : v \in {None, -1, 1}}
        \cup {[RobotSample EXCEPT !.activity = v] : v \in {None, "working", "dancing", "flying", ""}}
        \cup {[RobotSample EXCEPT !.zone = v] : v \in {None, "Z", "elsewhere"}}
        \cup {[RobotSample EXCEPT !.estop = v] : v \in {None, TRUE}}
        \cup {[RobotSample EXCEPT !.timing = v] : v \in Timings}
        \cup {[RobotSample EXCEPT !.device = v] : v \in Statuses}
        \cup {[RobotSample EXCEPT !.robot = "stranger"], [RobotSample EXCEPT !.fault = TRUE],
              [RobotSample EXCEPT !.frame = "map"], [RobotSample EXCEPT !.frame = "sea"]}

Second == Cell("cell1", At(T, T), 5, "kg", "ok", "cal", FALSE)
SingleBatches ==
    {[GoodBatch(T) EXCEPT !.cells[1] = s] : s \in CellSamples}
        \cup {[GoodBatch(T) EXCEPT !.cells = s] :
                 s \in {<<>>, GoodBatch(T).cells \o <<Second>>, <<Second>> \o GoodBatch(T).cells,
                        <<Second>> \o GoodBatch(T).cells \o <<Second>>,
                        <<[Second EXCEPT !.raw = None]>> \o GoodBatch(T).cells,
                        GoodBatch(T).cells \o <<[Second EXCEPT !.sensor = "ghost"]>>,
                        <<[Second EXCEPT !.sensor = "gate"]>> \o GoodBatch(T).cells}}
        \cup {[GoodBatch(T) EXCEPT !.snapshots = <<s>>] : s \in Snapshots}
        \cup {[GoodBatch(T) EXCEPT !.snapshots = @ \o <<s>>] :
                 s \in {x \in Snapshots : x.device = "io" /\ x.status = "ok" /\ x.timing = At(T, T)}}
        \cup {[GoodBatch(T) EXCEPT !.robots = <<s>>] : s \in RobotSamples}
        \cup {[GoodBatch(T) EXCEPT !.robots = s] :
                 s \in {<<>>, <<RobotSample, [RobotSample EXCEPT !.payload = 1]>>}}
        \cup {[GoodBatch(T) EXCEPT !.upstream = [status |-> status, sample |-> timing.sample,
                                                 available |-> timing.available]] :
                 status \in {"ok", "stale", "missing"}, timing \in Timings}

FewKinds(t) ==
    {GoodBatch(t), [GoodBatch(t) EXCEPT !.zoneBalls = 0], [GoodBatch(t) EXCEPT !.cells = Tail(@)],
     [GoodBatch(t) EXCEPT !.cells[1].timing = At(t + 1, t + 1)],
     [GoodBatch(t) EXCEPT !.robots[1].activity = "dancing"]}
Several ==
    {<<a, b, c>> : a \in FewKinds(5), b \in FewKinds(10),
                   c \in {GoodBatch(15), [GoodBatch(15) EXCEPT !.zoneBalls = 0]}}

\* With a mistake in the deployment: whatever could have been read in time from
\* the devices the mistake is about.
InTimeBatches ==
    {b \in SingleBatches : /\ \A k \in DOMAIN b.cells : /\ b.cells[k].timing.sample \in {T, T - 1}
                                                        /\ b.cells[k].device = "ok"
                                                        /\ b.cells[k].unit = "kg"
                           /\ \A k \in DOMAIN b.snapshots : /\ b.snapshots[k].timing = At(T, T)
                                                            /\ b.snapshots[k].status = "ok"
                           /\ b.upstream = GoodBatch(T).upstream}

Single(deployments, devices) ==
    {[deployment |-> d, batches |-> <<b>>, faults |-> 0] :
        d \in deployments,
        b \in {x \in InTimeBatches : \A k \in {"cells", "snapshots", "robots"} \ {devices} :
                                       x[k] = GoodBatch(T)[k]}}

MCSetups ==
    <<{[deployment |-> Good, batches |-> <<b>>, faults |-> 0] : b \in SingleBatches},
      Single(CellMistakes, "cells") \cup Single(InputMistakes, "snapshots")
          \cup Single(RobotMistakes, "robots"),
      {[deployment |-> Good, batches |-> s, faults |-> 2] : s \in Several}>>
=============================================================================
