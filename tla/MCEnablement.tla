---------------------------- MODULE MCEnablement ----------------------------
(***************************************************************************)
(* A site of one washer, charger, dispenser, station, zone and robot, four *)
(* of whose channels have sensors; and candidates that differ from it in   *)
(* one rule each.                                                          *)
(***************************************************************************)
EXTENDS Commissioning

Measured(name, unit, value) == [name |-> name, unit |-> unit, value |-> value]
Asset(id, type, capability, parameters, capacity) ==
    [id |-> id, type |-> type, capacity |-> capacity, location |-> "g",
     capabilities |-> <<[kind |-> capability, parameters |-> parameters]>>]

Calibrated(id) == [status |-> "calibrated", id |-> id, from |-> 1, until |-> 5]
NotRequired == [status |-> "not_required", id |-> NoValue, from |-> 0, until |-> 0]
Sensor(id, type, channel, asset, units, calibration) ==
    [id |-> id, type |-> type, channel |-> channel, asset |-> asset, units |-> units,
     calibration |-> calibration]

Dispenser == Channel("inventory.dispenser", NoValue, "count")
Buffer == Channel("inventory.station", "S", "buffer_balls")
ZoneOpen == Channel("zone", "Z", "is_open")
Activity == Channel("robot", "R", "activity")

Base ==
    [site |-> "site", deployment |-> "one", approved |-> 3,
     crs |-> [kind |-> "local", code |-> 0, unit |-> "m", vertical |-> "m", axes |-> "enu"],
     origin |-> <<0, 0>>,
     geometries |-> <<[id |-> "g", type |-> "polygon", points |-> << <<0, 0>>, <<2, 0>>, <<0, 2>> >>]>>,
     zones |-> <<[id |-> "Z", geometry |-> "g"]>>,
     equipment |->
        <<Asset("C", "charging_station", "robot_charging", <<Measured("nominal_voltage", "V", 48)>>,
                <<Measured("slots", "slots", 4)>>),
          Asset("D", "dispenser", "ball_dispensing", <<>>, <<Measured("capacity", "balls", 20)>>),
          Asset("S", "collection_station", "storage", <<>>, <<Measured("buffer_capacity", "balls", 8)>>),
          Asset("W", "washer", "ball_washing", <<Measured("rated_throughput", "balls/min", 4)>>,
                <<Measured("batch_capacity", "balls", 6)>>)>>,
     robots |->
        <<[id |-> "R", payload |-> <<Measured("max_payload", "balls", 6)>>, zones |-> <<"Z">>,
           chargers |-> {"C"}, electrical |-> <<Measured("nominal_voltage", "V", 48)>>,
           safety |-> <<[id |-> "s1", limit |-> Measured("minimum_commanded_speed", "m/s", 1)],
                        [id |-> "s2", limit |-> Measured("max_speed", "m/s", 2)]>>,
           capabilities |-> <<[kind |-> "emergency_stop", parameters |-> <<>>]>>]>>,
     constraints |-> <<[id |-> "k", targets |-> <<"R", "site">>, safety |-> TRUE,
                        parameters |-> <<Measured("max_speed", "m/s", 2)>>]>>,
     sensors |->
        <<Sensor("cell-1", "load_cell", Dispenser, "D", "balls", Calibrated("c1")),
          Sensor("cell-2", "load_cell", Buffer, "S", "balls", Calibrated("c2")),
          Sensor("fleet", "external_system", Activity, "R", "1", NotRequired),
          Sensor("switch", "proximity_switch", ZoneOpen, "S", "1", NotRequired)>>]

MCCandidates ==
    [base |-> Base,
     no_dispenser_count |-> [Base EXCEPT !.sensors = Tail(@)],
     other_deployment |-> [Base EXCEPT !.deployment = "two"],
     expired |-> [Base EXCEPT !.sensors[1].calibration.until = 2],
     recalibrated |-> [Base EXCEPT !.sensors[2].calibration.id = "c3"],
     twice_bound |-> [Base EXCEPT !.sensors[2].channel = Dispenser, !.sensors[2].asset = "D"],
     crossed |-> [Base EXCEPT !.geometries[1].points = << <<0, 0>>, <<2, 2>>, <<2, 0>>, <<0, 2>> >>],
     moved |-> [Base EXCEPT !.origin = <<1, 0>>],
     in_degrees |-> [Base EXCEPT !.crs = [kind |-> "epsg", code |-> 4326, unit |-> "degree",
                                            vertical |-> "m", axes |-> "lonlat"]],
     payload_by_weight |-> [Base EXCEPT !.robots[1].payload[1].unit = "kg"],
     too_slow |-> [Base EXCEPT !.robots[1].safety[2].limit.value = 0],
     no_stop |-> [Base EXCEPT !.robots[1].capabilities[1].kind = "docking"],
     two_washers |-> [Base EXCEPT !.equipment = Append(@, [Base.equipment[4] EXCEPT !.id = "W2"])],
     stray_zone |-> [Base EXCEPT !.constraints[1].targets = <<"Y">>]]

MCFixtures ==
    (SiteChannels \ {Dispenser})
    \cup {Channel("scan.zone", "Z", "balls")}
    \cup {Channel("station", "S", f) : f \in {"docked", "is_open", "queue_length"}}
    \cup {Channel("robot", "R", f) : f \in RobotFields \ {"activity"}}
MCProfiles == [s \in {"cell-1", "cell-2", "fleet", "switch"} |->
                  CASE s = "cell-1" -> "c1" [] s = "cell-2" -> "c2" [] OTHER -> "not-required"]
MCCourses ==
    LET course == [site |-> "site", deployment |-> "one", crs |-> Base.crs, origin |-> Base.origin,
                   queries |-> {"slope", "surface"}]
    IN {course, [course EXCEPT !.deployment = "two"], [course EXCEPT !.queries = {"slope"}],
        [course EXCEPT !.origin = <<1, 0>>]}
=============================================================================
