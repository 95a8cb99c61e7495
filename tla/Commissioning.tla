--------------------------- MODULE Commissioning ---------------------------
(***************************************************************************)
(* The rules by which nxt_commissioning accepts a site manifest            *)
(* (validation.py and the constructors of spatial.py, equipment.py,        *)
(* sensors.py and contracts.py), and the projections that hand an accepted *)
(* manifest to the rest of the system (projections.py).                    *)
(*                                                                         *)
(* A manifest is a record of sequences of records, in the order the        *)
(* constructors sort them into.  Left out: texts, well-formed identifiers, *)
(* evidence records and heights, which no rule below relates to anything   *)
(* else.  A measurement is [name, unit, value], the value in halves so     *)
(* that a fraction exists; a channel is [family, of, field], the parts of  *)
(* its dotted name; times are integers.                                    *)
(***************************************************************************)
EXTENDS Integers, Sequences, FiniteSets, FiniteSetsExt

CONSTANT NoValue \* an absent optional value, and the outcome of a ProjectionError

Elements(s) == {s[i] : i \in DOMAIN s}
NoDuplicates(s) == Cardinality(Elements(s)) = Len(s)
Column(s, field) == [i \in DOMAIN s |-> s[i][field]]

-----------------------------------------------------------------------------
(* Measurements.                                                           *)

PositiveMeasurements ==
    {"max_speed", "min_clearance", "minimum_clearance", "emergency_stop_distance", "max_payload",
     "payload_capacity", "max_voltage"}
SignedMeasurements == {"max_temperature", "min_temperature"}

SafetyUnit ==
    [minimum_commanded_speed |-> {"m/s"}, max_speed |-> {"m/s"},
     max_slope |-> {"deg"}, max_ground_slope |-> {"deg"},
     min_clearance |-> {"m"}, minimum_clearance |-> {"m"}, emergency_stop_distance |-> {"m"},
     max_payload |-> {"balls", "kg"}, payload_capacity |-> {"balls", "kg"},
     max_temperature |-> {"C"}, min_temperature |-> {"C"}, max_voltage |-> {"V"}]

MeasurementsSound(s, positive) ==
    /\ NoDuplicates(Column(s, "name"))
    /\ positive => \A m \in Elements(s) : m.value > 0

SafetySound(m) ==
    /\ m.name \in DOMAIN SafetyUnit
    /\ m.unit \in SafetyUnit[m.name]
    /\ m.name \in PositiveMeasurements => m.value > 0
    /\ m.name \notin SignedMeasurements => m.value >= 0

\* A later measurement of the same name replaces an earlier one (by_name).
SafetyRelated(s) ==
    LET at(name) == {i \in DOMAIN s : s[i].name = name}
        last(name) == IF at(name) = {} THEN {} ELSE {s[Max(at(name))].value}
        ordered(low, high) == \A x \in last(low), y \in last(high) : x <= y
    IN ordered("minimum_commanded_speed", "max_speed") /\ ordered("min_temperature", "max_temperature")

Throughput ==
    [names |-> {"rated_throughput", "throughput_balls_per_minute", "washer_throughput_bpm"},
     units |-> {"balls/min", "balls/minute"}]
RequiredParameter ==
    [ball_washing |-> Throughput,
     robot_charging |-> [names |-> {"nominal_voltage"}, units |-> {"V"}],
     autonomous_navigation |-> [names |-> {"max_speed"}, units |-> {"m/s"}]]

Matching(s, wanted) == {i \in DOMAIN s : s[i].name \in wanted.names /\ s[i].unit \in wanted.units}

CapabilitiesSound(s, allowed) ==
    /\ s # <<>>
    /\ NoDuplicates(Column(s, "kind"))
    /\ \A c \in Elements(s) :
          /\ c.kind \in allowed
          /\ MeasurementsSound(c.parameters, FALSE)
          /\ c.kind \in DOMAIN RequiredParameter =>
                \E i \in DOMAIN c.parameters :
                    /\ Matching(c.parameters, RequiredParameter[c.kind]) = {i}
                    /\ c.parameters[i].value > 0

-----------------------------------------------------------------------------
(* Geometry.  Points are pairs of integers.                                *)

Cross(a, b, c) == (b[1] - a[1]) * (c[2] - a[2]) - (b[2] - a[2]) * (c[1] - a[1])
Orientation(a, b, c) == LET k == Cross(a, b, c) IN IF k > 0 THEN 1 ELSE IF k < 0 THEN -1 ELSE 0

Between(a, p, b) == (a <= p /\ p <= b) \/ (b <= p /\ p <= a)
PointOnSegment(a, p, b) == Between(a[1], p[1], b[1]) /\ Between(a[2], p[2], b[2])

\* A plausible slip: only proper crossings count.
SegmentsCross(a, b, c, d) ==
    Orientation(a, b, c) * Orientation(a, b, d) < 0 /\ Orientation(c, d, a) * Orientation(c, d, b) < 0

SegmentsIntersect(a, b, c, d) ==
    \/ Orientation(a, b, c) * Orientation(a, b, d) < 0 /\ Orientation(c, d, a) * Orientation(c, d, b) < 0
    \/ Orientation(a, b, c) = 0 /\ PointOnSegment(a, c, b)
    \/ Orientation(a, b, d) = 0 /\ PointOnSegment(a, d, b)
    \/ Orientation(c, d, a) = 0 /\ PointOnSegment(c, a, d)
    \/ Orientation(c, d, b) = 0 /\ PointOnSegment(c, b, d)

After(s, i) == s[(i % Len(s)) + 1]

TwiceSignedArea(s) ==
    MapThenSumSet(LAMBDA i : (s[i][1] - s[1][1]) * (After(s, i)[2] - s[1][2])
                             - (After(s, i)[1] - s[1][1]) * (s[i][2] - s[1][2]), DOMAIN s)

SelfIntersects(points) ==
    LET s == IF Len(points) > 1 /\ points[1] = points[Len(points)]
             THEN SubSeq(points, 1, Len(points) - 1) ELSE points
    IN \/ \E i \in DOMAIN s : s[i] = After(s, i)
       \/ \E i, j \in DOMAIN s :
             /\ i + 1 < j /\ ~(i = 1 /\ j = Len(s))
             /\ SegmentsIntersect(s[i], After(s, i), s[j], After(s, j))

PolygonSound(s) ==
    /\ Len(s) >= 3 /\ Cardinality(Elements(s)) >= 3
    /\ TwiceSignedArea(s) # 0
    /\ ~SelfIntersects(s)

PointSound(p, geographic) == geographic => p[1] \in -180 .. 180 /\ p[2] \in -90 .. 90

GeometrySound(g, geographic) ==
    /\ \A p \in Elements(g.points) : PointSound(p, geographic)
    /\ g.type = "point" => Len(g.points) = 1
    /\ g.type = "polyline" => Len(g.points) >= 2
    /\ g.type = "polygon" => PolygonSound(g.points)

Projected(code) == code = 3857 \/ code \in 32601 .. 32660 \/ code \in 32701 .. 32760

CrsSound(crs) ==
    /\ \/ crs.kind = "local" /\ crs.unit \in {"m", "ft"} /\ crs.axes \in {"xyz", "enu"}
       \/ crs.kind = "epsg" /\ crs.code = 4326 /\ crs.unit = "degree" /\ crs.axes = "lonlat"
       \/ crs.kind = "epsg" /\ Projected(crs.code) /\ crs.unit = "m" /\ crs.axes = "enu"
    /\ crs.vertical \in {"m", "ft"}

SpatialSound(m) ==
    LET geographic == m.crs.unit = "degree" IN
    /\ CrsSound(m.crs)
    /\ PointSound(m.origin, geographic)
    /\ NoDuplicates(Column(m.geometries, "id"))
    /\ \A g \in Elements(m.geometries) : GeometrySound(g, geographic)
    /\ NoDuplicates(Column(m.zones, "id"))
    /\ \A z \in Elements(m.zones) : z.geometry \in Elements(Column(m.geometries, "id"))

-----------------------------------------------------------------------------
(* Equipment and robots.                                                   *)

CoreCapability ==
    [washer |-> {"ball_washing"}, dispenser |-> {"ball_dispensing"},
     charging_station |-> {"robot_charging"}, collection_station |-> {"storage"},
     storage_area |-> {"storage"}, other |-> {}]
Compatible ==
    LET common == {"docking", "emergency_stop"} IN
    [washer |-> common \cup {"ball_washing", "inventory_measurement"},
     dispenser |-> common \cup {"ball_dispensing", "storage", "inventory_measurement"},
     charging_station |-> common \cup {"robot_charging"},
     collection_station |-> common \cup {"storage", "material_transport", "inventory_measurement"},
     storage_area |-> {"storage", "emergency_stop", "inventory_measurement"},
     other |-> common \cup {"ball_washing", "ball_dispensing", "robot_charging", "storage",
                            "material_transport", "autonomous_navigation", "inventory_measurement"}]
RobotCapabilities ==
    {"docking", "material_transport", "autonomous_navigation", "emergency_stop", "inventory_measurement"}

BatchSize == [names |-> {"batch_capacity", "batch_size_balls", "washer_batch_size"}, units |-> {"balls"}]
ChargingSlots == [names |-> {"charger_slots", "slot_count", "slots"}, units |-> {"count", "slots"}]
StationBuffer ==
    [names |-> {"buffer_capacity", "buffer_capacity_balls", "station_buffer_capacity"}, units |-> {"balls"}]
RequiredCapacity ==
    [washer |-> BatchSize, charging_station |-> ChargingSlots, collection_station |-> StationBuffer]

EquipmentSound(e, geometryIds) ==
    /\ CapabilitiesSound(e.capabilities, Compatible[e.type])
    /\ CoreCapability[e.type] \subseteq Elements(Column(e.capabilities, "kind"))
    /\ e.capacity # <<>> /\ MeasurementsSound(e.capacity, TRUE)
    /\ e.type \in DOMAIN RequiredCapacity => Matching(e.capacity, RequiredCapacity[e.type]) # {}
    /\ e.location \in geometryIds

PayloadNames == {"max_payload", "payload_capacity", "payload_capacity_balls"}
ElectricalUnits ==
    [nominal_voltage |-> {"V"}, max_voltage |-> {"V"}, max_current |-> {"A"}, charge_power |-> {"W", "kW"}]

RobotSound(r, zoneIds, chargers) ==
    /\ CapabilitiesSound(r.capabilities, RobotCapabilities)
    /\ "emergency_stop" \in Elements(Column(r.capabilities, "kind"))
    /\ r.payload # <<>> /\ MeasurementsSound(r.payload, TRUE)
    /\ \A p \in Elements(r.payload) : p.name \in PayloadNames /\ p.unit \in {"balls", "kg"}
    /\ r.zones # <<>> /\ NoDuplicates(r.zones) /\ Elements(r.zones) \subseteq zoneIds
    /\ r.chargers # {} /\ r.chargers \subseteq chargers
    /\ MeasurementsSound(r.electrical, TRUE)
    /\ \A q \in Elements(r.electrical) :
          q.name \in DOMAIN ElectricalUnits /\ q.unit \in ElectricalUnits[q.name]
    /\ \E q \in Elements(r.electrical) : q.name = "nominal_voltage"
    /\ r.safety # <<>> /\ NoDuplicates(Column(r.safety, "id"))
    /\ \A c \in Elements(r.safety) : SafetySound(c.limit)
    /\ SafetyRelated(Column(r.safety, "limit"))

ConstraintSound(c, targets) ==
    /\ c.targets # <<>> /\ NoDuplicates(c.targets) /\ Elements(c.targets) \subseteq targets
    /\ MeasurementsSound(c.parameters, FALSE)
    /\ c.safety => (\A p \in Elements(c.parameters) : SafetySound(p)) /\ SafetyRelated(c.parameters)

-----------------------------------------------------------------------------
(* Sensors.                                                                *)

CountSensors == {"load_cell", "rfid_reader", "camera", "external_system", "manual_input", "other"}
BooleanSensors == {"proximity_switch", "external_system", "manual_input", "other"}
SystemSensors == {"external_system", "manual_input", "other"}
ScanSensors == {"lidar", "camera", "rfid_reader", "external_system", "manual_input", "other"}
CalibratedSensors ==
    {"load_cell", "lidar", "camera", "rfid_reader", "battery_monitor", "encoder", "temperature"}

RobotFieldRule(field) ==
    CASE field = "battery_frac" -> [types |-> {"battery_monitor", "external_system", "other"}, unit |-> "1"]
      [] field = "payload_balls" -> [types |-> CountSensors, unit |-> "balls"]
      [] field \in {"estop_latched", "awaiting_human"} -> [types |-> BooleanSensors, unit |-> "1"]
      [] OTHER -> [types |-> SystemSensors, unit |-> "1"]

\* A channel of the assembly contract; those of the site, and the fields of a robot.
Channel(family, of, field) == [family |-> family, of |-> of, field |-> field]

SiteChannels ==
    {Channel("charger.site", NoValue, "queue_length"), Channel("inventory.dispenser", NoValue, "count"),
     Channel("inventory.dispenser", NoValue, "sensed"), Channel("staff.site", NoValue, "busy"),
     Channel("staff.site", NoValue, "queued"), Channel("wash.washer", NoValue, "wip")}
RobotFields ==
    {"activity", "assigned_zone", "awaiting_human", "battery_frac", "destination",
     "estop_latched", "health", "location", "payload_balls"}

\* What may feed a channel, in which unit, about which kind of asset.
ChannelRule(ch) ==
    LET rule(types, unit, about) == [types |-> types, unit |-> unit, about |-> about] IN
    CASE ch.family = "inventory.dispenser" -> rule(CountSensors, "balls", "dispenser")
      [] ch.family = "wash.washer" -> rule(CountSensors, "balls", "washer")
      [] ch.family = "charger.site" -> rule(CountSensors, "count", "charging_station")
      [] ch.family = "staff.site" -> rule(SystemSensors, "count", "site")
      [] ch.family = "inventory.station" -> rule(CountSensors, "balls", "collection_station")
      [] ch.family = "scan.zone" -> rule(ScanSensors, "balls", "zone")
      [] ch.family = "zone" -> rule(BooleanSensors, "1", "zone")
      [] ch.family = "station" ->
            rule(BooleanSensors, IF ch.field = "is_open" THEN "1" ELSE "count", "collection_station")
      [] ch.family = "robot" ->
            rule(RobotFieldRule(ch.field).types, RobotFieldRule(ch.field).unit, "robot")

EquipmentOf(m, type) == {e.id : e \in {x \in Elements(m.equipment) : x.type = type}}
RobotIds(m) == Elements(Column(m.robots, "id"))
ZoneIds(m) == Elements(Column(m.zones, "id"))
AssetIds(m) == Elements(Column(m.equipment, "id")) \cup RobotIds(m)

\* Only channels that name a station or a robot fix the asset; a zone's or the
\* site's equipment channel accepts any commissioned asset of the kind.
AboutTheRightAsset(s, m) ==
    LET about == ChannelRule(s.channel).about IN
    /\ s.asset \in AssetIds(m) \cup {m.site}
    /\ about = "site" => s.asset = m.site
    /\ about = "robot" => s.asset = s.channel.of
    /\ about = "zone" => s.channel.of \in ZoneIds(m)
    /\ about = "collection_station" => s.asset = s.channel.of
    /\ about \in DOMAIN CoreCapability => s.asset \in EquipmentOf(m, about)

\* The constructor of CalibrationInfo.
CalibrationFormed(c) ==
    IF c.status = "calibrated" THEN c.id # NoValue /\ c.from < c.until ELSE c.id = NoValue

CalibrationSound(s, approved) ==
    LET c == s.calibration IN
    /\ CalibrationFormed(c)
    /\ s.type \in CalibratedSensors => c.status = "calibrated"
    /\ c.status = "calibrated" => c.from <= approved /\ approved <= c.until

SensorSound(s, m) ==
    /\ s.type \in ChannelRule(s.channel).types
    /\ s.units = ChannelRule(s.channel).unit
    /\ AboutTheRightAsset(s, m)
    /\ CalibrationSound(s, m.approved)

-----------------------------------------------------------------------------
(* The manifest as a whole.                                                *)

Accepted(m) ==
    /\ SpatialSound(m)
    /\ NoDuplicates(Column(m.equipment, "id") \o Column(m.robots, "id"))
    /\ \A e \in Elements(m.equipment) : EquipmentSound(e, Elements(Column(m.geometries, "id")))
    /\ \A r \in Elements(m.robots) :
          RobotSound(r, ZoneIds(m), EquipmentOf(m, "charging_station"))
    /\ NoDuplicates(Column(m.constraints, "id"))
    /\ \A c \in Elements(m.constraints) :
          ConstraintSound(c, {"site"} \cup AssetIds(m) \cup ZoneIds(m))
    /\ NoDuplicates(Column(m.sensors, "id"))
    /\ NoDuplicates(Column(m.sensors, "channel"))
    /\ \A s \in Elements(m.sensors) : SensorSound(s, m)

-----------------------------------------------------------------------------
(* The projections.  NoValue stands for the ProjectionError.               *)

\* Two matching measurements are as wrong as none, and half a ball is none.
TheMeasurement(s, wanted) ==
    LET found == Matching(s, wanted) IN
    IF Cardinality(found) = 1 THEN s[CHOOSE i \in found : TRUE].value ELSE NoValue
WholeMeasurement(s, wanted) ==
    LET v == TheMeasurement(s, wanted) IN
    IF v # NoValue /\ v > 0 /\ v % 2 = 0 THEN v \div 2 ELSE NoValue

BallPayload == [names |-> PayloadNames, units |-> {"balls"}]
WashingParameters(e) ==
    LET washing == {c \in Elements(e.capabilities) : c.kind = "ball_washing"} IN
    IF washing = {} THEN <<>> ELSE (CHOOSE c \in washing : TRUE).parameters

SiteConfig(m) ==
    LET the(type) == CHOOSE e \in Elements(m.equipment) : e.type = type
        config ==
          [throughput |-> TheMeasurement(WashingParameters(the("washer")) \o the("washer").capacity, Throughput),
           batch |-> WholeMeasurement(the("washer").capacity, BatchSize),
           slots |-> WholeMeasurement(the("charging_station").capacity, ChargingSlots),
           payload |-> [r \in RobotIds(m) |->
               WholeMeasurement((CHOOSE x \in Elements(m.robots) : x.id = r).payload, BallPayload)],
           buffer |-> [s \in EquipmentOf(m, "collection_station") |->
               WholeMeasurement((CHOOSE x \in Elements(m.equipment) : x.id = s).capacity, StationBuffer)],
           zones |-> ZoneIds(m)]
    IN IF \/ Cardinality(EquipmentOf(m, "washer")) # 1
          \/ Cardinality(EquipmentOf(m, "charging_station")) # 1
          \/ NoValue \in {config.throughput, config.batch, config.slots}
          \/ \E r \in DOMAIN config.payload : config.payload[r] = NoValue
          \/ \E s \in DOMAIN config.buffer : config.buffer[s] = NoValue
       THEN NoValue ELSE config

\* The channels of the telemetry adapters, one binding each.
BoundChannels(m) == Elements(Column(m.sensors, "channel"))
=============================================================================
