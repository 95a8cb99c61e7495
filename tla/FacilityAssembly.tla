-------------------------- MODULE FacilityAssembly --------------------------
(***************************************************************************)
(* From the observations of one instant to a state of the facility, and    *)
(* the checks that decide whether that state may be published.             *)
(*                                                                         *)
(* The facility has one dispenser, one zone and the commissioned robots; a *)
(* channel is a pair of names.  The assembler is total: what was not       *)
(* observed gets a default and is listed as missing.  The site runtime     *)
(* gives it no previous state, so a default is never the last known value. *)
(***************************************************************************)
EXTENDS EdgeAdapters

CONSTANTS Robots, TotalBalls, MaxAge,
          RobotActivities    \* the activities a robot's state can hold

AssemblyAssumption == TotalBalls \in Nat /\ MaxAge \in Nat /\ "idle" \in RobotActivities

CleanCount == <<"dispenser", "count">>
CleanSensed == <<"dispenser", "sensed">>
ZoneBalls == <<"zone", "balls">>
ZoneOpen == <<"zone", "is_open">>
Upstream == <<"upstream", "inputs">>

AssemblyChannels ==
    {CleanCount, CleanSensed, ZoneBalls, ZoneOpen}
        \cup {RobotChannel(r, f) : r \in Robots, f \in ToSet(RobotFields)}

\* The channels no adapter produces come from the facility's own systems,
\* fresh and trusted.
FacilitySystemObservations(batch) ==
    ZoneBalls :> [value |-> batch.zoneBalls, status |-> "ok", sample |-> batch.t,
                  available |-> batch.t]

Frame(batch, obs) ==
    [t |-> batch.t, obs |-> FacilitySystemObservations(batch) @@ obs,
     upstream |-> batch.upstream]

-----------------------------------------------------------------------------
\* The runtime's own look at the observations, before anything is assembled.

NotYetAvailable(timing, t) == timing.sample > t \/ timing.available > t

Invalid(f) ==
    \/ \E ch \in DOMAIN f.obs :
           \/ NotYetAvailable(f.obs[ch], f.t)
           \/ (f.obs[ch].value = None) # (f.obs[ch].status = "missing")
    \/ NotYetAvailable(f.upstream, f.t)

TooOld(timing, t) == t - timing.sample > MaxAge

StaleReferences(f) ==
    {ch \in DOMAIN f.obs : f.obs[ch].status = "stale" \/ TooOld(f.obs[ch], f.t)}
        \cup (IF f.upstream.status = "stale" \/ TooOld(f.upstream, f.t)
              THEN {Upstream} ELSE {})
MissingReferences(f) ==
    {ch \in DOMAIN f.obs : f.obs[ch].status = "missing"}
        \cup (IF f.upstream.status = "missing" THEN {Upstream} ELSE {})

-----------------------------------------------------------------------------
Present(f, ch) == ch \in DOMAIN f.obs /\ f.obs[ch].status # "missing"
Get(f, ch, fallback) == IF Present(f, ch) THEN f.obs[ch].value ELSE fallback

\* A negative count is an issue, and taken for zero.
Count(f, ch) == IF Get(f, ch, 0) < 0 THEN 0 ELSE Get(f, ch, 0)
Fraction(f, ch) ==
    LET raw == Get(f, ch, 0) IN IF raw < 0 THEN 0 ELSE IF raw > 100 THEN 100 ELSE raw
Clamped(f, ch) == Present(f, ch) /\ (f.obs[ch].value < 0 \/ (ch[2] = "battery" /\ f.obs[ch].value > 100))

\* A name that is blank is a name that was not given.
NameOr(f, ch, default) ==
    IF Get(f, ch, default) = "" THEN default ELSE Get(f, ch, default)

RobotState(f, r) ==
    [activity |-> NameOr(f, RobotChannel(r, "activity"), "idle"),
     battery |-> Fraction(f, RobotChannel(r, "battery")),
     payload |-> Count(f, RobotChannel(r, "payload")),
     zone |-> NameOr(f, RobotChannel(r, "zone"), None),
     estop |-> Get(f, RobotChannel(r, "estop"), FALSE)]

\* A label outside the state's vocabulary stops the assembly.
Assembles(f) == \A r \in Robots : RobotState(f, r).activity \in RobotActivities

Assemble(f) ==
    [t |-> f.t,
     robots |-> [r \in Robots |-> RobotState(f, r)],
     zone |-> [balls |-> Count(f, ZoneBalls), open |-> Get(f, ZoneOpen, TRUE)],
     clean |-> Count(f, CleanCount),
     sensed |-> Get(f, CleanSensed, Count(f, CleanCount))]

InTransit(s) == FoldFunction(+, 0, [r \in Robots |-> s.robots[r].payload])
Conserved(s) == s.clean + s.zone.balls + InTransit(s) = TotalBalls

CountChannels ==
    {CleanCount, ZoneBalls} \cup {RobotChannel(r, f) : r \in Robots, f \in {"payload", "battery"}}
AssemblyReport(f) ==
    [missing |-> {ch \in AssemblyChannels : ~Present(f, ch)},
     stale |-> {ch \in AssemblyChannels : Present(f, ch) /\ ch \in StaleReferences(f)},
     issues |-> (\E ch \in CountChannels : Clamped(f, ch)) \/ ~Conserved(Assemble(f))]

-----------------------------------------------------------------------------
\* What is assembled is published only when nothing is stale, missing or
\* inconsistent.

QualityOfWhatIsThere(f) ==
    IF \/ MissingReferences(f) \cup AssemblyReport(f).missing # {}
       \/ AssemblyReport(f).issues
    THEN "insufficient_quality" ELSE "ok"

QualityGate(f) ==
    IF StaleReferences(f) \cup AssemblyReport(f).stale # {} THEN "stale_observation"
    ELSE QualityOfWhatIsThere(f)
=============================================================================
