---------------------------- MODULE HandoffRobot ----------------------------
(***************************************************************************)
(* The robot of the handoff cycle as the mock adapter simulates it: what   *)
(* each task call answers and what it does to the robot.  An operator      *)
(* takes the configured world w, the robot r and the luck the seeded       *)
(* random generator deals, and gives [status, reason, duration, robot].    *)
(* Speeds are one unit of distance per unit of time; clearances, centre of *)
(* mass and the simulated clock are left out, the verdicts they lead to    *)
(* (tips, hit) are kept.                                                   *)
(***************************************************************************)
EXTENDS Integers

CONSTANT None

\* The poses of a scenario, in the order in which a cycle visits them.
Poses == {"start", "staging", "station", "charge"}

Steps == {"navigate_to_pose", "approach_handoff_station", "dock", "verify_docking",
          "recover_from_failed_docking", "lift", "dump", "verify_unloading", "lower",
          "undock", "return_to_charge", "retract_lower", "retract_undock"}

TaskStatus == {"success", "failure", "timeout", "emergency_stopped"}

FailureReason ==
    {"none", "navigation_failed", "approach_failed", "dock_failed", "lateral_error_exceeded",
     "yaw_error_exceeded", "geometry_incompatible", "dock_verify_failed", "lift_failed",
     "dump_failed", "unload_incomplete", "lower_failed", "undock_failed", "collision",
     "emergency_stop", "tipping_risk", "step_timeout", "recovery_failed",
     "recovery_exhausted", "invalid_state"}

Larger(a, b) == IF a >= b THEN a ELSE b
Smaller(a, b) == IF a <= b THEN a ELSE b
Size(x) == IF x >= 0 THEN x ELSE -x
Half(x) == IF x >= 0 THEN x \div 2 ELSE -((-x) \div 2)

\* The poses lie on one line; the way between two of them.
Distance(w, from, to) == Size(w.place[from] - w.place[to])

NewRobot(w) ==
    [at |-> "start", docked |-> FALSE, lift |-> 0, angle |-> 0, latched |-> FALSE,
     unloaded |-> FALSE, obstacle |-> w.obstacle, hit |-> FALSE,
     error |-> w.initialError, force |-> w.force]

-----------------------------------------------------------------------------
Answer(status, reason, duration, r) ==
    [status |-> status, reason |-> reason, duration |-> duration, robot |-> r]
Success(duration, r) == Answer("success", "none", duration, r)
Failure(reason, duration, r) == Answer("failure", reason, duration, r)
Timeout(budget, r) == Answer("timeout", "step_timeout", budget, r)

\* Every motion is refused while the emergency stop is latched; the two checks
\* of a sensor are not motions.
Blocked(r) == Answer("emergency_stopped", "emergency_stop", 0, r)

\* The distance still to go is debited by what was driven: all of it, or what
\* the budget allowed.
Debit(r, driven) ==
    IF r.obstacle = None THEN r ELSE [r EXCEPT !.obstacle = @ - driven]

StopBeforeObstacle(w, r, budget) ==
    LET before == Larger(0, r.obstacle - w.trigger)
        clearance == r.obstacle - before - w.stopping
    IN  IF before + w.braking > budget
        THEN Timeout(budget, Debit(r, Smaller(budget, before)))
        ELSE Answer("emergency_stopped", "emergency_stop", before + w.braking,
                    [r EXCEPT !.latched = TRUE, !.hit = clearance < 0,
                              !.obstacle = Larger(clearance, 0)])

Drive(w, r, distance, budget) ==
    IF r.obstacle # None /\ distance >= r.obstacle - w.trigger
    THEN StopBeforeObstacle(w, r, budget)
    ELSE IF distance > budget
    THEN Timeout(budget, Debit(r, budget))
    ELSE Success(distance, Debit(r, distance))

\* A pose is reached only by a drive that succeeds.
DriveTo(w, r, pose, budget) ==
    LET driven == Drive(w, r, Distance(w, r.at, pose), budget)
    IN  IF driven.status = "success"
        THEN [driven EXCEPT !.robot.at = pose] ELSE driven

-----------------------------------------------------------------------------
\* Approaching aligns the robot by its markers: half of the current error
\* remains, plus the noise of this approach.
Aligned(error, noise) ==
    [lateral |-> Half(error.lateral) + noise.lateral,
     longitudinal |-> Half(error.longitudinal),
     yaw |-> Half(error.yaw) + noise.yaw]

Approach(w, r, noise) ==
    LET budget == w.budget["approach_handoff_station"]
        driven == Drive(w, r, Larger(1, Distance(w, r.at, "station") - w.guideDepth), budget)
    IN  IF driven.status # "success" THEN driven
        ELSE IF driven.duration + w.alignment > budget THEN Timeout(budget, driven.robot)
        ELSE Success(driven.duration + w.alignment,
                     [driven.robot EXCEPT !.at = "station", !.error = Aligned(@, noise)])

\* The basket with its clearance fits the inlet, and the lift reaches it.
Compatible(w) == w.fits /\ w.inletHeight <= w.liftTravel

\* The guide captures the robot and halves its error, or there is no guide.
Guided(w, error) == IF w.guide THEN Half(error) ELSE error

DockingFault(w, r) ==
    LET lateral == Size(r.error.lateral)
        yaw == Size(r.error.yaw)
    IN  IF ~Compatible(w) THEN "geometry_incompatible"
        ELSE IF r.force.dock > 0 THEN "lateral_error_exceeded"
        ELSE IF lateral > (IF w.guide THEN w.capture ELSE w.halfGap) THEN "collision"
        ELSE IF w.guide /\ yaw > w.captureYaw THEN "yaw_error_exceeded"
        ELSE IF Guided(w, lateral) > w.maxLateral THEN "lateral_error_exceeded"
        ELSE IF Guided(w, yaw) > w.maxYaw THEN "yaw_error_exceeded"
        ELSE "none"

\* A forced failure is used up by the attempt it fails.
Dock(w, r) ==
    LET fault == DockingFault(w, r)
        creep == w.guideDepth + Size(r.error.longitudinal)
        forced == Compatible(w) /\ r.force.dock > 0
    IN  IF r.docked THEN Failure("invalid_state", 0, r)
        ELSE IF fault # "none"
        THEN Failure(fault, 1, [r EXCEPT !.force.dock = IF forced THEN @ - 1 ELSE @])
        ELSE IF creep > w.budget["dock"] THEN Timeout(w.budget["dock"], r)
        ELSE Success(creep, [r EXCEPT !.docked = TRUE,
                                      !.error = [lateral |-> Guided(w, @.lateral),
                                                 longitudinal |-> 0,
                                                 yaw |-> Guided(w, @.yaw)]])

\* A check that runs over its budget leaves the robot docked; one that fails
\* counts the contact as lost.
VerifyDocking(w, r) ==
    IF ~r.docked THEN Failure("invalid_state", 0, r)
    ELSE IF w.verifying > w.budget["verify_docking"]
    THEN Timeout(w.budget["verify_docking"], r)
    ELSE IF r.force.verify > 0
    THEN Failure("dock_verify_failed", w.verifying,
                 [r EXCEPT !.force.verify = @ - 1, !.docked = FALSE])
    ELSE Success(w.verifying, r)

Recover(w, r, works) ==
    LET budget == w.budget["recover_from_failed_docking"]
        used == [r EXCEPT !.force.recovery = Larger(0, @ - 1)]
    IN  IF r.docked THEN Failure("invalid_state", 0, r)
        ELSE IF w.recovering > budget THEN Timeout(budget, r)
        ELSE IF r.force.recovery > 0 \/ ~works THEN Failure("recovery_failed", w.recovering, used)
        ELSE Success(w.recovering, used)

-----------------------------------------------------------------------------
\* A lift that makes the robot tip is reported as failed with the basket up.
Lift(w, r) ==
    LET raised == [r EXCEPT !.lift = w.liftTarget]
    IN  IF ~r.docked THEN Failure("invalid_state", 0, r)
        ELSE IF w.liftTarget \notin 1 .. w.liftTravel THEN Failure("lift_failed", 0, r)
        ELSE IF w.liftTarget > w.budget["lift"] THEN Timeout(w.budget["lift"], r)
        ELSE IF w.tips THEN Failure("tipping_risk", w.liftTarget, raised)
        ELSE Success(w.liftTarget, raised)

\* Whether the balls leave the basket, at the required angle and below it: a
\* chance that is certain, open or none.
Unloads(w, r) ==
    IF r.force.unload > 0 THEN {FALSE} ELSE w.unloads[w.dumpAngle >= w.requiredAngle]

Dump(w, r, empty) ==
    LET duration == w.dumpAngle + w.dwell
    IN  IF ~r.docked THEN Failure("invalid_state", 0, r)
        ELSE IF w.dumpAngle \notin 1 .. w.maxAngle THEN Failure("dump_failed", 0, r)
        ELSE IF duration > w.budget["dump"] THEN Timeout(w.budget["dump"], r)
        ELSE Success(duration, [r EXCEPT !.angle = w.dumpAngle, !.unloaded = empty,
                                         !.force.unload = Larger(0, @ - 1)])

VerifyUnloading(w, r) ==
    IF ~r.docked THEN Failure("invalid_state", 0, r)
    ELSE IF w.verifying > w.budget["verify_unloading"]
    THEN Timeout(w.budget["verify_unloading"], r)
    ELSE IF ~r.unloaded THEN Failure("unload_incomplete", w.verifying, r)
    ELSE Success(w.verifying, r)

Lower(w, r) ==
    LET duration == r.lift + r.angle
    IN  IF ~r.docked THEN Failure("invalid_state", 0, r)
        ELSE IF duration > w.budget["lower"] THEN Timeout(w.budget["lower"], r)
        ELSE Success(duration, [r EXCEPT !.lift = 0, !.angle = 0])

\* Without the interlock on the basket.
UndockRaised(w, r) ==
    IF ~r.docked THEN Failure("invalid_state", 0, r)
    ELSE IF w.guideDepth > w.budget["undock"] THEN Timeout(w.budget["undock"], r)
    ELSE Success(w.guideDepth, [r EXCEPT !.docked = FALSE])

Undock(w, r) ==
    IF ~r.docked THEN Failure("invalid_state", 0, r)
    ELSE IF r.lift > 0 \/ r.angle > 0 THEN Failure("undock_failed", 0, r)
    ELSE IF w.guideDepth > w.budget["undock"] THEN Timeout(w.budget["undock"], r)
    ELSE Success(w.guideDepth, [r EXCEPT !.docked = FALSE])

EmergencyStop(r) == [r EXCEPT !.latched = TRUE]

-----------------------------------------------------------------------------
IsCheck(step) == step \in {"verify_docking", "verify_unloading"}

\* What a call of a step answers; luck is [noise, works, empty].
Invoke(w, r, step, luck) ==
    CASE r.latched /\ ~IsCheck(step) -> Blocked(r)
      [] step = "navigate_to_pose" -> DriveTo(w, r, "staging", w.budget[step])
      [] step = "approach_handoff_station" -> Approach(w, r, luck.noise)
      [] step = "dock" -> Dock(w, r)
      [] step = "verify_docking" -> VerifyDocking(w, r)
      [] step = "recover_from_failed_docking" -> Recover(w, r, luck.works)
      [] step = "lift" -> Lift(w, r)
      [] step = "dump" -> Dump(w, r, luck.empty)
      [] step = "verify_unloading" -> VerifyUnloading(w, r)
      [] step \in {"lower", "retract_lower"} -> Lower(w, r)
      [] step \in {"undock", "retract_undock"} -> Undock(w, r)
      [] step = "return_to_charge" -> DriveTo(w, r, "charge", w.budget[step])

\* The luck that matters to a step; the other draws are fixed.
Luck(w, r, step) ==
    LET fixed == [noise |-> [lateral |-> 0, yaw |-> 0], works |-> TRUE, empty |-> FALSE]
    IN  CASE step = "approach_handoff_station" ->
                {[fixed EXCEPT !.noise = noise] : noise \in w.noise}
          [] step = "recover_from_failed_docking" ->
                {[fixed EXCEPT !.works = works] : works \in w.recovers}
          [] step = "dump" -> {[fixed EXCEPT !.empty = empty] : empty \in Unloads(w, r)}
          [] OTHER -> {fixed}
=============================================================================
