---------------------- MODULE HandoffController_proofs ----------------------
(***************************************************************************)
(* HandoffIsSafe for every set of bundles the loader accepts.              *)
(***************************************************************************)
EXTENDS HandoffController, TLAPS

Robot ==
    [at : Poses, docked : BOOLEAN, lift : Int, angle : Int, latched : BOOLEAN,
     unloaded : BOOLEAN, obstacle : Nat \cup {None}, hit : BOOLEAN,
     error : [lateral : Int, longitudinal : Int, yaw : Int],
     force : [dock : Nat, verify : Nat, unload : Nat, recovery : Nat]]
Count == [attempts : Nat, recoveries : Nat, recovered : Nat, dumps : Nat]
Reasons == FailureReason \ {"none", "recovery_exhausted"}

\* Where a robot may be caught by an obstacle, it is not.
Clear(w, r) ==
    w.stopping < w.trigger /\ w.obstacle # None /\ w.obstacle >= w.trigger =>
        ~r.hit /\ (r.latched \/ (r.obstacle # None /\ r.obstacle >= w.trigger))

Flat(r) == r.lift = 0 /\ r.angle = 0
InRange(w, r) == r.lift \in 0 .. w.liftTravel /\ r.angle \in 0 .. w.maxAngle

Trying == {"navigate_to_pose", "approach_handoff_station", "dock", "verify_docking",
           "recover_from_failed_docking"}
Retracting == {"retract_lower", "retract_undock"}
Unloading == {"lift", "dump", "verify_unloading", "lower", "undock", "return_to_charge"}
TooHigh(w) == w.liftTarget > w.liftTravel
TooSteep(w) == w.dumpAngle > w.maxAngle

\* What the next call finds.
TryingInv ==
    step \in Trying =>
        /\ ~docked /\ Flat(robot) /\ ~robot.unloaded /\ count.dumps = 0
        /\ step = "verify_docking" => robot.docked
        /\ step \notin {"verify_docking", "recover_from_failed_docking"} => ~robot.docked
        /\ step = "navigate_to_pose" => count.attempts = 0 /\ count.recoveries = 0
        /\ step # "navigate_to_pose" => count.attempts = count.recovered + 1
        /\ step = "recover_from_failed_docking" =>
             /\ cause \in Reasons /\ count.attempts < MaxAttempts(world)
             /\ count.recoveries = count.recovered + 1
        /\ step # "recover_from_failed_docking" => count.recoveries = count.recovered
UnloadingInv ==
    step \in Unloading =>
        /\ docked /\ count.attempts = count.recovered + 1 /\ count.recoveries = count.recovered
        /\ robot.docked = (step # "return_to_charge")
        /\ step = "lift" => Flat(robot) /\ count.dumps = 0
        /\ step # "lift" => ~TooHigh(world) /\ count.dumps > 0
        /\ step \notin {"lift", "dump"} => ~TooSteep(world)
        /\ step \in {"lower", "undock", "return_to_charge"} => robot.unloaded
        /\ step \in {"undock", "return_to_charge"} => Flat(robot)
RetractingInv ==
    step \in Retracting =>
        /\ docked /\ robot.docked /\ cause \in Reasons
        /\ count.attempts = count.recovered + 1 /\ count.recoveries = count.recovered
        /\ cause = "unload_incomplete" => count.dumps = MaxDumps(world)
        /\ TooHigh(world) => cause = "lift_failed"
        /\ TooSteep(world) /\ count.dumps > 0 => cause = "dump_failed"

\* What may be reported with these counters by a robot that ended like this.
Reportable(w, d, c, success, reason, underlying, final) ==
    /\ success = (final = "complete")
    /\ success => d /\ ~TooHigh(w) /\ ~TooSteep(w)
    /\ ~success => reason # "none"
    /\ reason = "recovery_exhausted" =>
         c.attempts = MaxAttempts(w) /\ ~d /\ underlying \notin {"none", reason}
    /\ reason = "unload_incomplete" => c.dumps = MaxDumps(w)
    /\ final = "failed" /\ d =>
         /\ TooHigh(w) => reason = "lift_failed"
         /\ TooSteep(w) /\ c.dumps > 0 => reason = "dump_failed"

Arrived(r) == r.at = "charge" /\ r.unloaded /\ ~r.docked /\ ~r.latched

Ending == [success : BOOLEAN, final : {"complete", "failed", "emergency_stopped"},
           reason : FailureReason, underlying : FailureReason]
EndingInv ==
    step \in {"exit", "done"} =>
        /\ ending \in Ending
        /\ Reportable(world, docked, count, ending.success, ending.reason, ending.underlying, ending.final)
        /\ ending.success => robot.at = "charge" /\ robot.unloaded /\ ~robot.docked
        /\ step = "exit" => ending.final = state /\ robot.latched = (ending.final = "emergency_stopped")
OutcomeInv ==
    IF step = "done"
    THEN /\ outcome \in CycleOutcome /\ outcome.count = count
         /\ Reportable(world, docked, count, outcome.success, outcome.reason, outcome.underlying, outcome.final)
         /\ outcome.success => Arrived(robot)
         /\ outcome.docked = docked
         /\ outcome.final = state
         /\ robot.latched = (outcome.final = "emergency_stopped")
    ELSE outcome = None

ControlInv ==
    /\ world \in Worlds
    /\ state \in HandoffState
    /\ step \in Steps \cup {"exit", "done"}
    /\ running \in BOOLEAN /\ requested \in BOOLEAN /\ docked \in BOOLEAN
    /\ cause \in FailureReason
    /\ count \in Count
    /\ running => step \in Steps
    /\ step \in Steps /\ state # "idle" => state = StateOf[step] \/ step \in Retracting
    /\ step \in Steps => state # "idle" \/ step = "navigate_to_pose"
\* A robot that may be where it is; d says whether the docking was verified.
RobotFit(w, d, r) ==
    /\ r \in Robot /\ InRange(w, r) /\ Clear(w, r)
    /\ r.docked \/ Flat(r)
    /\ r.lift > 0 => d
    /\ r.docked \/ d => Compatible(w)
RobotInv ==
    /\ RobotFit(world, docked, robot)
    /\ step \in Steps => ~robot.latched
CountInv ==
    /\ count.attempts <= MaxAttempts(world) /\ count.dumps <= MaxDumps(world)
    /\ count.recovered <= count.recoveries /\ count.recoveries <= count.recovered + 1
    /\ count.attempts > 0 => count.attempts = count.recovered + 1

Inv ==
    /\ ControlInv /\ RobotInv /\ CountInv /\ TryingInv /\ UnloadingInv /\ RetractingInv
    /\ EndingInv /\ OutcomeInv

-----------------------------------------------------------------------------
(* What can be relied on in an answer of the robot.                        *)
Sane(w, a) ==
    /\ a.status \in TaskStatus /\ a.reason \in FailureReason \ {"recovery_exhausted"}
    /\ a.duration \in Int
    /\ a.status = "failure" => a.reason # "none"
    /\ a.status = "timeout" => a.reason = "step_timeout"
    /\ a.robot \in Robot /\ InRange(w, a.robot) /\ Clear(w, a.robot)
    /\ a.robot.latched = (a.status = "emergency_stopped")

\* A drive leaves the mechanism and the dock alone.
Unmoved(r, new) ==
    /\ new.docked = r.docked /\ new.lift = r.lift /\ new.angle = r.angle
    /\ new.unloaded = r.unloaded

Ready(w, r) == r \in Robot /\ InRange(w, r) /\ Clear(w, r) /\ ~r.latched

LEMMA DebitFacts ==
  ASSUME NEW w \in Worlds, NEW r, Ready(w, r), NEW driven \in Nat,
         r.obstacle # None =>
            driven <= r.obstacle /\ (driven = 0 \/ driven <= r.obstacle - w.trigger)
  PROVE  /\ Ready(w, Debit(r, driven)) /\ Unmoved(r, Debit(r, driven))
         /\ Debit(r, driven).at = r.at
<1> DEFINE new == Debit(r, driven)
<1>1. CASE r.obstacle = None
  BY <1>1 DEF Debit, Unmoved
<1>2. CASE r.obstacle # None
  <2>1. r.obstacle \in Nat /\ w.trigger \in Nat
    BY <1>2, WorldAssumption DEF Ready, Robot
  <2>2. new = [r EXCEPT !.obstacle = r.obstacle - driven]
    BY <1>2 DEF Debit
  <2>3. r.obstacle - driven \in Nat
    BY <1>2, <2>1
  <2>4. new \in Robot /\ new.obstacle = r.obstacle - driven /\ new.hit = r.hit
        /\ new.latched = r.latched /\ new.at = r.at /\ Unmoved(r, new)
    BY <2>2, <2>3 DEF Ready, Robot, Unmoved
  <2>5. driven = 0 \/ new.obstacle >= w.trigger
    BY <1>2, <2>1, <2>4
  <2>6. w.stopping < w.trigger /\ w.obstacle # None /\ w.obstacle >= w.trigger =>
          ~r.hit /\ r.obstacle >= w.trigger
    BY DEF Ready, Clear
  <2>7. driven = 0 => new.obstacle = r.obstacle
    BY <2>1, <2>4
  <2>8. new.obstacle # None
    BY <1>2, <2>1, <2>4, NoneAssumption DEF Robot
  <2>9. Clear(w, new)
    BY <2>4, <2>5, <2>6, <2>7, <2>8 DEF Clear
  <2> QED
    BY <2>4, <2>9 DEF Ready, InRange, Unmoved
<1> QED
  BY <1>1, <1>2

\* What a drive does, also one that is cut short or stopped by an obstacle.
Drove(w, r, a) ==
    /\ Sane(w, a) /\ a.status # "failure" /\ Unmoved(r, a.robot) /\ a.robot.at = r.at

LEMMA LargerSmaller ==
  ASSUME NEW a \in Int, NEW b \in Int
  PROVE  /\ Larger(a, b) \in {a, b} /\ Larger(a, b) >= a /\ Larger(a, b) >= b
         /\ Smaller(a, b) \in {a, b} /\ Smaller(a, b) <= a /\ Smaller(a, b) <= b
BY DEF Larger, Smaller

LEMMA SizeFacts ==
  ASSUME NEW x \in Int
  PROVE  Size(x) \in Nat
BY DEF Size

LEMMA SaneAnswer ==
  ASSUME NEW w \in Worlds, NEW r, Ready(w, r), NEW duration \in Int
  PROVE  /\ Sane(w, Success(duration, r)) /\ Sane(w, Timeout(duration, r))
         /\ \A reason \in Reasons : Sane(w, Failure(reason, duration, r))
<1>1. {"success", "failure", "timeout"} \subseteq TaskStatus /\ "step_timeout" \in Reasons
      /\ "none" \in FailureReason \ {"recovery_exhausted"} /\ Reasons \subseteq FailureReason \ {"recovery_exhausted", "none"}
  BY DEF TaskStatus, FailureReason, Reasons
<1>2. r.latched = FALSE /\ r \in Robot /\ InRange(w, r) /\ Clear(w, r)
  BY DEF Ready, Robot
<1>3. Sane(w, Success(duration, r))
  BY <1>1, <1>2 DEF Sane, Success, Answer
<1>4. Sane(w, Timeout(duration, r))
  BY <1>1, <1>2 DEF Sane, Timeout, Answer, Reasons
<1>5. ASSUME NEW reason \in Reasons
      PROVE  Sane(w, Failure(reason, duration, r))
  BY <1>1, <1>2, <1>5 DEF Sane, Failure, Answer, Reasons
<1> QED
  BY <1>3, <1>4, <1>5

LEMMA StopFacts ==
  ASSUME NEW w \in Worlds, NEW r, Ready(w, r), NEW budget \in Nat, r.obstacle # None
  PROVE  Drove(w, r, StopBeforeObstacle(w, r, budget))
<1> DEFINE before == Larger(0, r.obstacle - w.trigger)
           clearance == r.obstacle - before - w.stopping
           driven == Smaller(budget, before)
           rest == Larger(clearance, 0)
           hit == clearance < 0
<1>1. r.obstacle \in Nat /\ w.trigger \in Nat /\ w.stopping \in Nat /\ w.braking \in Nat /\ r \in Robot
  BY WorldAssumption DEF Ready, Robot
<1>2. before \in Nat /\ before <= r.obstacle /\ (before = 0 \/ before = r.obstacle - w.trigger)
  <2>1. r.obstacle - w.trigger \in Int
    BY <1>1
  <2> QED
    BY <1>1, <2>1, LargerSmaller
<1> HIDE DEF before
<1>3. clearance \in Int /\ (r.obstacle >= w.trigger /\ w.stopping < w.trigger => clearance >= 0)
  BY <1>1, <1>2
<1>4. driven \in Nat /\ driven <= before
  BY <1>2, LargerSmaller
<1>5. rest \in Nat
  <2> HIDE DEF clearance
  <2> QED
    BY <1>3, LargerSmaller
<1>6. CASE before + w.braking > budget
  <2>1. driven <= r.obstacle /\ (driven = 0 \/ driven <= r.obstacle - w.trigger)
    <3> HIDE DEF driven
    <3> QED
      BY <1>1, <1>2, <1>4
  <2>2. StopBeforeObstacle(w, r, budget) = Timeout(budget, Debit(r, driven))
    BY <1>6 DEF StopBeforeObstacle, before
  <2> HIDE DEF driven
  <2>3. /\ Ready(w, Debit(r, driven)) /\ Unmoved(r, Debit(r, driven)) /\ Debit(r, driven).at = r.at
    BY <1>4, <2>1, DebitFacts
  <2>4. Sane(w, Timeout(budget, Debit(r, driven)))
    BY <2>3, SaneAnswer
  <2> QED
    BY <2>2, <2>3, <2>4 DEF Drove, Timeout, Answer
<1>7. CASE ~ (before + w.braking > budget)
  <2> DEFINE new == [r EXCEPT !.latched = TRUE, !.hit = hit, !.obstacle = rest]
             a == Answer("emergency_stopped", "emergency_stop", before + w.braking, new)
  <2>1. StopBeforeObstacle(w, r, budget) = a
    BY <1>7 DEF StopBeforeObstacle, before
  <2>2. hit \in BOOLEAN
    OBVIOUS
  <2>3. /\ new \in Robot /\ new.latched = TRUE /\ new.hit = hit /\ new.at = r.at /\ Unmoved(r, new)
    <3> HIDE DEF rest, hit
    <3> QED
      BY <1>1, <1>5, <2>2 DEF Robot, Unmoved
  <2> HIDE DEF new
  <2>4. Clear(w, new)
    <3>1. w.stopping < w.trigger /\ w.obstacle # None /\ w.obstacle >= w.trigger => r.obstacle >= w.trigger
      BY DEF Ready, Clear
    <3>2. w.stopping < w.trigger /\ w.obstacle # None /\ w.obstacle >= w.trigger => ~hit
      <4> HIDE DEF clearance
      <4> QED
        BY <1>3, <3>1
    <3> QED
      BY <2>3, <3>2 DEF Clear
  <2>5. a.status = "emergency_stopped" /\ a.reason = "emergency_stop" /\ a.robot = new /\ a.duration \in Int
    BY <1>1, <1>2 DEF Answer
  <2> HIDE DEF a
  <2>6. InRange(w, new)
    BY <2>3 DEF InRange, Ready, Unmoved
  <2>7. Sane(w, a)
    BY <2>3, <2>4, <2>5, <2>6 DEF Sane, TaskStatus, FailureReason
  <2> QED
    BY <2>1, <2>3, <2>5, <2>7 DEF Drove
<1> QED
  BY <1>6, <1>7

LEMMA DriveFacts ==
  ASSUME NEW w \in Worlds, NEW r, Ready(w, r), NEW distance \in Nat, NEW budget \in Nat
  PROVE  /\ Drove(w, r, Drive(w, r, distance, budget))
         /\ Drive(w, r, distance, budget).status = "success" =>
              Drive(w, r, distance, budget).duration = distance
<1>1. w.trigger \in Nat /\ (r.obstacle # None => r.obstacle \in Nat)
  BY WorldAssumption DEF Ready, Robot
<1>2. CASE r.obstacle # None /\ distance >= r.obstacle - w.trigger
  <2>1. Drive(w, r, distance, budget) = StopBeforeObstacle(w, r, budget)
    BY <1>2 DEF Drive
  <2>2. Drove(w, r, StopBeforeObstacle(w, r, budget))
    BY <1>2, StopFacts
  <2>3. StopBeforeObstacle(w, r, budget).status # "success"
    BY DEF StopBeforeObstacle, Timeout, Answer
  <2> QED
    BY <2>1, <2>2, <2>3
<1>3. CASE ~ (r.obstacle # None /\ distance >= r.obstacle - w.trigger) /\ distance > budget
  <2>1. Drive(w, r, distance, budget) = Timeout(budget, Debit(r, budget))
    BY <1>3 DEF Drive
  <2>2. r.obstacle # None => budget <= r.obstacle /\ (budget = 0 \/ budget <= r.obstacle - w.trigger)
    BY <1>1, <1>3
  <2>3. Ready(w, Debit(r, budget)) /\ Unmoved(r, Debit(r, budget)) /\ Debit(r, budget).at = r.at
    BY <2>2, DebitFacts
  <2>4. Sane(w, Timeout(budget, Debit(r, budget)))
    BY <2>3, SaneAnswer
  <2> QED
    BY <2>1, <2>3, <2>4 DEF Drove, Timeout, Answer
<1>4. CASE ~ (r.obstacle # None /\ distance >= r.obstacle - w.trigger) /\ ~ (distance > budget)
  <2>1. Drive(w, r, distance, budget) = Success(distance, Debit(r, distance))
    BY <1>4 DEF Drive
  <2>2. r.obstacle # None => distance <= r.obstacle /\ (distance = 0 \/ distance <= r.obstacle - w.trigger)
    BY <1>1, <1>4
  <2>3. Ready(w, Debit(r, distance)) /\ Unmoved(r, Debit(r, distance)) /\ Debit(r, distance).at = r.at
    BY <2>2, DebitFacts
  <2>4. Sane(w, Success(distance, Debit(r, distance)))
    BY <2>3, SaneAnswer
  <2> QED
    BY <2>1, <2>3, <2>4 DEF Drove, Success, Answer
<1> QED
  BY <1>2, <1>3, <1>4

-----------------------------------------------------------------------------
(* What each call does.                                                    *)

LEMMA HalfIsInt ==
  ASSUME NEW x \in Int
  PROVE  Half(x) \in Int
BY DEF Half

\* An answer that keeps everything but what the step is about.
Told(w, a) == Sane(w, a) /\ a.status # "emergency_stopped"

LEMMA ToldAnswer ==
  ASSUME NEW w \in Worlds, NEW r, Ready(w, r), NEW duration \in Int
  PROVE  /\ Told(w, Success(duration, r)) /\ Told(w, Timeout(duration, r))
         /\ \A reason \in Reasons : Told(w, Failure(reason, duration, r))
BY SaneAnswer DEF Told, Success, Timeout, Failure, Answer

LEMMA WorldFacts ==
  ASSUME NEW w \in Worlds
  PROVE  /\ w.place \in [Poses -> Int] /\ w.budget \in [Steps -> Nat]
         /\ {w.trigger, w.stopping, w.braking, w.guideDepth, w.alignment, w.verifying,
             w.recovering, w.dwell, w.liftTravel, w.maxAngle, w.dockingRetries,
             w.dumpRetries} \subseteq Nat
         /\ {w.inletHeight, w.liftTarget, w.dumpAngle} \subseteq Int
         /\ w.force \in [dock : Nat, verify : Nat, unload : Nat, recovery : Nat]
BY WorldAssumption

LEMMA DistanceFacts ==
  ASSUME NEW w \in Worlds, NEW from \in Poses, NEW to \in Poses
  PROVE  Distance(w, from, to) \in Nat
BY WorldFacts, SizeFacts DEF Distance

LEMMA DriveToFacts ==
  ASSUME NEW w \in Worlds, NEW r, Ready(w, r), NEW pose \in Poses, NEW budget \in Nat
  PROVE  LET a == DriveTo(w, r, pose, budget) IN
         /\ Sane(w, a) /\ a.status # "failure" /\ Unmoved(r, a.robot)
         /\ a.status = "success" => a.robot.at = pose
<1> DEFINE d == Drive(w, r, Distance(w, r.at, pose), budget)
<1>1. Drove(w, r, d)
  BY DistanceFacts, DriveFacts DEF Ready, Robot
<1>2. d = [status |-> d.status, reason |-> d.reason, duration |-> d.duration, robot |-> d.robot]
  BY DEF Drive, StopBeforeObstacle, Timeout, Success, Answer
<1>3. CASE d.status # "success"
  BY <1>1, <1>3 DEF DriveTo, Drove
<1>4. CASE d.status = "success"
  <2> DEFINE new == [d.robot EXCEPT !.at = pose]
             a == [d EXCEPT !.robot.at = pose]
  <2>1. DriveTo(w, r, pose, budget) = a
    BY <1>4 DEF DriveTo
  <2> HIDE DEF d
  <2>2. a.status = "success" /\ a.reason = d.reason /\ a.duration = d.duration /\ a.robot = new
    BY <1>2, <1>4
  <2>3. d.robot \in Robot /\ d.robot.latched = FALSE
    BY <1>1, <1>4 DEF Drove, Sane
  <2>4. new \in Robot /\ Unmoved(d.robot, new) /\ new.hit = d.robot.hit /\ new.latched = FALSE
        /\ new.obstacle = d.robot.obstacle /\ new.at = pose
    BY <2>3 DEF Robot, Unmoved
  <2> HIDE DEF new, a
  <2>5. InRange(w, new) /\ Clear(w, new) /\ Unmoved(r, new)
    BY <1>1, <2>3, <2>4 DEF Drove, Sane, InRange, Clear, Unmoved
  <2>6. Sane(w, a)
    BY <1>1, <1>4, <2>2, <2>4, <2>5 DEF Drove, Sane
  <2> QED
    BY <2>1, <2>2, <2>4, <2>5, <2>6
<1> QED
  BY <1>3, <1>4

LEMMA ApproachFacts ==
  ASSUME NEW w \in Worlds, NEW r, Ready(w, r), NEW noise \in [lateral : Int, yaw : Int]
  PROVE  LET a == Approach(w, r, noise) IN
         Sane(w, a) /\ a.status # "failure" /\ Unmoved(r, a.robot)
<1> DEFINE budget == w.budget["approach_handoff_station"]
           distance == Larger(1, Distance(w, r.at, "station") - w.guideDepth)
           d == Drive(w, r, distance, budget)
<1>1. budget \in Nat /\ w.alignment \in Nat /\ w.guideDepth \in Nat
  BY WorldFacts DEF Steps
<1>2. distance \in Nat
  <2>1. Distance(w, r.at, "station") - w.guideDepth \in Int
    BY <1>1, DistanceFacts DEF Ready, Robot, Poses
  <2> QED
    BY <2>1, LargerSmaller
<1> HIDE DEF distance, budget
<1>3. Drove(w, r, d) /\ (d.status = "success" => d.duration = distance)
  BY <1>1, <1>2, DriveFacts
<1> HIDE DEF d
<1>4. CASE d.status # "success"
  BY <1>3, <1>4 DEF Approach, Drove, d, distance, budget
<1>5. CASE d.status = "success" /\ d.duration + w.alignment > budget
  <2>1. Ready(w, d.robot)
    BY <1>3, <1>5 DEF Drove, Sane, Ready
  <2>2. Approach(w, r, noise) = Timeout(budget, d.robot)
    BY <1>5 DEF Approach, d, distance, budget
  <2>3. Sane(w, Timeout(budget, d.robot))
    BY <1>1, <2>1, SaneAnswer
  <2> QED
    BY <1>3, <2>2, <2>3 DEF Drove, Timeout, Answer
<1>6. CASE d.status = "success" /\ ~ (d.duration + w.alignment > budget)
  <2> DEFINE error == Aligned(d.robot.error, noise)
             new == [d.robot EXCEPT !.at = "station", !.error = error]
  <2>1. d.robot \in Robot /\ Ready(w, d.robot)
    BY <1>3, <1>6 DEF Drove, Sane, Ready
  <2>2. error \in [lateral : Int, longitudinal : Int, yaw : Int]
    BY <2>1, HalfIsInt DEF Robot, Aligned
  <2>3. Approach(w, r, noise) = Success(d.duration + w.alignment, new)
    BY <1>6 DEF Approach, d, distance, budget
  <2> HIDE DEF error
  <2>4. new \in Robot /\ Unmoved(d.robot, new) /\ new.hit = d.robot.hit
        /\ new.latched = d.robot.latched /\ new.obstacle = d.robot.obstacle
    BY <2>1, <2>2 DEF Robot, Poses, Unmoved
  <2> HIDE DEF new
  <2>5. Ready(w, new)
    BY <2>1, <2>4 DEF Ready, InRange, Clear, Unmoved
  <2>6. Sane(w, Success(d.duration + w.alignment, new))
    BY <1>1, <1>2, <1>3, <1>6, <2>5, SaneAnswer
  <2>7. Unmoved(r, new)
    BY <1>3, <2>4 DEF Drove, Unmoved
  <2> QED
    BY <2>3, <2>6, <2>7 DEF Success, Answer
<1> QED
  BY <1>4, <1>5, <1>6

\* A change of the robot that an obstacle has nothing to do with.
Changed(w, r, new) ==
    /\ new \in Robot /\ InRange(w, new)
    /\ new.at = r.at /\ new.hit = r.hit /\ new.latched = r.latched /\ new.obstacle = r.obstacle

LEMMA ChangedIsReady ==
  ASSUME NEW w \in Worlds, NEW r, Ready(w, r), NEW new, Changed(w, r, new)
  PROVE  Ready(w, new)
BY DEF Changed, Ready, Clear

LEMMA GuidedFacts ==
  ASSUME NEW w \in Worlds, NEW x \in Int
  PROVE  Guided(w, x) \in Int
BY HalfIsInt DEF Guided

DockReasons == {"none", "geometry_incompatible", "lateral_error_exceeded", "collision", "yaw_error_exceeded"}

LEMMA DockFacts ==
  ASSUME NEW w \in Worlds, NEW r, Ready(w, r), ~ r.docked
  PROVE  LET a == Dock(w, r) IN
         /\ Told(w, a) /\ a.robot.at = r.at
         /\ a.robot.lift = r.lift /\ a.robot.angle = r.angle /\ a.robot.unloaded = r.unloaded
         /\ a.status = "success" => a.robot.docked /\ Compatible(w)
         /\ a.status # "success" => ~ a.robot.docked
         /\ a.reason # "unload_incomplete"
<1> DEFINE fault == DockingFault(w, r)
           creep == w.guideDepth + Size(r.error.longitudinal)
           forced == Compatible(w) /\ r.force.dock > 0
           a == Dock(w, r)
<1>1. r \in Robot /\ r.docked = FALSE /\ r.latched = FALSE /\ InRange(w, r)
  BY DEF Ready, Robot
<1>2. /\ r.error \in [lateral : Int, longitudinal : Int, yaw : Int]
      /\ r.force \in [dock : Nat, verify : Nat, unload : Nat, recovery : Nat]
  BY <1>1 DEF Robot
<1>3. fault \in DockReasons /\ (fault = "none" => Compatible(w))
  BY DEF DockingFault, DockReasons
<1>4. creep \in Nat /\ w.budget["dock"] \in Nat
  BY <1>2, WorldFacts, SizeFacts DEF Steps
<1> HIDE DEF fault, creep
<1>5. CASE fault # "none"
  <2> DEFINE left == IF forced THEN r.force.dock - 1 ELSE r.force.dock
             force == [r.force EXCEPT !.dock = left]
             new == [r EXCEPT !.force = force]
  <2>1. fault \in Reasons
    BY <1>3, <1>5 DEF DockReasons, Reasons, FailureReason
  <2>2. left \in Nat
    BY <1>2
  <2>3. a = Failure(fault, 1, new)
    BY <1>1, <1>5 DEF Dock, fault
  <2> HIDE DEF left
  <2>4. force \in [dock : Nat, verify : Nat, unload : Nat, recovery : Nat]
    BY <1>2, <2>2
  <2> HIDE DEF force
  <2>5. Changed(w, r, new) /\ new.docked = FALSE /\ new.lift = r.lift /\ new.angle = r.angle
        /\ new.unloaded = r.unloaded
    BY <1>1, <2>4 DEF Robot, Changed, InRange
  <2> HIDE DEF new
  <2>6. Told(w, Failure(fault, 1, new))
    BY <2>1, <2>5, ChangedIsReady, ToldAnswer
  <2> QED
    BY <1>3, <2>3, <2>5, <2>6 DEF Failure, Answer, Changed, DockReasons
<1>6. CASE fault = "none" /\ creep > w.budget["dock"]
  <2>1. a = Timeout(w.budget["dock"], r)
    BY <1>1, <1>6 DEF Dock, fault, creep
  <2>2. Told(w, Timeout(w.budget["dock"], r))
    BY <1>4, ToldAnswer
  <2> QED
    BY <1>1, <2>1, <2>2 DEF Timeout, Answer
<1>7. CASE fault = "none" /\ ~ (creep > w.budget["dock"])
  <2> DEFINE error == [lateral |-> Guided(w, r.error.lateral), longitudinal |-> 0, yaw |-> Guided(w, r.error.yaw)]
             new == [r EXCEPT !.docked = TRUE, !.error = error]
  <2>1. error \in [lateral : Int, longitudinal : Int, yaw : Int]
    BY <1>2, GuidedFacts
  <2>2. a = Success(creep, new)
    BY <1>1, <1>7 DEF Dock, fault, creep
  <2> HIDE DEF error
  <2>3. Changed(w, r, new) /\ new.docked = TRUE /\ new.lift = r.lift /\ new.angle = r.angle
        /\ new.unloaded = r.unloaded
    BY <1>1, <2>1 DEF Robot, Changed, InRange
  <2> HIDE DEF new
  <2>4. Told(w, Success(creep, new))
    BY <1>4, <2>3, ChangedIsReady, ToldAnswer
  <2> QED
    BY <1>3, <1>7, <2>2, <2>3, <2>4 DEF Success, Answer, Changed
<1> QED
  BY <1>5, <1>6, <1>7

LEMMA VerifyDockingFacts ==
  ASSUME NEW w \in Worlds, NEW r, Ready(w, r)
  PROVE  LET a == VerifyDocking(w, r) IN
         /\ Told(w, a) /\ a.robot.at = r.at
         /\ a.robot.lift = r.lift /\ a.robot.angle = r.angle /\ a.robot.unloaded = r.unloaded
         /\ a.robot.docked => r.docked
         /\ a.reason # "unload_incomplete"
         /\ a.status = "success" => a.robot = r
<1> DEFINE a == VerifyDocking(w, r)
<1>1. r \in Robot /\ InRange(w, r) /\ r.force \in [dock : Nat, verify : Nat, unload : Nat, recovery : Nat]
  BY DEF Ready, Robot
<1>2. w.verifying \in Nat /\ w.budget["verify_docking"] \in Nat
  BY WorldFacts DEF Steps
<1>3. {"invalid_state", "dock_verify_failed"} \subseteq Reasons
  BY DEF Reasons, FailureReason
<1>4. CASE ~ r.docked
  <2>1. a = Failure("invalid_state", 0, r)
    BY <1>4 DEF VerifyDocking
  <2>2. Told(w, Failure("invalid_state", 0, r))
    BY <1>3, ToldAnswer
  <2> QED
    BY <2>1, <2>2 DEF Failure, Answer
<1>5. CASE r.docked /\ w.verifying > w.budget["verify_docking"]
  <2>1. a = Timeout(w.budget["verify_docking"], r)
    BY <1>5 DEF VerifyDocking
  <2>2. Told(w, Timeout(w.budget["verify_docking"], r))
    BY <1>2, ToldAnswer
  <2> QED
    BY <2>1, <2>2 DEF Timeout, Answer
<1>6. CASE r.docked /\ ~ (w.verifying > w.budget["verify_docking"]) /\ r.force.verify > 0
  <2> DEFINE force == [r.force EXCEPT !.verify = r.force.verify - 1]
             new == [r EXCEPT !.force = force, !.docked = FALSE]
  <2>1. a = Failure("dock_verify_failed", w.verifying, new)
    BY <1>1, <1>6 DEF VerifyDocking, Robot
  <2>2. force \in [dock : Nat, verify : Nat, unload : Nat, recovery : Nat]
    BY <1>1, <1>6
  <2> HIDE DEF force
  <2>3. Changed(w, r, new) /\ new.docked = FALSE /\ new.lift = r.lift /\ new.angle = r.angle
        /\ new.unloaded = r.unloaded
    BY <1>1, <2>2 DEF Robot, Changed, InRange
  <2> HIDE DEF new
  <2>4. Told(w, Failure("dock_verify_failed", w.verifying, new))
    BY <1>2, <1>3, <2>3, ChangedIsReady, ToldAnswer
  <2> QED
    BY <2>1, <2>3, <2>4 DEF Failure, Answer, Changed
<1>7. CASE r.docked /\ ~ (w.verifying > w.budget["verify_docking"]) /\ ~ (r.force.verify > 0)
  <2>1. a = Success(w.verifying, r)
    BY <1>7 DEF VerifyDocking
  <2>2. Told(w, Success(w.verifying, r))
    BY <1>2, ToldAnswer
  <2> QED
    BY <2>1, <2>2 DEF Success, Answer
<1> QED
  BY <1>4, <1>5, <1>6, <1>7

LEMMA RecoverFacts ==
  ASSUME NEW w \in Worlds, NEW r, Ready(w, r), NEW works
  PROVE  LET a == Recover(w, r, works) IN
         /\ Told(w, a) /\ a.robot.at = r.at
         /\ a.robot.lift = r.lift /\ a.robot.angle = r.angle /\ a.robot.unloaded = r.unloaded
         /\ a.robot.docked = r.docked
         /\ a.status = "success" => ~ r.docked
<1> DEFINE a == Recover(w, r, works)
           budget == w.budget["recover_from_failed_docking"]
           left == Larger(0, r.force.recovery - 1)
           force == [r.force EXCEPT !.recovery = left]
           used == [r EXCEPT !.force = force]
<1>1. r \in Robot /\ InRange(w, r) /\ r.force \in [dock : Nat, verify : Nat, unload : Nat, recovery : Nat]
  BY DEF Ready, Robot
<1>2. w.recovering \in Nat /\ budget \in Nat
  BY WorldFacts DEF Steps
<1>3. {"invalid_state", "recovery_failed"} \subseteq Reasons
  BY DEF Reasons, FailureReason
<1>4. left \in Nat
  <2>1. r.force.recovery - 1 \in Int
    BY <1>1
  <2> QED
    BY <2>1, LargerSmaller
<1>5. \/ a = Failure("invalid_state", 0, r)
      \/ a = Timeout(budget, r)
      \/ a = Failure("recovery_failed", w.recovering, used)
      \/ a = Success(w.recovering, used) /\ ~ r.docked
  BY <1>1 DEF Recover, Robot
<1> HIDE DEF left
<1>6. force \in [dock : Nat, verify : Nat, unload : Nat, recovery : Nat]
  BY <1>1, <1>4
<1> HIDE DEF force
<1>7. Changed(w, r, used) /\ used.docked = r.docked /\ used.lift = r.lift /\ used.angle = r.angle
      /\ used.unloaded = r.unloaded
  BY <1>1, <1>6 DEF Robot, Changed, InRange
<1> HIDE DEF used, budget, a
<1>8. /\ Told(w, Failure("invalid_state", 0, r)) /\ Told(w, Timeout(budget, r))
      /\ Told(w, Failure("recovery_failed", w.recovering, used)) /\ Told(w, Success(w.recovering, used))
  BY <1>2, <1>3, <1>7, ChangedIsReady, ToldAnswer
<1> QED
  BY <1>5, <1>7, <1>8 DEF Failure, Timeout, Success, Answer, Changed, a

LEMMA LiftFacts ==
  ASSUME NEW w \in Worlds, NEW r, Ready(w, r), r.docked
  PROVE  LET a == Lift(w, r) IN
         /\ Told(w, a) /\ a.robot.at = r.at
         /\ a.robot.docked /\ a.robot.angle = r.angle /\ a.robot.unloaded = r.unloaded
         /\ a.status = "success" => ~ TooHigh(w)
         /\ a.reason # "unload_incomplete"
         /\ TooHigh(w) => a.status = "failure" /\ a.reason = "lift_failed"
<1> DEFINE a == Lift(w, r)
           raised == [r EXCEPT !.lift = w.liftTarget]
<1>1. r \in Robot /\ InRange(w, r)
  BY DEF Ready
<1>2. w.liftTarget \in Int /\ w.liftTravel \in Nat /\ w.budget["lift"] \in Nat
  BY WorldFacts DEF Steps
<1>3. {"lift_failed", "tipping_risk"} \subseteq Reasons
  BY DEF Reasons, FailureReason
<1>4. CASE w.liftTarget \notin 1 .. w.liftTravel
  <2>1. a = Failure("lift_failed", 0, r)
    BY <1>4 DEF Lift
  <2>2. Told(w, Failure("lift_failed", 0, r))
    BY <1>3, ToldAnswer
  <2> QED
    BY <2>1, <2>2 DEF Failure, Answer
<1>5. CASE w.liftTarget \in 1 .. w.liftTravel /\ w.liftTarget > w.budget["lift"]
  <2>1. a = Timeout(w.budget["lift"], r)
    BY <1>5 DEF Lift
  <2>2. Told(w, Timeout(w.budget["lift"], r))
    BY <1>2, ToldAnswer
  <2> QED
    BY <1>2, <1>5, <2>1, <2>2 DEF Timeout, Answer, TooHigh
<1>6. CASE w.liftTarget \in 1 .. w.liftTravel /\ ~ (w.liftTarget > w.budget["lift"])
  <2>1. a \in {Failure("tipping_risk", w.liftTarget, raised), Success(w.liftTarget, raised)}
    BY <1>6 DEF Lift
  <2>2. Changed(w, r, raised) /\ raised.docked /\ raised.angle = r.angle /\ raised.unloaded = r.unloaded
    BY <1>1, <1>2, <1>6 DEF Robot, Changed, InRange
  <2> HIDE DEF raised
  <2>3. Told(w, Failure("tipping_risk", w.liftTarget, raised)) /\ Told(w, Success(w.liftTarget, raised))
    BY <1>2, <1>3, <2>2, ChangedIsReady, ToldAnswer
  <2> QED
    BY <1>2, <1>6, <2>1, <2>2, <2>3 DEF Failure, Success, Answer, TooHigh, Changed
<1> QED
  BY <1>4, <1>5, <1>6

LEMMA DumpFacts ==
  ASSUME NEW w \in Worlds, NEW r, Ready(w, r), r.docked, NEW empty \in BOOLEAN
  PROVE  LET a == Dump(w, r, empty) IN
         /\ Told(w, a) /\ a.robot.at = r.at
         /\ a.robot.docked /\ a.robot.lift = r.lift
         /\ a.status = "success" => ~ TooSteep(w)
         /\ a.reason # "unload_incomplete"
         /\ TooSteep(w) => a.status = "failure" /\ a.reason = "dump_failed"
<1> DEFINE a == Dump(w, r, empty)
           duration == w.dumpAngle + w.dwell
           left == Larger(0, r.force.unload - 1)
           force == [r.force EXCEPT !.unload = left]
           tilted == [r EXCEPT !.angle = w.dumpAngle, !.unloaded = empty, !.force = force]
<1>1. r \in Robot /\ InRange(w, r) /\ r.force \in [dock : Nat, verify : Nat, unload : Nat, recovery : Nat]
  BY DEF Ready, Robot
<1>2. w.dumpAngle \in Int /\ w.maxAngle \in Nat /\ w.dwell \in Nat /\ w.budget["dump"] \in Nat
  BY WorldFacts DEF Steps
<1>3. "dump_failed" \in Reasons
  BY DEF Reasons, FailureReason
<1>4. CASE w.dumpAngle \notin 1 .. w.maxAngle
  <2>1. a = Failure("dump_failed", 0, r)
    BY <1>4 DEF Dump
  <2>2. Told(w, Failure("dump_failed", 0, r))
    BY <1>3, ToldAnswer
  <2> QED
    BY <2>1, <2>2 DEF Failure, Answer
<1>5. CASE w.dumpAngle \in 1 .. w.maxAngle /\ duration > w.budget["dump"]
  <2>1. a = Timeout(w.budget["dump"], r)
    BY <1>5 DEF Dump
  <2>2. Told(w, Timeout(w.budget["dump"], r))
    BY <1>2, ToldAnswer
  <2> QED
    BY <1>2, <1>5, <2>1, <2>2 DEF Timeout, Answer, TooSteep
<1>6. CASE w.dumpAngle \in 1 .. w.maxAngle /\ ~ (duration > w.budget["dump"])
  <2>1. left \in Nat
    <3>1. r.force.unload - 1 \in Int
      BY <1>1
    <3> QED
      BY <3>1, LargerSmaller
  <2>2. a = Success(duration, tilted)
    BY <1>1, <1>6 DEF Dump, Robot
  <2> HIDE DEF left
  <2>3. force \in [dock : Nat, verify : Nat, unload : Nat, recovery : Nat]
    BY <1>1, <2>1
  <2> HIDE DEF force
  <2>4. Changed(w, r, tilted) /\ tilted.docked /\ tilted.lift = r.lift
    <3>1. w.dumpAngle \in 0 .. w.maxAngle
      BY <1>2, <1>6
    <3>2. tilted \in Robot /\ tilted.angle = w.dumpAngle /\ tilted.lift = r.lift
      BY <1>1, <1>2, <2>3 DEF Robot
    <3>3. /\ tilted.docked = r.docked /\ tilted.at = r.at /\ tilted.hit = r.hit
          /\ tilted.latched = r.latched /\ tilted.obstacle = r.obstacle
      BY <1>1 DEF Robot
    <3> QED
      BY <1>1, <3>1, <3>2, <3>3 DEF Changed, InRange
  <2> HIDE DEF tilted
  <2>5. duration \in Int
    BY <1>2
  <2> HIDE DEF duration
  <2>6. Told(w, Success(duration, tilted))
    BY <2>4, <2>5, ChangedIsReady, ToldAnswer
  <2> QED
    BY <1>2, <1>6, <2>2, <2>4, <2>6 DEF Success, Answer, TooSteep, Changed
<1> QED
  BY <1>4, <1>5, <1>6

LEMMA VerifyUnloadingFacts ==
  ASSUME NEW w \in Worlds, NEW r, Ready(w, r)
  PROVE  LET a == VerifyUnloading(w, r) IN
         Told(w, a) /\ a.robot = r /\ (a.status = "success" => r.unloaded)
<1>1. w.verifying \in Nat /\ w.budget["verify_unloading"] \in Nat
  BY WorldFacts DEF Steps
<1>2. {"invalid_state", "unload_incomplete"} \subseteq Reasons
  BY DEF Reasons, FailureReason
<1>3. /\ Told(w, Failure("invalid_state", 0, r)) /\ Told(w, Failure("unload_incomplete", w.verifying, r))
      /\ Told(w, Timeout(w.budget["verify_unloading"], r)) /\ Told(w, Success(w.verifying, r))
  BY <1>1, <1>2, ToldAnswer
<1> QED
  BY <1>3 DEF VerifyUnloading, Failure, Timeout, Success, Answer

LEMMA LowerFacts ==
  ASSUME NEW w \in Worlds, NEW r, Ready(w, r), r.docked
  PROVE  LET a == Lower(w, r) IN
         /\ Told(w, a) /\ a.robot.at = r.at /\ a.robot.docked /\ a.robot.unloaded = r.unloaded
         /\ a.reason # "unload_incomplete"
         /\ a.status = "success" => Flat(a.robot)
         /\ a.status # "success" => a.robot = r
         /\ a.robot.lift > 0 => r.lift > 0
<1> DEFINE a == Lower(w, r)
           duration == r.lift + r.angle
           flat == [r EXCEPT !.lift = 0, !.angle = 0]
<1>1. r \in Robot /\ InRange(w, r) /\ duration \in Int
  BY DEF Ready, Robot
<1>2. w.budget["lower"] \in Nat /\ w.liftTravel \in Nat /\ w.maxAngle \in Nat
  BY WorldFacts DEF Steps
<1>3. a \in {Timeout(w.budget["lower"], r), Success(duration, flat)}
  BY DEF Lower
<1>4. Changed(w, r, flat) /\ flat.docked /\ flat.unloaded = r.unloaded /\ flat.lift = 0 /\ flat.angle = 0
  <2>1. 0 \in 0 .. w.liftTravel /\ 0 \in 0 .. w.maxAngle
    BY <1>2
  <2>2. flat \in Robot /\ flat.lift = 0 /\ flat.angle = 0
    <3>1. 0 \in Int
      OBVIOUS
    <3>2. r \in Robot
      BY <1>1
    <3> QED
      BY <3>1, <3>2 DEF Robot
  <2>3. /\ flat.docked = r.docked /\ flat.at = r.at /\ flat.hit = r.hit /\ flat.unloaded = r.unloaded
        /\ flat.latched = r.latched /\ flat.obstacle = r.obstacle
    BY <1>1 DEF Robot
  <2> QED
    BY <2>1, <2>2, <2>3 DEF Changed, InRange
<1> HIDE DEF flat, duration
<1>5. Told(w, Timeout(w.budget["lower"], r)) /\ Told(w, Success(duration, flat))
  BY <1>1, <1>2, <1>4, ChangedIsReady, ToldAnswer
<1> QED
  BY <1>3, <1>4, <1>5 DEF Timeout, Success, Answer, Flat, Changed

LEMMA UndockFacts ==
  ASSUME NEW w \in Worlds, NEW r, Ready(w, r), r.docked
  PROVE  LET a == Undock(w, r) IN
         /\ Told(w, a) /\ a.robot.at = r.at /\ a.robot.unloaded = r.unloaded
         /\ a.robot.lift = r.lift /\ a.robot.angle = r.angle
         /\ a.reason # "unload_incomplete"
         /\ a.status = "success" => ~ a.robot.docked /\ Flat(r)
         /\ a.status # "success" => a.robot = r
<1> DEFINE a == Undock(w, r)
           new == [r EXCEPT !.docked = FALSE]
<1>1. r \in Robot /\ InRange(w, r) /\ r.lift \in Nat /\ r.angle \in Nat
  BY WorldFacts DEF Ready, Robot, InRange
<1>2. w.budget["undock"] \in Nat /\ w.guideDepth \in Nat /\ "undock_failed" \in Reasons
  BY WorldFacts DEF Steps, Reasons, FailureReason
<1>3. \/ a \in {Failure("undock_failed", 0, r), Timeout(w.budget["undock"], r)}
      \/ a = Success(w.guideDepth, new) /\ ~ (r.lift > 0 \/ r.angle > 0)
  BY DEF Undock
<1>4. Changed(w, r, new) /\ ~ new.docked /\ new.unloaded = r.unloaded /\ new.lift = r.lift /\ new.angle = r.angle
  BY <1>1 DEF Robot, Changed, InRange
<1> HIDE DEF new
<1>5. /\ Told(w, Failure("undock_failed", 0, r)) /\ Told(w, Timeout(w.budget["undock"], r))
      /\ Told(w, Success(w.guideDepth, new))
  BY <1>2, <1>4, ChangedIsReady, ToldAnswer
<1>6. ~ (r.lift > 0 \/ r.angle > 0) => Flat(r)
  BY <1>1 DEF Flat
<1> HIDE DEF a
<1> QED
  BY <1>3, <1>4, <1>5, <1>6 DEF Failure, Timeout, Success, Answer, Changed, a

-----------------------------------------------------------------------------
(* What the cycle makes of an answer.                                      *)

LEMMA JudgedFacts ==
  ASSUME step \in Steps, NEW w \in Worlds, NEW a, Sane(w, a)
  PROVE  LET j == Judged(a) IN
         /\ j.status \in TaskStatus
         /\ j.status = "emergency_stopped" <=> a.status = "emergency_stopped"
         /\ j.status = "success" => a.status = "success"
         /\ j.status \in {"failure", "timeout"} =>
              j.reason \in Reasons /\ j.reason \in {a.reason, "step_timeout"}
         /\ a.status = "failure" => j.status = "failure" /\ j.reason = a.reason
<1> DEFINE late == a.status = "success" /\ a.duration > world.budget[step]
           j == Judged(a)
<1>1. a.status \in TaskStatus /\ a.reason \in FailureReason \ {"recovery_exhausted"}
  BY DEF Sane
<1>2. j.status = IF late THEN "timeout" ELSE a.status
  BY DEF Judged
<1>3. "step_timeout" \in Reasons /\ FailureReason \ {"recovery_exhausted", "none"} = Reasons
  BY DEF Reasons, FailureReason
<1>4. CASE late
  <2>1. j.status = "timeout" /\ j.reason = "step_timeout"
    BY <1>4 DEF Judged
  <2> QED
    BY <1>3, <1>4, <2>1 DEF TaskStatus
<1>5. CASE ~late /\ a.status = "timeout"
  <2>1. a.reason = "step_timeout"
    BY <1>5 DEF Sane
  <2>2. j.status = "timeout" /\ j.reason = a.reason
    BY <1>5, <2>1 DEF Judged
  <2> QED
    BY <1>3, <1>5, <2>1, <2>2 DEF TaskStatus
<1>6. CASE ~late /\ a.status = "failure"
  <2>1. a.reason # "none"
    BY <1>6 DEF Sane
  <2>2. j.status = "failure" /\ j.reason = a.reason
    BY <1>6, <2>1 DEF Judged
  <2> QED
    BY <1>1, <1>3, <1>6, <2>1, <2>2 DEF TaskStatus
<1>7. CASE ~late /\ a.status \notin {"timeout", "failure"}
  BY <1>1, <1>2, <1>7
<1> QED
  BY <1>4, <1>5, <1>6, <1>7

\* What every way of ending or of going on from a call has in common.
Left(r) ==
    /\ robot' = r /\ running' = FALSE
    /\ world' = world /\ requested' = requested /\ outcome' = outcome

LEMMA EndKeeps ==
  ASSUME Inv, step \in Steps, NEW r, Left(r), RobotFit(world, docked, r),
         NEW success \in BOOLEAN, NEW final \in {"complete", "failed", "emergency_stopped"},
         NEW reason \in FailureReason, NEW underlying \in FailureReason,
         End(success, final, reason, underlying), UNCHANGED <<count, docked, cause>>,
         Reportable(world, docked, count, success, reason, underlying, final),
         success => r.at = "charge" /\ r.unloaded /\ ~r.docked,
         r.latched = (final = "emergency_stopped")
  PROVE  Inv'
<1>1. /\ world' = world /\ robot' = r /\ docked' = docked /\ count' = count /\ cause' = cause
      /\ running' = FALSE /\ requested' = requested /\ outcome' = outcome
      /\ step' = "exit" /\ state' = final
      /\ ending' = [success |-> success, final |-> final, reason |-> reason, underlying |-> underlying]
  BY DEF Left, End
<1>2. "exit" \notin Steps /\ "exit" \notin Trying \cup Unloading \cup Retracting
  BY DEF Steps, Trying, Unloading, Retracting
<1>3. ControlInv'
  BY <1>1, <1>2 DEF Inv, ControlInv, HandoffState
<1>4. RobotInv'
  BY <1>1, <1>2 DEF RobotInv
<1>5. CountInv'
  BY <1>1 DEF Inv, CountInv
<1>6. TryingInv' /\ UnloadingInv' /\ RetractingInv'
  BY <1>1, <1>2 DEF TryingInv, UnloadingInv, RetractingInv
<1>7. EndingInv'
  BY <1>1 DEF EndingInv, Ending
<1>8. OutcomeInv'
  <2>1. outcome = None
    BY DEF Inv, OutcomeInv, Steps
  <2> QED
    BY <1>1, <2>1 DEF OutcomeInv
<1> QED
  BY <1>3, <1>4, <1>5, <1>6, <1>7, <1>8 DEF Inv

LEMMA GoOnKeeps ==
  ASSUME Inv, step \in Steps, NEW r, Left(r), NEW next \in Steps, GoOn(next),
         next \in Retracting => state # "idle",
         docked' \in BOOLEAN, cause' \in FailureReason, count' \in Count,
         RobotFit(world, docked', r), ~r.latched,
         CountInv', TryingInv', UnloadingInv', RetractingInv'
  PROVE  Inv'
<1>1. /\ world' = world /\ robot' = r /\ running' = FALSE /\ requested' = requested
      /\ outcome' = outcome /\ step' = next /\ ending' = ending
      /\ state' = IF next \in Retracting THEN state ELSE StateOf[next]
  BY DEF Left, GoOn, Retracting
<1>2. next \notin Retracting => StateOf[next] \in HandoffState \ {"idle"}
  BY DEF StateOf, Steps, Retracting, HandoffState
<1>3. ControlInv'
  BY <1>1, <1>2 DEF Inv, ControlInv
<1>4. RobotInv'
  BY <1>1 DEF RobotInv
<1>5. EndingInv' /\ OutcomeInv'
  <2>1. outcome = None /\ next \notin {"exit", "done"}
    BY DEF Inv, OutcomeInv, Steps
  <2> QED
    BY <1>1, <2>1 DEF EndingInv, OutcomeInv
<1> QED
  BY <1>3, <1>4, <1>5 DEF Inv

LEMMA HaltKeeps ==
  ASSUME Inv, step \in Steps, NEW r, Halt(r), RobotFit(world, docked, r),
         running' = FALSE, world' = world, requested' = requested, outcome' = outcome
  PROVE  Inv'
<1> DEFINE new == EmergencyStop(r)
<1>1. r \in Robot
  BY DEF RobotFit
<1>2. /\ new \in Robot /\ new.latched = TRUE /\ Unmoved(r, new)
      /\ new.hit = r.hit /\ new.obstacle = r.obstacle
  BY <1>1 DEF EmergencyStop, Robot, Unmoved
<1>3. Left(new)
  BY DEF Halt, Left
<1> HIDE DEF new
<1>4. RobotFit(world, docked, new)
  BY <1>2 DEF RobotFit, InRange, Clear, Flat, Unmoved
<1>5. PICK underlying \in {cause, "none"} : Stop(underlying)
  BY DEF Halt
<1>6. underlying \in FailureReason /\ "emergency_stop" \in FailureReason
  BY <1>5 DEF Inv, ControlInv, FailureReason
<1>7. Reportable(world, docked, count, FALSE, "emergency_stop", underlying, "emergency_stopped")
  BY DEF Reportable
<1>8. UNCHANGED <<count, docked, cause>>
  BY DEF Halt
<1> QED
  BY <1>2, <1>3, <1>4, <1>5, <1>6, <1>7, <1>8, EndKeeps DEF Stop

\* Ending as failed, for the reason that is reported.
LEMMA FailKeeps ==
  ASSUME Inv, step \in Steps, NEW r, Left(r), RobotFit(world, docked, r), ~r.latched,
         NEW reason \in Reasons, NEW underlying \in FailureReason,
         End(FALSE, "failed", reason, underlying), UNCHANGED <<count, docked, cause>>,
         reason = "unload_incomplete" => count.dumps = MaxDumps(world),
         docked => /\ TooHigh(world) => reason = "lift_failed"
                   /\ TooSteep(world) /\ count.dumps > 0 => reason = "dump_failed"
  PROVE  Inv'
<1>1. Reportable(world, docked, count, FALSE, reason, underlying, "failed")
  BY DEF Reportable, Reasons
<1>2. reason \in FailureReason
  BY DEF Reasons
<1>3. r.latched = FALSE
  BY DEF RobotFit, Robot
<1> QED
  BY <1>1, <1>2, <1>3, EndKeeps

LEMMA FailIs ==
  ASSUME NEW reason \in Reasons, Fail(reason)
  PROVE  End(FALSE, "failed", reason, "none")
BY DEF Fail, Reasons

\* Where the cycle is: the facts about the next call, for each group of calls.
LEMMA NextCall ==
  ASSUME NEW next, step' = next
  PROVE  /\ next \notin Trying => TryingInv'
         /\ next \notin Unloading => UnloadingInv'
         /\ next \notin Retracting => RetractingInv'
BY DEF TryingInv, UnloadingInv, RetractingInv

LEMMA RetractKeeps ==
  ASSUME Inv, step \in {"lift", "dump", "verify_unloading"}, NEW r, Left(r),
         RobotFit(world, docked, r), ~r.latched, r.docked, NEW reason \in Reasons,
         FailWithRetract(reason),
         reason = "unload_incomplete" => count.dumps = MaxDumps(world),
         TooHigh(world) => reason = "lift_failed",
         TooSteep(world) /\ count.dumps > 0 => reason = "dump_failed"
  PROVE  Inv'
<1>1. /\ cause' = reason /\ count' = count /\ docked' = docked /\ GoOn("retract_lower")
      /\ robot' = r /\ world' = world
  BY DEF FailWithRetract, Left
<1>2. step' = "retract_lower" /\ "retract_lower" \in Steps
      /\ "retract_lower" \notin Trying \cup Unloading /\ step \in Steps
  BY <1>1 DEF GoOn, Steps, Trying, Unloading
<1>3. docked /\ count.attempts = count.recovered + 1 /\ count.recoveries = count.recovered
      /\ state # "idle"
  BY DEF Inv, UnloadingInv, Unloading, ControlInv, Steps
<1>4. RetractingInv'
  BY <1>1, <1>3 DEF RetractingInv
<1>5. TryingInv' /\ UnloadingInv'
  BY <1>2, NextCall
<1>6. CountInv' /\ count' \in Count /\ docked' \in BOOLEAN
  BY <1>1 DEF Inv, CountInv, ControlInv
<1>7. cause' \in FailureReason
  BY <1>1 DEF Reasons
<1>8. RobotFit(world, docked', r)
  BY <1>1
<1> QED
  BY <1>1, <1>2, <1>3, <1>4, <1>5, <1>6, <1>7, <1>8, GoOnKeeps

LEMMA DockingFailedKeeps ==
  ASSUME Inv, step \in {"approach_handoff_station", "dock", "verify_docking"}, NEW r, Left(r),
         RobotFit(world, docked, r), ~r.latched, Flat(r), ~r.unloaded,
         NEW reason \in Reasons, reason # "unload_incomplete", DockingFailed(reason)
  PROVE  Inv'
<1>1. /\ ~docked /\ count.dumps = 0 /\ count.attempts = count.recovered + 1
      /\ count.recoveries = count.recovered /\ step \in Steps
      /\ count \in Count /\ world \in Worlds /\ count.attempts <= MaxAttempts(world)
  BY DEF Inv, ControlInv, CountInv, TryingInv, Trying, Steps
<1>2. MaxAttempts(world) \in Nat
  BY <1>1, WorldFacts DEF MaxAttempts
<1>3. CASE count.attempts < MaxAttempts(world)
  <2>1. /\ cause' = reason /\ count' = [count EXCEPT !.recoveries = count.recoveries + 1]
        /\ GoOn("recover_from_failed_docking") /\ docked' = docked /\ robot' = r /\ world' = world
    BY <1>1, <1>3 DEF DockingFailed, Left, Count
  <2>2. step' = "recover_from_failed_docking" /\ "recover_from_failed_docking" \in Steps
        /\ "recover_from_failed_docking" \notin Unloading \cup Retracting
    BY <2>1 DEF GoOn, Steps, Unloading, Retracting
  <2>3. /\ count' \in Count /\ count'.attempts = count.attempts /\ count'.dumps = count.dumps
        /\ count'.recovered = count.recovered /\ count'.recoveries = count.recoveries + 1
    BY <1>1, <2>1 DEF Count
  <2>4. CountInv'
    BY <1>1, <2>1, <2>3 DEF Inv, CountInv, MaxAttempts, MaxDumps, Count
  <2>5. TryingInv'
    BY <1>1, <1>3, <2>1, <2>2, <2>3 DEF TryingInv, MaxAttempts
  <2>6. UnloadingInv' /\ RetractingInv'
    BY <2>2, NextCall
  <2>7. cause' \in FailureReason /\ docked' \in BOOLEAN /\ RobotFit(world, docked', r)
    BY <2>1 DEF Reasons, Inv, ControlInv
  <2> QED
    BY <1>1, <2>1, <2>2, <2>3, <2>4, <2>5, <2>6, <2>7, GoOnKeeps DEF Retracting
<1>4. CASE ~ (count.attempts < MaxAttempts(world)) /\ MaxAttempts(world) = 1
  <2>1. Fail(reason) /\ UNCHANGED <<count, docked, cause>>
    BY <1>4 DEF DockingFailed
  <2>2. End(FALSE, "failed", reason, "none") /\ "none" \in FailureReason
    BY <2>1, FailIs DEF FailureReason
  <2> QED
    BY <1>1, <2>1, <2>2, FailKeeps
<1>5. CASE ~ (count.attempts < MaxAttempts(world)) /\ MaxAttempts(world) # 1
  <2>1. End(FALSE, "failed", "recovery_exhausted", reason) /\ UNCHANGED <<count, docked, cause>>
    BY <1>5 DEF DockingFailed
  <2>2. count.attempts = MaxAttempts(world)
    BY <1>1, <1>2, <1>5 DEF Count
  <2>3. Reportable(world, docked, count, FALSE, "recovery_exhausted", reason, "failed")
    BY <1>1, <2>2 DEF Reportable, Reasons
  <2>4. reason \in FailureReason /\ "recovery_exhausted" \in FailureReason /\ r.latched = FALSE
    BY DEF Reasons, FailureReason, RobotFit, Robot
  <2> QED
    BY <1>1, <2>1, <2>3, <2>4, EndKeeps
<1> QED
  BY <1>3, <1>4, <1>5

-----------------------------------------------------------------------------
(* The answer of a call, step by step.                                     *)

Continue(a) ==
    LET j == Judged(a)
    IN  CASE j.status = "emergency_stopped" -> Halt(a.robot)
          [] j.status = "success" -> robot' = a.robot /\ Succeeded
          [] OTHER -> robot' = a.robot /\ Failed(j.reason)

\* The cycle goes on with an answer that is no emergency stop.
WentOn(a) ==
    /\ Left(a.robot) /\ ~ a.robot.latched
    /\ \/ a.status = "success" /\ Succeeded
       \/ \E reason \in Reasons \cap {a.reason, "step_timeout"} :
            (a.status = "failure" => reason = a.reason) /\ Failed(reason)

Returns(a) ==
    /\ Continue(a) /\ running' = FALSE
    /\ world' = world /\ requested' = requested /\ outcome' = outcome

LEMMA ReturnsFacts ==
  ASSUME Inv, step \in Steps, NEW a, Sane(world, a), RobotFit(world, docked, a.robot), Returns(a)
  PROVE  Inv' \/ WentOn(a)
<1> DEFINE j == Judged(a)
<1>1. world \in Worlds
  BY DEF Inv, ControlInv
<1>2. /\ j.status \in TaskStatus
      /\ j.status = "emergency_stopped" <=> a.status = "emergency_stopped"
      /\ j.status = "success" => a.status = "success"
      /\ j.status \in {"failure", "timeout"} =>
           j.reason \in Reasons /\ j.reason \in {a.reason, "step_timeout"}
      /\ a.status = "failure" => j.status = "failure" /\ j.reason = a.reason
  BY <1>1, JudgedFacts
<1>3. CASE j.status = "emergency_stopped"
  <2>1. Halt(a.robot)
    BY <1>3 DEF Returns, Continue
  <2> QED
    BY <2>1, HaltKeeps DEF Returns
<1>4. CASE j.status = "success"
  <2>1. robot' = a.robot /\ Succeeded
    BY <1>4 DEF Returns, Continue
  <2>2. ~ a.robot.latched
    BY <1>2, <1>4 DEF Sane
  <2> QED
    BY <1>2, <1>4, <2>1, <2>2 DEF WentOn, Left, Returns
<1>5. CASE j.status \in {"failure", "timeout"}
  <2>1. robot' = a.robot /\ Failed(j.reason)
    BY <1>5 DEF Returns, Continue
  <2>2. ~ a.robot.latched
    BY <1>2, <1>5 DEF Sane
  <2>3. j.reason \in Reasons \cap {a.reason, "step_timeout"} /\ (a.status = "failure" => j.reason = a.reason)
    BY <1>2, <1>5
  <2> HIDE DEF j
  <2>4. Left(a.robot)
    BY <2>1 DEF Left, Returns
  <2> QED
    BY <2>1, <2>2, <2>3, <2>4 DEF WentOn
<1> QED
  BY <1>2, <1>3, <1>4, <1>5 DEF TaskStatus

\* A step that succeeded and changes nothing but where the cycle is.
LEMMA NextStepKeeps ==
  ASSUME Inv, step \in Steps, NEW r, Left(r), RobotFit(world, docked, r), ~ r.latched,
         NEW next \in Steps, GoOn(next), next \in Retracting => step # "navigate_to_pose",
         UNCHANGED <<count, docked, cause>>, TryingInv', UnloadingInv', RetractingInv'
  PROVE  Inv'
<1>1. count' = count /\ docked' = docked /\ cause' = cause /\ world' = world
  BY DEF Left
<1>2. CountInv' /\ count' \in Count /\ docked' \in BOOLEAN /\ cause' \in FailureReason
  BY <1>1 DEF Inv, CountInv, ControlInv
<1>3. next \in Retracting => state # "idle"
  BY DEF Inv, ControlInv
<1> QED
  BY <1>1, <1>2, <1>3, GoOnKeeps

LEMMA ApproachingKeeps ==
  ASSUME Inv, step \in {"navigate_to_pose", "recover_from_failed_docking"}, NEW r, Left(r),
         RobotFit(world, docked, r), ~ r.latched, Flat(r), ~ r.unloaded, ~ r.docked, Approaching
  PROVE  Inv'
<1>1. /\ ~docked /\ count.dumps = 0 /\ step \in Steps /\ count \in Count /\ world \in Worlds
      /\ step = "navigate_to_pose" => count.attempts = 0 /\ count.recoveries = 0
      /\ step = "recover_from_failed_docking" =>
           /\ count.attempts < MaxAttempts(world) /\ count.attempts = count.recovered + 1
           /\ count.recoveries = count.recovered + 1
      /\ count.recovered <= count.recoveries
  BY DEF Inv, ControlInv, CountInv, TryingInv, Trying, Steps
<1>2. MaxAttempts(world) \in Nat /\ MaxAttempts(world) >= 1
  BY <1>1, WorldFacts DEF MaxAttempts
<1> DEFINE recovered == IF step = "navigate_to_pose" THEN count.recovered ELSE count.recovered + 1
           new == [count EXCEPT !.attempts = count.attempts + 1, !.recovered = recovered]
<1>3. /\ count' = new /\ GoOn("approach_handoff_station") /\ docked' = docked /\ cause' = cause
      /\ robot' = r /\ world' = world
  BY <1>1 DEF Approaching, Left, Count
<1>4. recovered \in Nat
  BY <1>1 DEF Count
<1>5. /\ new \in Count /\ new.attempts = count.attempts + 1 /\ new.recovered = recovered
      /\ new.recoveries = count.recoveries /\ new.dumps = 0
  <2> HIDE DEF recovered
  <2>1. count \in Count /\ count.dumps = 0
    BY <1>1
  <2>2. count.attempts + 1 \in Nat
    BY <2>1 DEF Count
  <2> QED
    BY <1>4, <2>1, <2>2 DEF Count
<1> HIDE DEF new
<1>6. /\ new.attempts <= MaxAttempts(world) /\ new.attempts = new.recovered + 1
      /\ new.recoveries = new.recovered
  BY <1>1, <1>2, <1>5 DEF Count
<1> HIDE DEF recovered
<1>7. step' = "approach_handoff_station" /\ "approach_handoff_station" \in Steps
      /\ "approach_handoff_station" \notin Unloading \cup Retracting
  BY <1>3 DEF GoOn, Steps, Unloading, Retracting
<1>8. CountInv'
  <2>1. MaxDumps(world) \in Nat
    BY <1>1, WorldFacts DEF MaxDumps
  <2> QED
    BY <1>3, <1>5, <1>6, <2>1 DEF CountInv, MaxAttempts, MaxDumps, Count
<1>9. TryingInv'
  BY <1>1, <1>3, <1>5, <1>6, <1>7 DEF TryingInv
<1>10. UnloadingInv' /\ RetractingInv'
  BY <1>7, NextCall
<1>11. docked' \in BOOLEAN /\ cause' \in FailureReason /\ count' \in Count /\ RobotFit(world, docked', r)
  BY <1>3, <1>5 DEF Inv, ControlInv
<1> QED
  BY <1>1, <1>3, <1>7, <1>8, <1>9, <1>10, <1>11, GoOnKeeps DEF Retracting

LEMMA Here ==
  ASSUME Inv, step \in Steps
  PROVE  /\ world \in Worlds /\ Ready(world, robot) /\ RobotFit(world, docked, robot)
         /\ count \in Count /\ cause \in FailureReason /\ docked \in BOOLEAN
         /\ robot.docked \in BOOLEAN /\ world.budget[step] \in Nat
         /\ "none" \in FailureReason
<1>1. world \in Worlds
  BY DEF Inv, ControlInv
<1> QED
  BY <1>1, WorldFacts DEF Inv, ControlInv, RobotInv, RobotFit, Ready, Robot, FailureReason

LEMMA UnmovedFits ==
  ASSUME NEW w, NEW d, NEW r, RobotFit(w, d, r), NEW a, Sane(w, a), Unmoved(r, a.robot)
  PROVE  RobotFit(w, d, a.robot)
BY DEF RobotFit, Sane, Unmoved, Flat

LEMMA NavigateReturns ==
  ASSUME Inv, step = "navigate_to_pose", NEW a,
         a = DriveTo(world, robot, "staging", world.budget[step]), Returns(a)
  PROVE  Inv'
<1>1. step \in Steps /\ "staging" \in Poses
  BY DEF Steps, Poses
<1>2. /\ world \in Worlds /\ Ready(world, robot) /\ RobotFit(world, docked, robot) /\ world.budget[step] \in Nat
      /\ "none" \in FailureReason
  BY <1>1, Here
<1>3. Sane(world, a) /\ a.status # "failure" /\ Unmoved(robot, a.robot)
  BY <1>1, <1>2, DriveToFacts
<1>4. RobotFit(world, docked, a.robot)
  BY <1>2, <1>3, UnmovedFits
<1>5. ~docked /\ ~ a.robot.docked /\ Flat(a.robot) /\ ~ a.robot.unloaded
  BY <1>3 DEF Inv, TryingInv, Trying, Unmoved, Flat
<1>6. CASE Left(a.robot) /\ ~ a.robot.latched /\ Succeeded
  <2>1. Approaching
    BY <1>6 DEF Succeeded
  <2> QED
    BY <1>4, <1>5, <1>6, <2>1, ApproachingKeeps
<1>7. ASSUME Left(a.robot), ~ a.robot.latched, NEW reason \in Reasons \cap {a.reason, "step_timeout"},
             Failed(reason)
      PROVE  Inv'
  <2>1. Fail(reason) /\ UNCHANGED <<count, docked, cause>>
    BY <1>7 DEF Failed
  <2>2. End(FALSE, "failed", reason, "none")
    BY <2>1, FailIs
  <2>3. reason # "unload_incomplete"
    BY <1>3, <1>7 DEF DriveTo, Drive, StopBeforeObstacle, Timeout, Success, Answer
  <2> QED
    BY <1>1, <1>2, <1>4, <1>5, <1>7, <2>1, <2>2, <2>3, FailKeeps
<1> QED
  BY <1>1, <1>3, <1>4, <1>6, <1>7, ReturnsFacts DEF WentOn

LEMMA ApproachReturns ==
  ASSUME Inv, step = "approach_handoff_station", NEW noise \in [lateral : Int, yaw : Int],
         NEW a, a = Approach(world, robot, noise), Returns(a)
  PROVE  Inv'
<1>1. step \in Steps
  BY DEF Steps
<1>2. world \in Worlds /\ Ready(world, robot) /\ RobotFit(world, docked, robot)
  BY <1>1, Here
<1>3. Sane(world, a) /\ a.status # "failure" /\ Unmoved(robot, a.robot)
  BY <1>2, ApproachFacts
<1>4. RobotFit(world, docked, a.robot)
  BY <1>2, <1>3, UnmovedFits
<1>5. ~docked /\ ~ a.robot.docked /\ Flat(a.robot) /\ ~ a.robot.unloaded /\ count.dumps = 0
      /\ count.attempts = count.recovered + 1 /\ count.recoveries = count.recovered
  BY <1>3 DEF Inv, TryingInv, Trying, Unmoved, Flat
<1>6. CASE Left(a.robot) /\ ~ a.robot.latched /\ Succeeded
  <2>1. GoOn("dock") /\ UNCHANGED <<count, docked, cause>> /\ "dock" \in Steps
    BY <1>6 DEF Succeeded, Steps
  <2>2. step' = "dock" /\ "dock" \notin Unloading \cup Retracting
    BY <2>1 DEF GoOn, Unloading, Retracting
  <2>3. UnloadingInv' /\ RetractingInv'
    BY <2>2, NextCall
  <2>4. TryingInv'
    BY <1>5, <1>6, <2>1, <2>2 DEF TryingInv, Left
  <2> QED
    BY <1>1, <1>4, <1>6, <2>1, <2>2, <2>3, <2>4, NextStepKeeps
<1>7. ASSUME Left(a.robot), ~ a.robot.latched, NEW reason \in Reasons \cap {a.reason, "step_timeout"},
             Failed(reason)
      PROVE  Inv'
  <2>1. DockingFailed(reason)
    BY <1>7 DEF Failed
  <2>2. reason # "unload_incomplete"
    BY <1>3, <1>7 DEF Approach, Drive, StopBeforeObstacle, Timeout, Success, Answer
  <2> QED
    BY <1>4, <1>5, <1>7, <2>1, <2>2, DockingFailedKeeps
<1> QED
  BY <1>1, <1>3, <1>4, <1>6, <1>7, ReturnsFacts DEF WentOn

LEMMA DockReturns ==
  ASSUME Inv, step = "dock", NEW a, a = Dock(world, robot), Returns(a)
  PROVE  Inv'
<1>1. step \in Steps
  BY DEF Steps
<1>2. world \in Worlds /\ Ready(world, robot) /\ RobotFit(world, docked, robot)
  BY <1>1, Here
<1>3. ~docked /\ ~ robot.docked /\ Flat(robot) /\ ~ robot.unloaded /\ count.dumps = 0
      /\ count.attempts = count.recovered + 1 /\ count.recoveries = count.recovered
  BY DEF Inv, TryingInv, Trying
<1>4. /\ Told(world, a) /\ a.robot.lift = robot.lift /\ a.robot.angle = robot.angle
      /\ a.robot.unloaded = robot.unloaded
      /\ a.status = "success" => a.robot.docked /\ Compatible(world)
      /\ a.status # "success" => ~ a.robot.docked
      /\ a.reason # "unload_incomplete"
  BY <1>2, <1>3, DockFacts
<1>5. Sane(world, a) /\ Flat(a.robot) /\ ~ a.robot.unloaded /\ RobotFit(world, docked, a.robot)
  BY <1>2, <1>3, <1>4 DEF Told, Flat, RobotFit, Sane
<1>6. CASE Left(a.robot) /\ ~ a.robot.latched /\ a.status = "success" /\ Succeeded
  <2>1. GoOn("verify_docking") /\ UNCHANGED <<count, docked, cause>> /\ "verify_docking" \in Steps
    BY <1>6 DEF Succeeded, Steps
  <2>2. step' = "verify_docking" /\ "verify_docking" \notin Unloading \cup Retracting
    BY <2>1 DEF GoOn, Unloading, Retracting
  <2>3. UnloadingInv' /\ RetractingInv'
    BY <2>2, NextCall
  <2>4. TryingInv'
    BY <1>3, <1>4, <1>5, <1>6, <2>1, <2>2 DEF TryingInv, Left
  <2> QED
    BY <1>1, <1>5, <1>6, <2>1, <2>2, <2>3, <2>4, NextStepKeeps
<1>7. ASSUME Left(a.robot), ~ a.robot.latched, NEW reason \in Reasons \cap {a.reason, "step_timeout"},
             Failed(reason)
      PROVE  Inv'
  <2>1. DockingFailed(reason)
    BY <1>7 DEF Failed
  <2> QED
    BY <1>4, <1>5, <1>7, <2>1, DockingFailedKeeps
<1> QED
  BY <1>1, <1>5, <1>6, <1>7, ReturnsFacts DEF WentOn

LEMMA VerifyDockingReturns ==
  ASSUME Inv, step = "verify_docking", NEW a, a = VerifyDocking(world, robot), Returns(a)
  PROVE  Inv'
<1>1. step \in Steps
  BY DEF Steps
<1>2. world \in Worlds /\ Ready(world, robot) /\ RobotFit(world, docked, robot)
  BY <1>1, Here
<1>3. ~docked /\ robot.docked /\ Flat(robot) /\ ~ robot.unloaded /\ count.dumps = 0
      /\ count.attempts = count.recovered + 1 /\ count.recoveries = count.recovered
  BY DEF Inv, TryingInv, Trying
<1>4. /\ Told(world, a) /\ a.robot.lift = robot.lift /\ a.robot.angle = robot.angle
      /\ a.robot.unloaded = robot.unloaded
      /\ a.status = "success" => a.robot = robot
      /\ a.reason # "unload_incomplete"
  BY <1>2, VerifyDockingFacts
<1>5. Sane(world, a) /\ Flat(a.robot) /\ ~ a.robot.unloaded /\ RobotFit(world, docked, a.robot)
  BY <1>2, <1>3, <1>4 DEF Told, Flat, RobotFit, Sane
<1>6. CASE Left(a.robot) /\ ~ a.robot.latched /\ a.status = "success" /\ Succeeded
  <2>1. GoOn("lift") /\ docked' = TRUE /\ UNCHANGED <<count, cause>> /\ "lift" \in Steps
    BY <1>6 DEF Succeeded, Steps
  <2>2. step' = "lift" /\ "lift" \notin Trying \cup Retracting
    BY <2>1 DEF GoOn, Trying, Retracting
  <2>3. TryingInv' /\ RetractingInv'
    BY <2>2, NextCall
  <2>4. robot' = robot /\ world' = world
    BY <1>4, <1>6 DEF Left
  <2>5. UnloadingInv'
    <3>1. robot.docked = TRUE
      BY <1>2, <1>3 DEF Ready, Robot
    <3> QED
      BY <1>3, <2>1, <2>2, <2>4, <3>1 DEF UnloadingInv
  <2>6. RobotFit(world, docked', a.robot)
    BY <1>2, <1>3, <1>4, <1>6, <2>1 DEF RobotFit
  <2>7. CountInv' /\ count' \in Count /\ cause' \in FailureReason /\ docked' \in BOOLEAN
    BY <2>1, <2>4 DEF Inv, CountInv, ControlInv
  <2> QED
    BY <1>1, <1>6, <2>1, <2>2, <2>3, <2>5, <2>6, <2>7, GoOnKeeps DEF Retracting
<1>7. ASSUME Left(a.robot), ~ a.robot.latched, NEW reason \in Reasons \cap {a.reason, "step_timeout"},
             Failed(reason)
      PROVE  Inv'
  <2>1. DockingFailed(reason)
    BY <1>7 DEF Failed
  <2> QED
    BY <1>4, <1>5, <1>7, <2>1, DockingFailedKeeps
<1> QED
  BY <1>1, <1>5, <1>6, <1>7, ReturnsFacts DEF WentOn

LEMMA RecoverReturns ==
  ASSUME Inv, step = "recover_from_failed_docking", NEW works,
         NEW a, a = Recover(world, robot, works), Returns(a)
  PROVE  Inv'
<1>1. step \in Steps
  BY DEF Steps
<1>2. world \in Worlds /\ Ready(world, robot) /\ RobotFit(world, docked, robot)
  BY <1>1, Here
<1>3. ~docked /\ Flat(robot) /\ ~ robot.unloaded /\ cause \in Reasons
  BY DEF Inv, TryingInv, Trying
<1>4. /\ Told(world, a) /\ a.robot.lift = robot.lift /\ a.robot.angle = robot.angle
      /\ a.robot.unloaded = robot.unloaded /\ a.robot.docked = robot.docked
      /\ a.status = "success" => ~ robot.docked
  BY <1>2, RecoverFacts
<1>5. Sane(world, a) /\ Flat(a.robot) /\ ~ a.robot.unloaded /\ RobotFit(world, docked, a.robot)
  BY <1>2, <1>3, <1>4 DEF Told, Flat, RobotFit, Sane
<1>6. CASE Left(a.robot) /\ ~ a.robot.latched /\ a.status = "success" /\ Succeeded
  <2>1. Approaching
    BY <1>6 DEF Succeeded
  <2> QED
    BY <1>4, <1>5, <1>6, <2>1, ApproachingKeeps
<1>7. ASSUME Left(a.robot), ~ a.robot.latched, NEW reason \in Reasons, Failed(reason)
      PROVE  Inv'
  <2>1. End(FALSE, "failed", "recovery_failed", cause) /\ UNCHANGED <<count, docked, cause>>
    BY <1>7 DEF Failed
  <2>2. "recovery_failed" \in Reasons /\ cause \in FailureReason
    BY <1>3 DEF Reasons, FailureReason
  <2> QED
    BY <1>1, <1>3, <1>5, <1>7, <2>1, <2>2, FailKeeps
<1> QED
  BY <1>1, <1>5, <1>6, <1>7, ReturnsFacts DEF WentOn

\* Going for the first dump or for another one.
LEMMA DumpKeeps ==
  ASSUME Inv, step \in {"lift", "verify_unloading"}, NEW r, Left(r), RobotFit(world, docked, r),
         ~ r.latched, r.docked, ~ TooHigh(world), count.dumps < MaxDumps(world),
         count' = [count EXCEPT !.dumps = @ + 1], GoOn("dump"), UNCHANGED <<docked, cause>>
  PROVE  Inv'
<1>1. /\ docked /\ count.attempts = count.recovered + 1 /\ count.recoveries = count.recovered
      /\ step \in Steps /\ count \in Count /\ world \in Worlds
  BY DEF Inv, UnloadingInv, Unloading, ControlInv, Steps
<1>2. /\ count' \in Count /\ count'.dumps = count.dumps + 1 /\ count'.attempts = count.attempts
      /\ count'.recovered = count.recovered /\ count'.recoveries = count.recoveries
  BY <1>1 DEF Count
<1>3. robot' = r /\ world' = world /\ docked' = docked /\ cause' = cause
  BY DEF Left
<1>4. step' = "dump" /\ "dump" \in Steps /\ "dump" \notin Trying \cup Retracting
  BY DEF GoOn, Steps, Trying, Retracting
<1>5. CountInv'
  <2>1. MaxDumps(world) \in Nat
    BY <1>1, WorldFacts DEF MaxDumps
  <2> QED
    BY <1>1, <1>2, <1>3, <2>1 DEF Inv, CountInv, MaxAttempts, MaxDumps, Count
<1>6. UnloadingInv'
  <2>1. count'.dumps > 0 /\ r.docked = TRUE
    BY <1>1, <1>2 DEF Count, RobotFit, Robot
  <2> QED
    <3>1. docked' /\ count'.attempts = count'.recovered + 1 /\ count'.recoveries = count'.recovered
      BY <1>1, <1>2, <1>3
    <3>2. robot'.docked = (step' # "return_to_charge")
      BY <1>3, <1>4, <2>1
    <3>3. ~ TooHigh(world') /\ count'.dumps > 0
      BY <1>3, <2>1
    <3> QED
      BY <1>4, <3>1, <3>2, <3>3 DEF UnloadingInv
<1>7. TryingInv' /\ RetractingInv'
  BY <1>4, NextCall
<1>8. docked' \in BOOLEAN /\ cause' \in FailureReason /\ RobotFit(world, docked', r)
  BY <1>3 DEF Inv, ControlInv
<1> QED
  BY <1>1, <1>2, <1>4, <1>5, <1>6, <1>7, <1>8, GoOnKeeps DEF Retracting

LEMMA LiftReturns ==
  ASSUME Inv, step = "lift", NEW a, a = Lift(world, robot), Returns(a)
  PROVE  Inv'
<1>1. step \in Steps
  BY DEF Steps
<1>2. world \in Worlds /\ Ready(world, robot) /\ RobotFit(world, docked, robot)
  BY <1>1, Here
<1>3. docked /\ robot.docked /\ count.dumps = 0
  BY DEF Inv, UnloadingInv, Unloading
<1>4. /\ Told(world, a) /\ a.robot.docked
      /\ a.status = "success" => ~ TooHigh(world)
      /\ a.reason # "unload_incomplete"
      /\ TooHigh(world) => a.status = "failure" /\ a.reason = "lift_failed"
  BY <1>2, <1>3, LiftFacts
<1>5. Sane(world, a) /\ RobotFit(world, docked, a.robot)
  BY <1>2, <1>3, <1>4 DEF Told, RobotFit, Sane
<1>6. CASE Left(a.robot) /\ ~ a.robot.latched /\ a.status = "success" /\ Succeeded
  <2>1. /\ count' = [count EXCEPT !.dumps = @ + 1] /\ GoOn("dump") /\ UNCHANGED <<docked, cause>>
    BY <1>6 DEF Succeeded
  <2>2. count.dumps < MaxDumps(world)
    BY <1>2, <1>3, WorldFacts DEF MaxDumps
  <2> QED
    BY <1>4, <1>5, <1>6, <2>1, <2>2, DumpKeeps
<1>7. ASSUME Left(a.robot), ~ a.robot.latched, NEW reason \in Reasons \cap {a.reason, "step_timeout"},
             a.status = "failure" => reason = a.reason, Failed(reason)
      PROVE  Inv'
  <2>1. FailWithRetract(reason)
    BY <1>7 DEF Failed
  <2>2. reason # "unload_incomplete" /\ (TooHigh(world) => reason = "lift_failed")
    BY <1>4, <1>7
  <2>3. ~ (count.dumps > 0)
    BY <1>3
  <2> QED
    BY <1>4, <1>5, <1>7, <2>1, <2>2, <2>3, RetractKeeps
<1> QED
  BY <1>1, <1>5, <1>6, <1>7, ReturnsFacts DEF WentOn

LEMMA DumpReturns ==
  ASSUME Inv, step = "dump", NEW empty \in BOOLEAN, NEW a, a = Dump(world, robot, empty), Returns(a)
  PROVE  Inv'
<1>1. step \in Steps
  BY DEF Steps
<1>2. world \in Worlds /\ Ready(world, robot) /\ RobotFit(world, docked, robot)
  BY <1>1, Here
<1>3. /\ docked /\ robot.docked /\ ~ TooHigh(world) /\ count.dumps > 0
      /\ count.attempts = count.recovered + 1 /\ count.recoveries = count.recovered
  BY DEF Inv, UnloadingInv, Unloading
<1>4. /\ Told(world, a) /\ a.robot.docked
      /\ a.status = "success" => ~ TooSteep(world)
      /\ a.reason # "unload_incomplete"
      /\ TooSteep(world) => a.status = "failure" /\ a.reason = "dump_failed"
  BY <1>2, <1>3, DumpFacts
<1>5. Sane(world, a) /\ RobotFit(world, docked, a.robot)
  BY <1>2, <1>3, <1>4 DEF Told, RobotFit, Sane
<1>6. CASE Left(a.robot) /\ ~ a.robot.latched /\ a.status = "success" /\ Succeeded
  <2>1. GoOn("verify_unloading") /\ UNCHANGED <<count, docked, cause>> /\ "verify_unloading" \in Steps
    BY <1>6 DEF Succeeded, Steps
  <2>2. step' = "verify_unloading" /\ "verify_unloading" \notin Trying \cup Retracting
    BY <2>1 DEF GoOn, Trying, Retracting
  <2>3. TryingInv' /\ RetractingInv'
    BY <2>2, NextCall
  <2>4. robot' = a.robot /\ world' = world /\ a.robot.docked = TRUE
    BY <1>4, <1>5, <1>6 DEF Left, Sane, Robot
  <2>5. UnloadingInv'
    BY <1>3, <1>4, <1>6, <2>1, <2>2, <2>4 DEF UnloadingInv, TooHigh, TooSteep
  <2> QED
    BY <1>1, <1>5, <1>6, <2>1, <2>2, <2>3, <2>5, NextStepKeeps
<1>7. ASSUME Left(a.robot), ~ a.robot.latched, NEW reason \in Reasons \cap {a.reason, "step_timeout"},
             a.status = "failure" => reason = a.reason, Failed(reason)
      PROVE  Inv'
  <2>1. FailWithRetract(reason)
    BY <1>7 DEF Failed
  <2>2. reason # "unload_incomplete" /\ (TooSteep(world) => reason = "dump_failed")
    BY <1>4, <1>7
  <2> QED
    BY <1>3, <1>4, <1>5, <1>7, <2>1, <2>2, RetractKeeps
<1> QED
  BY <1>1, <1>5, <1>6, <1>7, ReturnsFacts DEF WentOn

LEMMA VerifyUnloadingReturns ==
  ASSUME Inv, step = "verify_unloading", NEW a, a = VerifyUnloading(world, robot), Returns(a)
  PROVE  Inv'
<1>1. step \in Steps
  BY DEF Steps
<1>2. world \in Worlds /\ Ready(world, robot) /\ RobotFit(world, docked, robot)
  BY <1>1, Here
<1>3. /\ docked /\ robot.docked /\ ~ TooHigh(world) /\ ~ TooSteep(world) /\ count.dumps > 0
      /\ count.attempts = count.recovered + 1 /\ count.recoveries = count.recovered
  BY DEF Inv, UnloadingInv, Unloading
<1>4. Told(world, a) /\ a.robot = robot /\ (a.status = "success" => robot.unloaded)
  BY <1>2, VerifyUnloadingFacts
<1>5. Sane(world, a) /\ RobotFit(world, docked, a.robot)
  BY <1>2, <1>4 DEF Told
<1>6. CASE Left(a.robot) /\ ~ a.robot.latched /\ a.status = "success" /\ Succeeded
  <2>1. GoOn("lower") /\ UNCHANGED <<count, docked, cause>> /\ "lower" \in Steps
    BY <1>6 DEF Succeeded, Steps
  <2>2. step' = "lower" /\ "lower" \notin Trying \cup Retracting
    BY <2>1 DEF GoOn, Trying, Retracting
  <2>3. TryingInv' /\ RetractingInv'
    BY <2>2, NextCall
  <2>4. robot' = robot /\ world' = world /\ robot.docked = TRUE
    BY <1>2, <1>3, <1>4, <1>6 DEF Left, Ready, Robot
  <2>5. UnloadingInv'
    BY <1>3, <1>4, <1>6, <2>1, <2>2, <2>4 DEF UnloadingInv, TooHigh, TooSteep
  <2> QED
    BY <1>1, <1>5, <1>6, <2>1, <2>2, <2>3, <2>5, NextStepKeeps
<1>7. ASSUME Left(a.robot), ~ a.robot.latched, NEW reason \in Reasons, Failed(reason)
      PROVE  Inv'
  <2>1. DumpFellShort(reason)
    BY <1>7 DEF Failed
  <2>2. CASE count.dumps < MaxDumps(world)
    <3>1. count' = [count EXCEPT !.dumps = @ + 1] /\ GoOn("dump") /\ UNCHANGED <<docked, cause>>
      BY <2>1, <2>2 DEF DumpFellShort
    <3> QED
      BY <1>3, <1>4, <1>5, <1>7, <2>2, <3>1, DumpKeeps
  <2>3. CASE ~ (count.dumps < MaxDumps(world))
    <3>1. FailWithRetract(reason)
      BY <2>1, <2>3 DEF DumpFellShort
    <3>2. count.dumps = MaxDumps(world)
      BY <1>2, <2>3, WorldFacts DEF Inv, ControlInv, CountInv, Count, MaxDumps
    <3> QED
      BY <1>3, <1>4, <1>5, <1>7, <3>1, <3>2, RetractKeeps
  <2> QED
    BY <2>2, <2>3
<1> QED
  BY <1>1, <1>5, <1>6, <1>7, ReturnsFacts DEF WentOn

LEMMA LowerReturns ==
  ASSUME Inv, step = "lower", NEW a, a = Lower(world, robot), Returns(a)
  PROVE  Inv'
<1>1. step \in Steps
  BY DEF Steps
<1>2. world \in Worlds /\ Ready(world, robot) /\ RobotFit(world, docked, robot) /\ "none" \in FailureReason
  BY <1>1, Here
<1>3. /\ docked /\ robot.docked /\ ~ TooHigh(world) /\ ~ TooSteep(world) /\ count.dumps > 0
      /\ robot.unloaded
      /\ count.attempts = count.recovered + 1 /\ count.recoveries = count.recovered
  BY DEF Inv, UnloadingInv, Unloading
<1>4. /\ Told(world, a) /\ a.robot.docked /\ a.robot.unloaded = robot.unloaded
      /\ a.reason # "unload_incomplete"
      /\ a.status = "success" => Flat(a.robot)
  BY <1>2, <1>3, LowerFacts
<1>5. Sane(world, a) /\ RobotFit(world, docked, a.robot)
  BY <1>2, <1>3, <1>4 DEF Told, RobotFit, Sane
<1>6. CASE Left(a.robot) /\ ~ a.robot.latched /\ a.status = "success" /\ Succeeded
  <2>1. GoOn("undock") /\ UNCHANGED <<count, docked, cause>> /\ "undock" \in Steps
    BY <1>6 DEF Succeeded, Steps
  <2>2. step' = "undock" /\ "undock" \notin Trying \cup Retracting
    BY <2>1 DEF GoOn, Trying, Retracting
  <2>3. TryingInv' /\ RetractingInv'
    BY <2>2, NextCall
  <2>4. robot' = a.robot /\ world' = world /\ a.robot.docked = TRUE
    BY <1>4, <1>5, <1>6 DEF Left, Sane, Robot
  <2>5. UnloadingInv'
    BY <1>3, <1>4, <1>6, <2>1, <2>2, <2>4 DEF UnloadingInv, TooHigh, TooSteep
  <2> QED
    BY <1>1, <1>5, <1>6, <2>1, <2>2, <2>3, <2>5, NextStepKeeps
<1>7. ASSUME Left(a.robot), ~ a.robot.latched, NEW reason \in Reasons \cap {a.reason, "step_timeout"},
             Failed(reason)
      PROVE  Inv'
  <2>1. Fail(reason) /\ UNCHANGED <<count, docked, cause>>
    BY <1>7 DEF Failed
  <2>2. End(FALSE, "failed", reason, "none") /\ reason # "unload_incomplete"
    BY <1>4, <1>7, <2>1, FailIs
  <2> QED
    BY <1>1, <1>2, <1>3, <1>5, <1>7, <2>1, <2>2, FailKeeps
<1> QED
  BY <1>1, <1>5, <1>6, <1>7, ReturnsFacts DEF WentOn

LEMMA UndockReturns ==
  ASSUME Inv, step = "undock", NEW a, a = Undock(world, robot), Returns(a)
  PROVE  Inv'
<1>1. step \in Steps
  BY DEF Steps
<1>2. world \in Worlds /\ Ready(world, robot) /\ RobotFit(world, docked, robot) /\ "none" \in FailureReason
  BY <1>1, Here
<1>3. /\ docked /\ robot.docked /\ ~ TooHigh(world) /\ ~ TooSteep(world) /\ count.dumps > 0
      /\ robot.unloaded /\ Flat(robot)
      /\ count.attempts = count.recovered + 1 /\ count.recoveries = count.recovered
  BY DEF Inv, UnloadingInv, Unloading
<1>4. /\ Told(world, a) /\ a.robot.unloaded = robot.unloaded
      /\ a.robot.lift = robot.lift /\ a.robot.angle = robot.angle
      /\ a.reason # "unload_incomplete"
      /\ a.status = "success" => ~ a.robot.docked
  BY <1>2, <1>3, UndockFacts
<1>5. Sane(world, a) /\ Flat(a.robot) /\ RobotFit(world, docked, a.robot)
  BY <1>2, <1>3, <1>4 DEF Told, RobotFit, Sane, Flat
<1>6. CASE Left(a.robot) /\ ~ a.robot.latched /\ a.status = "success" /\ Succeeded
  <2>1. GoOn("return_to_charge") /\ UNCHANGED <<count, docked, cause>> /\ "return_to_charge" \in Steps
    BY <1>6 DEF Succeeded, Steps
  <2>2. step' = "return_to_charge" /\ "return_to_charge" \notin Trying \cup Retracting
    BY <2>1 DEF GoOn, Trying, Retracting
  <2>3. TryingInv' /\ RetractingInv'
    BY <2>2, NextCall
  <2>4. robot' = a.robot /\ world' = world /\ a.robot.docked = FALSE
    BY <1>4, <1>5, <1>6 DEF Left, Sane, Robot
  <2>5. UnloadingInv'
    BY <1>3, <1>4, <1>5, <1>6, <2>1, <2>2, <2>4 DEF UnloadingInv, TooHigh, TooSteep
  <2> QED
    BY <1>1, <1>5, <1>6, <2>1, <2>2, <2>3, <2>5, NextStepKeeps
<1>7. ASSUME Left(a.robot), ~ a.robot.latched, NEW reason \in Reasons \cap {a.reason, "step_timeout"},
             Failed(reason)
      PROVE  Inv'
  <2>1. Fail(reason) /\ UNCHANGED <<count, docked, cause>>
    BY <1>7 DEF Failed
  <2>2. End(FALSE, "failed", reason, "none") /\ reason # "unload_incomplete"
    BY <1>4, <1>7, <2>1, FailIs
  <2> QED
    BY <1>1, <1>2, <1>3, <1>5, <1>7, <2>1, <2>2, FailKeeps
<1> QED
  BY <1>1, <1>5, <1>6, <1>7, ReturnsFacts DEF WentOn

LEMMA ChargeReturns ==
  ASSUME Inv, step = "return_to_charge", NEW a,
         a = DriveTo(world, robot, "charge", world.budget[step]), Returns(a)
  PROVE  Inv'
<1>1. step \in Steps /\ "charge" \in Poses
  BY DEF Steps, Poses
<1>2. /\ world \in Worlds /\ Ready(world, robot) /\ RobotFit(world, docked, robot)
      /\ world.budget[step] \in Nat /\ "none" \in FailureReason
  BY <1>1, Here
<1>3. /\ Sane(world, a) /\ a.status # "failure" /\ Unmoved(robot, a.robot)
      /\ a.status = "success" => a.robot.at = "charge"
  BY <1>1, <1>2, DriveToFacts
<1>4. RobotFit(world, docked, a.robot)
  BY <1>2, <1>3, UnmovedFits
<1>5. /\ docked /\ ~ TooHigh(world) /\ ~ TooSteep(world) /\ ~ a.robot.docked /\ a.robot.unloaded
  BY <1>3 DEF Inv, UnloadingInv, Unloading, Unmoved
<1>6. CASE Left(a.robot) /\ ~ a.robot.latched /\ a.status = "success" /\ Succeeded
  <2>1. End(TRUE, "complete", "none", "none") /\ UNCHANGED <<count, docked, cause>>
    BY <1>6 DEF Succeeded
  <2>2. Reportable(world, docked, count, TRUE, "none", "none", "complete")
    BY <1>5 DEF Reportable
  <2>3. a.robot.latched = FALSE /\ a.robot.at = "charge"
    BY <1>3, <1>6 DEF Sane, Robot
  <2>4. a.robot.latched = ("complete" = "emergency_stopped")
    BY <2>3
  <2> QED
    BY <1>1, <1>2, <1>4, <1>5, <1>6, <2>1, <2>2, <2>3, <2>4, EndKeeps
<1>7. ASSUME Left(a.robot), ~ a.robot.latched, NEW reason \in Reasons \cap {a.reason, "step_timeout"},
             Failed(reason)
      PROVE  Inv'
  <2>1. Fail(reason) /\ UNCHANGED <<count, docked, cause>>
    BY <1>7 DEF Failed
  <2>2. End(FALSE, "failed", reason, "none")
    BY <2>1, FailIs
  <2>3. reason # "unload_incomplete"
    BY <1>3, <1>7 DEF DriveTo, Drive, StopBeforeObstacle, Timeout, Success, Answer
  <2> QED
    BY <1>1, <1>2, <1>4, <1>5, <1>7, <2>1, <2>2, <2>3, FailKeeps
<1> QED
  BY <1>1, <1>3, <1>4, <1>6, <1>7, ReturnsFacts DEF WentOn

\* A safe retract: whatever the two calls answer, the cycle ends with the cause.
LEMMA RetractLowerReturns ==
  ASSUME Inv, step = "retract_lower", NEW a, a = Lower(world, robot), Returns(a)
  PROVE  Inv'
<1>1. step \in Steps
  BY DEF Steps
<1>2. world \in Worlds /\ Ready(world, robot) /\ RobotFit(world, docked, robot)
  BY <1>1, Here
<1>3. RetractingInv /\ step \in Retracting /\ docked /\ robot.docked
  BY DEF Inv, RetractingInv, Retracting
<1>4. Told(world, a) /\ a.robot.docked
  BY <1>2, <1>3, LowerFacts
<1>5. Sane(world, a) /\ RobotFit(world, docked, a.robot)
  BY <1>2, <1>3, <1>4 DEF Told, RobotFit, Sane
<1>6. Succeeded => GoOn("retract_undock") /\ UNCHANGED <<count, docked, cause>>
  BY DEF Succeeded
<1>7. \A reason : Failed(reason) => GoOn("retract_undock") /\ UNCHANGED <<count, docked, cause>>
  BY DEF Failed
<1>8. ASSUME Left(a.robot), ~ a.robot.latched, GoOn("retract_undock"), UNCHANGED <<count, docked, cause>>
      PROVE  Inv'
  <2>1. /\ step' = "retract_undock" /\ "retract_undock" \notin Trying \cup Unloading
        /\ "retract_undock" \in Steps /\ "retract_undock" \in Retracting
    BY <1>8 DEF GoOn, Steps, Trying, Unloading, Retracting
  <2>2. TryingInv' /\ UnloadingInv'
    BY <2>1, NextCall
  <2>3. robot' = a.robot /\ world' = world /\ count' = count /\ docked' = docked /\ cause' = cause
    BY <1>8 DEF Left
  <2>4. RetractingInv'
    BY <1>3, <1>4, <2>1, <2>3 DEF RetractingInv, TooHigh, TooSteep, MaxDumps
  <2> QED
    BY <1>1, <1>5, <1>8, <2>1, <2>2, <2>3, <2>4, NextStepKeeps
<1> QED
  BY <1>1, <1>5, <1>6, <1>7, <1>8, ReturnsFacts DEF WentOn

LEMMA RetractUndockReturns ==
  ASSUME Inv, step = "retract_undock", NEW a, a = Undock(world, robot), Returns(a)
  PROVE  Inv'
<1>1. step \in Steps
  BY DEF Steps
<1>2. world \in Worlds /\ Ready(world, robot) /\ RobotFit(world, docked, robot) /\ "none" \in FailureReason
  BY <1>1, Here
<1>3. /\ docked /\ robot.docked /\ cause \in Reasons
      /\ cause = "unload_incomplete" => count.dumps = MaxDumps(world)
      /\ TooHigh(world) => cause = "lift_failed"
      /\ TooSteep(world) /\ count.dumps > 0 => cause = "dump_failed"
  BY DEF Inv, RetractingInv, Retracting
<1>4. /\ Told(world, a) /\ a.robot.lift = robot.lift /\ a.robot.angle = robot.angle
      /\ a.status = "success" => Flat(robot)
      /\ a.status # "success" => a.robot = robot
  BY <1>2, <1>3, UndockFacts
<1>5. Sane(world, a) /\ RobotFit(world, docked, a.robot)
  BY <1>2, <1>3, <1>4 DEF Told, RobotFit, Sane, Flat
<1>6. Succeeded => Fail(cause) /\ UNCHANGED <<count, docked, cause>>
  BY DEF Succeeded
<1>7. \A reason : Failed(reason) => Fail(cause) /\ UNCHANGED <<count, docked, cause>>
  BY DEF Failed
<1>8. ASSUME Left(a.robot), ~ a.robot.latched, Fail(cause), UNCHANGED <<count, docked, cause>>
      PROVE  Inv'
  <2>1. End(FALSE, "failed", cause, "none")
    BY <1>3, <1>8, FailIs
  <2> QED
    BY <1>1, <1>2, <1>3, <1>5, <1>8, <2>1, FailKeeps
<1> QED
  BY <1>1, <1>5, <1>6, <1>7, <1>8, ReturnsFacts DEF WentOn

-----------------------------------------------------------------------------
(* Every step of the cycle and of the thread that requests a stop.         *)

LEMMA LuckFacts ==
  ASSUME NEW w \in Worlds, NEW r, NEW s, NEW luck \in Luck(w, r, s)
  PROVE  luck.noise \in [lateral : Int, yaw : Int] /\ luck.empty \in BOOLEAN
<1> DEFINE fixed == [noise |-> [lateral |-> 0, yaw |-> 0], works |-> TRUE, empty |-> FALSE]
<1>1. w.noise \subseteq [lateral : Int, yaw : Int] /\ w.unloads \in [BOOLEAN -> SUBSET BOOLEAN]
  BY WorldAssumption
<1>2. fixed.noise \in [lateral : Int, yaw : Int] /\ fixed.empty \in BOOLEAN
  OBVIOUS
<1>3. CASE s = "approach_handoff_station"
  <2>1. PICK noise \in w.noise : luck = [fixed EXCEPT !.noise = noise]
    BY <1>3 DEF Luck
  <2>2. luck.noise = noise /\ luck.empty = fixed.empty
    BY <2>1
  <2> QED
    BY <1>1, <1>2, <2>2
<1>4. CASE s = "recover_from_failed_docking"
  <2>1. PICK works \in w.recovers : luck = [fixed EXCEPT !.works = works]
    BY <1>4 DEF Luck
  <2>2. luck.noise = fixed.noise /\ luck.empty = fixed.empty
    BY <2>1
  <2> QED
    BY <1>2, <2>2
<1>5. CASE s = "dump"
  <2>1. PICK empty \in Unloads(w, r) : luck = [fixed EXCEPT !.empty = empty]
    BY <1>5 DEF Luck
  <2>2. luck.noise = fixed.noise /\ luck.empty = empty
    BY <2>1
  <2>3. (w.dumpAngle >= w.requiredAngle) \in BOOLEAN
    OBVIOUS
  <2>4. Unloads(w, r) \subseteq BOOLEAN
    BY <1>1, <2>3 DEF Unloads
  <2> QED
    BY <1>2, <2>2, <2>4
<1>6. CASE s \notin {"approach_handoff_station", "recover_from_failed_docking", "dump"}
  <2>1. luck = fixed
    BY <1>6 DEF Luck
  <2> QED
    BY <1>2, <2>1
<1> QED
  BY <1>3, <1>4, <1>5, <1>6

LEMMA ReturnKeeps ==
  ASSUME Inv, Return
  PROVE  Inv'
<1>1. step \in Steps /\ ~ robot.latched /\ world \in Worlds
  BY DEF Return, Inv, ControlInv, RobotInv
<1>2. PICK luck \in Luck(world, robot, step) : Returns(Invoke(world, robot, step, luck))
  BY DEF Return, Returns, Continue
<1>3. luck.noise \in [lateral : Int, yaw : Int] /\ luck.empty \in BOOLEAN
  BY <1>1, LuckFacts
<1> DEFINE a == Invoke(world, robot, step, luck)
<1>4. CASE step = "navigate_to_pose"
  <2>1. a = DriveTo(world, robot, "staging", world.budget[step])
    BY <1>1, <1>4 DEF Invoke
  <2> QED
    BY <1>2, <1>4, <2>1, NavigateReturns
<1>5. CASE step = "approach_handoff_station"
  <2>1. a = Approach(world, robot, luck.noise)
    BY <1>1, <1>5 DEF Invoke
  <2> QED
    BY <1>2, <1>3, <1>5, <2>1, ApproachReturns
<1>6. CASE step = "dock"
  <2>1. a = Dock(world, robot)
    BY <1>1, <1>6 DEF Invoke
  <2> QED
    BY <1>2, <1>6, <2>1, DockReturns
<1>7. CASE step = "verify_docking"
  <2>1. a = VerifyDocking(world, robot)
    BY <1>1, <1>7 DEF Invoke
  <2> QED
    BY <1>2, <1>7, <2>1, VerifyDockingReturns
<1>8. CASE step = "recover_from_failed_docking"
  <2>1. a = Recover(world, robot, luck.works)
    BY <1>1, <1>8 DEF Invoke
  <2> QED
    BY <1>2, <1>8, <2>1, RecoverReturns
<1>9. CASE step = "lift"
  <2>1. a = Lift(world, robot)
    BY <1>1, <1>9 DEF Invoke
  <2> QED
    BY <1>2, <1>9, <2>1, LiftReturns
<1>10. CASE step = "dump"
  <2>1. a = Dump(world, robot, luck.empty)
    BY <1>1, <1>10 DEF Invoke
  <2> QED
    BY <1>2, <1>3, <1>10, <2>1, DumpReturns
<1>11. CASE step = "verify_unloading"
  <2>1. a = VerifyUnloading(world, robot)
    BY <1>1, <1>11 DEF Invoke
  <2> QED
    BY <1>2, <1>11, <2>1, VerifyUnloadingReturns
<1>12. CASE step = "lower"
  <2>1. a = Lower(world, robot)
    BY <1>1, <1>12 DEF Invoke
  <2> QED
    BY <1>2, <1>12, <2>1, LowerReturns
<1>13. CASE step = "undock"
  <2>1. a = Undock(world, robot)
    BY <1>1, <1>13 DEF Invoke
  <2> QED
    BY <1>2, <1>13, <2>1, UndockReturns
<1>14. CASE step = "return_to_charge"
  <2>1. a = DriveTo(world, robot, "charge", world.budget[step])
    BY <1>1, <1>14 DEF Invoke
  <2> QED
    BY <1>2, <1>14, <2>1, ChargeReturns
<1>15. CASE step = "retract_lower"
  <2>1. a = Lower(world, robot)
    BY <1>1, <1>15 DEF Invoke
  <2> QED
    BY <1>2, <1>15, <2>1, RetractLowerReturns
<1>16. CASE step = "retract_undock"
  <2>1. a = Undock(world, robot)
    BY <1>1, <1>16 DEF Invoke
  <2> QED
    BY <1>2, <1>16, <2>1, RetractUndockReturns
<1> QED
  BY <1>1, <1>4, <1>5, <1>6, <1>7, <1>8, <1>9, <1>10, <1>11, <1>12, <1>13, <1>14, <1>15, <1>16
  DEF Steps

LEMMA StopInsteadKeeps ==
  ASSUME Inv, StopInstead
  PROVE  Inv'
<1>1. step \in Steps /\ Halt(robot) /\ running' = FALSE /\ world' = world
      /\ requested' = requested /\ outcome' = outcome
  BY DEF StopInstead, Inv, ControlInv
<1>2. RobotFit(world, docked, robot)
  BY DEF Inv, RobotInv
<1> QED
  BY <1>1, <1>2, HaltKeeps

\* A step that leaves everything but the control state alone.
LEMMA BeginKeeps ==
  ASSUME Inv, Begin
  PROVE  Inv'
<1>1. /\ step \in Steps /\ running' = TRUE
      /\ state' = IF state = "idle" THEN "navigating" ELSE state
      /\ UNCHANGED <<world, robot, step, requested, count, docked, cause, ending, outcome>>
  BY DEF Begin
<1>2. step \notin {"exit", "done"}
  BY <1>1 DEF Steps
<1>3. state = "idle" => StateOf[step] = "navigating"
  BY <1>1 DEF Inv, ControlInv, StateOf
<1>4. ControlInv'
  BY <1>1, <1>3 DEF Inv, ControlInv, HandoffState
<1>5. RobotInv' /\ CountInv' /\ TryingInv' /\ UnloadingInv' /\ RetractingInv'
  BY <1>1 DEF Inv, RobotInv, CountInv, TryingInv, UnloadingInv, RetractingInv
<1>6. EndingInv' /\ OutcomeInv'
  BY <1>1, <1>2 DEF Inv, EndingInv, OutcomeInv
<1> QED
  BY <1>4, <1>5, <1>6 DEF Inv

LEMMA RequestKeeps ==
  ASSUME Inv, RequestEmergencyStop
  PROVE  Inv'
<1>1. /\ requested' = TRUE
      /\ UNCHANGED <<world, robot, state, step, running, count, docked, cause, ending, outcome>>
  BY DEF RequestEmergencyStop
<1>2. ControlInv'
  BY <1>1 DEF Inv, ControlInv
<1>3. RobotInv' /\ CountInv' /\ TryingInv' /\ UnloadingInv' /\ RetractingInv'
  BY <1>1 DEF Inv, RobotInv, CountInv, TryingInv, UnloadingInv, RetractingInv
<1>4. EndingInv' /\ OutcomeInv'
  BY <1>1 DEF Inv, EndingInv, OutcomeInv
<1> QED
  BY <1>2, <1>3, <1>4 DEF Inv

LEMMA StutterKeeps ==
  ASSUME Inv, UNCHANGED vars
  PROVE  Inv'
BY DEF vars, Inv, ControlInv, RobotInv, CountInv, TryingInv, UnloadingInv, RetractingInv,
       EndingInv, OutcomeInv

LEMMA OutcomeKeeps ==
  ASSUME Inv, Outcome
  PROVE  Inv'
<1>1. /\ step = "exit" /\ step' = "done"
      /\ UNCHANGED <<world, running, requested, count, docked, cause, ending>>
  BY DEF Outcome
<1>2. /\ world \in Worlds /\ RobotFit(world, docked, robot) /\ robot \in Robot
      /\ docked \in BOOLEAN /\ count \in Count /\ running \in BOOLEAN /\ (running => step \in Steps)
      /\ state \in HandoffState
  BY DEF Inv, ControlInv, RobotInv, RobotFit
<1>3. /\ ending \in Ending /\ ending.final = state /\ robot.latched = (ending.final = "emergency_stopped")
      /\ Reportable(world, docked, count, ending.success, ending.reason, ending.underlying, ending.final)
      /\ ending.success => robot.at = "charge" /\ robot.unloaded /\ ~ robot.docked
  BY <1>1 DEF Inv, EndingInv
<1>4. "exit" \notin Steps /\ "done" \notin Steps \cup Trying \cup Unloading \cup Retracting
  BY DEF Steps, Trying, Unloading, Retracting
<1>5. CountInv' /\ TryingInv' /\ UnloadingInv' /\ RetractingInv'
  BY <1>1, <1>4 DEF Inv, CountInv, TryingInv, UnloadingInv, RetractingInv
<1>6. state' \in HandoffState => ControlInv'
  BY <1>1, <1>2, <1>4 DEF Inv, ControlInv
<1>7. CASE Pending
  <2> DEFINE new == EmergencyStop(robot)
             underlying == IF ending.underlying = "none" THEN ending.reason ELSE ending.underlying
             told == IF underlying = "emergency_stop" THEN "none" ELSE underlying
             e == [success |-> FALSE, final |-> "emergency_stopped",
                   reason |-> "emergency_stop", underlying |-> underlying]
             o == [success |-> FALSE, docked |-> docked, final |-> "emergency_stopped",
                   reason |-> "emergency_stop", underlying |-> told, count |-> count]
  <2>1. robot' = new /\ state' = "emergency_stopped" /\ Report(e)
    BY <1>7 DEF Outcome
  <2>2. outcome' = o
    BY <2>1 DEF Report
  <2>3. /\ new \in Robot /\ new.latched = TRUE /\ Unmoved(robot, new) /\ new.at = robot.at
        /\ new.hit = robot.hit /\ new.obstacle = robot.obstacle
    BY <1>2 DEF EmergencyStop, Robot, Unmoved
  <2> HIDE DEF new
  <2>4. RobotFit(world, docked, new)
    BY <1>2, <2>3 DEF RobotFit, InRange, Clear, Flat, Unmoved
  <2>5. RobotInv'
    BY <1>1, <1>4, <2>1, <2>4 DEF RobotInv
  <2>6. EndingInv'
    BY <1>1, <1>3, <2>1, <2>3 DEF EndingInv, Unmoved
  <2>7. told \in FailureReason
    BY <1>3 DEF Ending, FailureReason
  <2> HIDE DEF told
  <2>8. o \in CycleOutcome
    BY <1>2, <2>7 DEF CycleOutcome, Count, FailureReason
  <2>9. Reportable(world, docked, count, FALSE, "emergency_stop", told, "emergency_stopped")
    BY DEF Reportable
  <2>10. OutcomeInv'
    BY <1>1, <2>1, <2>2, <2>3, <2>8, <2>9 DEF OutcomeInv
  <2>11. ControlInv'
    BY <1>6, <2>1 DEF HandoffState
  <2> QED
    BY <1>5, <2>5, <2>6, <2>10, <2>11 DEF Inv
<1>8. CASE ~ Pending
  <2> DEFINE told == IF ending.underlying = ending.reason THEN "none" ELSE ending.underlying
             o == [success |-> ending.success, docked |-> docked, final |-> ending.final,
                   reason |-> ending.reason, underlying |-> told, count |-> count]
  <2>1. robot' = robot /\ state' = state /\ outcome' = o
    BY <1>8 DEF Outcome, Report
  <2>2. told \in FailureReason
    BY <1>3 DEF Ending, FailureReason
  <2>3. ending.reason = "recovery_exhausted" => told = ending.underlying
    BY <1>3 DEF Reportable
  <2> HIDE DEF told
  <2>4. o \in CycleOutcome
    BY <1>2, <1>3, <2>2 DEF Ending, CycleOutcome, Count
  <2>5. Reportable(world, docked, count, ending.success, ending.reason, told, ending.final)
    BY <1>3, <2>3 DEF Reportable
  <2>6. ending.success => Arrived(robot)
    BY <1>3 DEF Reportable, Arrived
  <2>7. OutcomeInv'
    BY <1>1, <1>3, <2>1, <2>4, <2>5, <2>6 DEF OutcomeInv
  <2>8. RobotInv'
    BY <1>1, <1>2, <1>4, <2>1 DEF RobotInv
  <2>9. EndingInv'
    BY <1>1, <1>3, <2>1 DEF EndingInv
  <2>10. ControlInv'
    BY <1>2, <1>6, <2>1
  <2> QED
    BY <1>5, <2>7, <2>8, <2>9, <2>10 DEF Inv
<1> QED
  BY <1>7, <1>8

LEMMA InitInv ==
  ASSUME Init
  PROVE  Inv
<1>1. /\ world \in Worlds /\ robot = NewRobot(world) /\ state = "idle" /\ step = "navigate_to_pose"
      /\ running = FALSE /\ requested = FALSE /\ docked = FALSE /\ cause = "none" /\ outcome = None
      /\ count = [attempts |-> 0, recoveries |-> 0, recovered |-> 0, dumps |-> 0]
  BY DEF Init
<1>2. /\ world.obstacle \in Nat \cup {None} /\ world.liftTravel \in Nat /\ world.maxAngle \in Nat
      /\ world.trigger \in Nat /\ world.dockingRetries \in Nat /\ world.dumpRetries \in Nat
      /\ world.initialError \in [lateral : Int, longitudinal : Int, yaw : Int]
      /\ world.force \in [dock : Nat, verify : Nat, unload : Nat, recovery : Nat]
  BY <1>1, WorldAssumption
<1>3. /\ robot.docked = FALSE /\ robot.lift = 0 /\ robot.angle = 0 /\ robot.latched = FALSE
      /\ robot.unloaded = FALSE /\ robot.obstacle = world.obstacle /\ robot.hit = FALSE
  BY <1>1 DEF NewRobot
<1>4. robot \in Robot
  BY <1>1, <1>2 DEF NewRobot, Robot, Poses
<1>5. RobotFit(world, docked, robot)
  BY <1>1, <1>2, <1>3, <1>4 DEF RobotFit, InRange, Clear, Flat
<1>6. "navigate_to_pose" \in Steps \cap Trying /\ "navigate_to_pose" \notin Unloading \cup Retracting
  BY DEF Steps, Trying, Unloading, Retracting
<1>7. ControlInv
  BY <1>1, <1>6 DEF ControlInv, HandoffState, FailureReason, Count
<1>8. RobotInv
  BY <1>3, <1>5 DEF RobotInv
<1>9. CountInv
  BY <1>1, <1>2 DEF CountInv, MaxAttempts, MaxDumps
<1>10. TryingInv /\ UnloadingInv /\ RetractingInv
  BY <1>1, <1>3, <1>6 DEF TryingInv, UnloadingInv, RetractingInv, Flat
<1>11. EndingInv /\ OutcomeInv
  BY <1>1 DEF EndingInv, OutcomeInv
<1> QED
  BY <1>7, <1>8, <1>9, <1>10, <1>11 DEF Inv

\* The invariant the safety of the cycle rests on: what the next call of the robot
\* may rely on, and what may be reported once no call is left.
THEOREM HandoffInvariant == Spec => []Inv
<1>1. ASSUME Inv, [Next]_vars
      PROVE  Inv'
  <2>1. CASE Begin
    BY <1>1, <2>1, BeginKeeps
  <2>2. CASE StopInstead
    BY <1>1, <2>2, StopInsteadKeeps
  <2>3. CASE Return
    BY <1>1, <2>3, ReturnKeeps
  <2>4. CASE Outcome
    BY <1>1, <2>4, OutcomeKeeps
  <2>5. CASE RequestEmergencyStop
    BY <1>1, <2>5, RequestKeeps
  <2>6. CASE UNCHANGED vars
    BY <1>1, <2>6, StutterKeeps
  <2> QED
    BY <1>1, <2>1, <2>2, <2>3, <2>4, <2>5, <2>6 DEF Next, Cycle
<1> QED
  BY <1>1, InitInv, PTL DEF Spec

LEMMA InvIsSafe ==
  ASSUME Inv
  PROVE  HandoffIsSafe
<1>1. /\ world \in Worlds /\ RobotFit(world, docked, robot) /\ robot \in Robot
      /\ docked \in BOOLEAN /\ count \in Count
  BY DEF Inv, ControlInv, RobotInv, RobotFit
<1>2. /\ world.liftTravel \in Nat /\ world.maxAngle \in Nat /\ world.liftTarget \in Int
      /\ world.inletHeight \in Int /\ world.dumpAngle \in Int
      /\ world.trigger \in Nat /\ world.stopping \in Nat
  BY <1>1, WorldFacts
<1>3. /\ step = "done" <=> outcome # None
      /\ outcome # None =>
           /\ outcome \in CycleOutcome /\ outcome.count = count
           /\ Reportable(world, docked, count, outcome.success, outcome.reason, outcome.underlying, outcome.final)
           /\ outcome.success => Arrived(robot)
           /\ outcome.docked = docked /\ outcome.final = state
           /\ robot.latched = (outcome.final = "emergency_stopped")
  BY NoneAssumption DEF Inv, OutcomeInv
<1>4. TypeOK
  <2>1. (step = "done") = (outcome # None)
    BY <1>3
  <2>2. outcome \in CycleOutcome \cup {None}
    BY <1>3
  <2>3. robot.at \in Poses /\ robot.lift \in 0 .. world.liftTravel /\ robot.angle \in 0 .. world.maxAngle
    BY <1>1 DEF RobotFit, InRange, Robot
  <2> QED
    BY <2>1, <2>2, <2>3 DEF TypeOK, Inv, ControlInv, Retracting
<1>5. NeverLeavesRaised
  BY <1>1 DEF NeverLeavesRaised, RobotFit, Flat
<1>6. NoMotionAfterTheStop
  BY DEF NoMotionAfterTheStop, Inv, RobotInv, ControlInv
<1>7. CountsAddUp
  BY <1>3 DEF CountsAddUp, Inv, CountInv, Reportable
<1>8. OutcomeIsTrue
  <2>1. robot.lift > 0 => docked
    BY <1>1 DEF RobotFit
  <2>2. ASSUME outcome # None
        PROVE  /\ outcome.success => outcome.final = "complete" /\ outcome.docked
               /\ outcome.success \/ outcome.reason # "none"
    BY <1>3, <2>2 DEF Reportable
  <2> QED
    BY <1>3, <2>1, <2>2 DEF OutcomeIsTrue, Arrived
<1>9. WarningsComeTrue
  <2>1. Warned.geometry => ~ robot.docked /\ ~ docked
    <3>1. robot.docked \/ docked => world.fits /\ world.inletHeight <= world.liftTravel
      BY <1>1 DEF RobotFit, Compatible
    <3>2. Warned.geometry = (~ world.fits \/ world.inletHeight > world.liftTravel)
      BY DEF Warned
    <3>3. world.inletHeight <= world.liftTravel => ~ (world.inletHeight > world.liftTravel)
      BY <1>2
    <3> QED
      BY <3>1, <3>2, <3>3
  <2>2. Warned.lift = TooHigh(world) /\ Warned.dump = TooSteep(world)
    BY DEF Warned, TooHigh, TooSteep
  <2>3. ASSUME outcome # None, outcome.final = "failed", outcome.docked
        PROVE  /\ Warned.lift => outcome.reason = "lift_failed"
               /\ Warned.dump /\ count.dumps > 0 => outcome.reason = "dump_failed"
    BY <1>3, <2>2, <2>3 DEF Reportable
  <2>4. ASSUME outcome # None, outcome.success
        PROVE  ~ Warned.geometry /\ ~ Warned.lift /\ ~ Warned.dump
    BY <1>3, <2>1, <2>2, <2>4 DEF Reportable
  <2> QED
    BY <2>1, <2>3, <2>4 DEF WarningsComeTrue
<1>10. StopsClear
  <2>1. Warned.stopping = (world.stopping >= world.trigger)
    BY DEF Warned
  <2>2. ~ (world.stopping >= world.trigger) => world.stopping < world.trigger
    BY <1>2
  <2>3. Clear(world, robot)
    BY <1>1 DEF RobotFit
  <2> QED
    BY <2>1, <2>2, <2>3 DEF StopsClear, Clear
<1> QED
  BY <1>4, <1>5, <1>6, <1>7, <1>8, <1>9, <1>10 DEF HandoffIsSafe

\* However a cycle ends, the robot is safe to be with and the outcome says what
\* happened, for every bundle the loader and the cross validation accept.
THEOREM HandoffSafety == Spec => []HandoffIsSafe
BY HandoffInvariant, InvIsSafe, PTL
=============================================================================
