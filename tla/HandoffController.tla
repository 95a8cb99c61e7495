------------------------- MODULE HandoffController -------------------------
(***************************************************************************)
(* The handoff cycle: HandoffController.run_cycle drives one robot through *)
(* navigation, docking with recovery and retries, lifting, dumping with    *)
(* retries, lowering and the way back, while another thread may request an *)
(* emergency stop at any moment.  A call of the robot is two steps here:   *)
(* Begin reads the request flag, Return is the answer of the robot.        *)
(*                                                                         *)
(*   world      the validated bundle of the run (never changes)            *)
(*   robot      the simulated robot, see HandoffRobot                      *)
(*   state      the HandoffState of the controller                         *)
(*   step       the call the cycle makes next, "exit" or "done"            *)
(*   running    the call is under way                                      *)
(*   requested  the external emergency stop request                        *)
(*   count      attempts, recoveries, recovered, dumps                     *)
(*   docked     docking was verified                                       *)
(*   cause      the failure that led to a recovery or a retract            *)
(*   ending     what the cycle is about to report                          *)
(*   outcome    the CycleOutcome, None while the cycle runs                *)
(***************************************************************************)
EXTENDS HandoffRobot

CONSTANT Worlds     \* the bundles the loader and the cross validation accept

\* What the models of the bundle ensure: lengths, angles, budgets and numbers of
\* retries are not negative; targets, poses and errors may be anything.
ASSUME WorldAssumption ==
    \A w \in Worlds :
        /\ w.place \in [Poses -> Int] /\ w.budget \in [Steps -> Nat]
        /\ w.obstacle \in Nat \cup {None}
        /\ {w.trigger, w.stopping, w.braking, w.guideDepth, w.alignment, w.verifying,
            w.recovering, w.dwell, w.liftTravel, w.maxAngle, w.dockingRetries,
            w.dumpRetries} \subseteq Nat
        /\ {w.inletHeight, w.liftTarget, w.dumpAngle} \subseteq Int
        /\ w.initialError \in [lateral : Int, longitudinal : Int, yaw : Int]
        /\ w.noise \subseteq [lateral : Int, yaw : Int]
        /\ w.recovers \subseteq BOOLEAN
        /\ w.unloads \in [BOOLEAN -> SUBSET BOOLEAN]
        /\ w.force \in [dock : Nat, verify : Nat, unload : Nat, recovery : Nat]

CycleOutcome ==
    [success : BOOLEAN, docked : BOOLEAN, final : {"complete", "failed", "emergency_stopped"},
     reason : FailureReason, underlying : FailureReason,
     count : [attempts : Nat, recoveries : Nat, recovered : Nat, dumps : Nat]]
ASSUME NoneAssumption == None \notin Nat /\ None \notin CycleOutcome

VARIABLES world, robot, state, step, running, requested, count, docked, cause, ending, outcome

vars == <<world, robot, state, step, running, requested, count, docked, cause, ending, outcome>>

HandoffState ==
    {"idle", "navigating", "approaching", "docking", "verifying_dock", "lifting", "dumping",
     "verifying_unload", "lowering", "undocking", "returning", "recovering", "complete",
     "failed", "emergency_stopped"}

\* The state the controller is in while it calls a step.
StateOf ==
    [s \in Steps |->
        CASE s = "navigate_to_pose" -> "navigating"
          [] s = "approach_handoff_station" -> "approaching"
          [] s = "dock" -> "docking"
          [] s = "verify_docking" -> "verifying_dock"
          [] s = "recover_from_failed_docking" -> "recovering"
          [] s = "lift" -> "lifting"
          [] s = "dump" -> "dumping"
          [] s = "verify_unloading" -> "verifying_unload"
          [] s \in {"lower", "retract_lower"} -> "lowering"
          [] s \in {"undock", "retract_undock"} -> "undocking"
          [] s = "return_to_charge" -> "returning"]

DefaultReason ==
    [s \in Steps |->
        CASE s \in {"navigate_to_pose", "return_to_charge"} -> "navigation_failed"
          [] s = "approach_handoff_station" -> "approach_failed"
          [] s = "dock" -> "dock_failed"
          [] s = "verify_docking" -> "dock_verify_failed"
          [] s = "recover_from_failed_docking" -> "recovery_failed"
          [] s = "lift" -> "lift_failed"
          [] s = "dump" -> "dump_failed"
          [] s = "verify_unloading" -> "unload_incomplete"
          [] s \in {"lower", "retract_lower"} -> "lower_failed"
          [] s \in {"undock", "retract_undock"} -> "undock_failed"]

MaxAttempts(w) == 1 + w.dockingRetries
MaxDumps(w) == 1 + w.dumpRetries

Init ==
    /\ world \in Worlds
    /\ robot = NewRobot(world)
    /\ state = "idle"
    /\ step = "navigate_to_pose"
    /\ running = FALSE
    /\ requested = FALSE
    /\ count = [attempts |-> 0, recoveries |-> 0, recovered |-> 0, dumps |-> 0]
    /\ docked = FALSE
    /\ cause = "none"
    /\ ending = None
    /\ outcome = None

-----------------------------------------------------------------------------
\* How _call reads an answer: success past the budget is a timeout, a bare
\* failure gets the default reason of its step.
Judged(answer) ==
    LET late == answer.status = "success" /\ answer.duration > world.budget[step]
        status == IF late THEN "timeout" ELSE answer.status
        reason == CASE late \/ (status = "timeout" /\ answer.reason = "none") -> "step_timeout"
                    [] status = "failure" /\ answer.reason = "none" -> DefaultReason[step]
                    [] status = "emergency_stopped" -> "emergency_stop"
                    [] OTHER -> answer.reason
    IN  [status |-> status, reason |-> reason]

\* Going on with the next call; the states of a retract are those of the
\* failure, it makes no transition.
GoOn(next) ==
    /\ step' = next
    /\ state' = IF next \in {"retract_lower", "retract_undock"} THEN state ELSE StateOf[next]
    /\ UNCHANGED ending

End(success, final, reason, underlying) ==
    /\ step' = "exit"
    /\ state' = final
    /\ ending' = [success |-> success, final |-> final, reason |-> reason,
                  underlying |-> underlying]

\* _finish_failure: an overriding reason keeps the result's own as underlying.
Fail(reason) == End(FALSE, "failed", IF reason = "none" THEN "invalid_state" ELSE reason, "none")

\* _finish_estop
Stop(underlying) == End(FALSE, "emergency_stopped", "emergency_stop", underlying)

\* The emergency stop reported by a call, or honoured instead of one: the
\* platform is latched and the cycle ends.  A retract keeps its cause.
Halt(r) ==
    /\ robot' = EmergencyStop(r)
    /\ Stop(IF step \in {"retract_lower", "retract_undock"} THEN cause ELSE "none")
    /\ UNCHANGED <<count, docked, cause>>

-----------------------------------------------------------------------------

\* What the cycle does with the answer of a docking step that did not succeed.
DockingFailed(reason) ==
    IF count.attempts < MaxAttempts(world)
    THEN /\ cause' = reason
         /\ count' = [count EXCEPT !.recoveries = @ + 1]
         /\ GoOn("recover_from_failed_docking")
         /\ UNCHANGED docked
    ELSE /\ IF MaxAttempts(world) = 1 THEN Fail(reason)
            ELSE End(FALSE, "failed", "recovery_exhausted", reason)
         /\ UNCHANGED <<count, docked, cause>>

FailWithRetract(reason) ==
    /\ cause' = reason
    /\ GoOn("retract_lower")
    /\ UNCHANGED <<count, docked>>

DumpFellShort(reason) ==
    IF count.dumps < MaxDumps(world)
    THEN /\ count' = [count EXCEPT !.dumps = @ + 1]
         /\ GoOn("dump")
         /\ UNCHANGED <<docked, cause>>
    ELSE FailWithRetract(reason)

Failed(reason) ==
    CASE step \in {"navigate_to_pose", "lower", "undock", "return_to_charge"} ->
            Fail(reason) /\ UNCHANGED <<count, docked, cause>>
      [] step \in {"approach_handoff_station", "dock", "verify_docking"} ->
            DockingFailed(reason)
      [] step = "recover_from_failed_docking" ->
            /\ End(FALSE, "failed", "recovery_failed", cause)
            /\ UNCHANGED <<count, docked, cause>>
      [] step = "verify_unloading" -> DumpFellShort(reason)
      [] step \in {"lift", "dump"} -> FailWithRetract(reason)
      [] step = "retract_lower" ->
            GoOn("retract_undock") /\ UNCHANGED <<count, docked, cause>>
      [] step = "retract_undock" ->
            Fail(cause) /\ UNCHANGED <<count, docked, cause>>

Approaching ==
    /\ count' = [count EXCEPT !.attempts = @ + 1,
                              !.recovered = IF step = "navigate_to_pose" THEN @ ELSE @ + 1]
    /\ GoOn("approach_handoff_station")
    /\ UNCHANGED <<docked, cause>>

Succeeded ==
    CASE step \in {"navigate_to_pose", "recover_from_failed_docking"} -> Approaching
      [] step = "verify_docking" ->
            docked' = TRUE /\ GoOn("lift") /\ UNCHANGED <<count, cause>>
      [] step = "lift" ->
            /\ count' = [count EXCEPT !.dumps = @ + 1]
            /\ GoOn("dump")
            /\ UNCHANGED <<docked, cause>>
      [] step = "return_to_charge" ->
            End(TRUE, "complete", "none", "none") /\ UNCHANGED <<count, docked, cause>>
      [] step = "retract_undock" -> Fail(cause) /\ UNCHANGED <<count, docked, cause>>
      [] OTHER ->
            /\ GoOn(CASE step = "approach_handoff_station" -> "dock"
                      [] step = "dock" -> "verify_docking"
                      [] step = "dump" -> "verify_unloading"
                      [] step = "verify_unloading" -> "lower"
                      [] step = "lower" -> "undock"
                      [] step = "undock" -> "return_to_charge"
                      [] step = "retract_lower" -> "retract_undock")
            /\ UNCHANGED <<count, docked, cause>>

-----------------------------------------------------------------------------
\* _call reads the request flag: the robot is stopped instead of moved, or the
\* call begins.
Begin ==
    /\ step \in Steps /\ ~running
    /\ state' = IF state = "idle" THEN "navigating" ELSE state
    /\ ~requested
    /\ running' = TRUE
    /\ UNCHANGED <<world, robot, step, requested, count, docked, cause, ending, outcome>>

StopInstead ==
    /\ step \in Steps /\ ~running
    /\ requested
    /\ Halt(robot)
    /\ UNCHANGED <<world, running, requested, outcome>>

\* The call returns, whatever was requested meanwhile.
Return ==
    /\ running
    /\ running' = FALSE
    /\ \E luck \in Luck(world, robot, step) :
         LET answer == Invoke(world, robot, step, luck)
             result == Judged(answer)
         IN  CASE result.status = "emergency_stopped" -> Halt(answer.robot)
               [] result.status = "success" -> robot' = answer.robot /\ Succeeded
               [] OTHER -> robot' = answer.robot /\ Failed(result.reason)
    /\ UNCHANGED <<world, requested, outcome>>

\* _outcome: a request that no further call would see is honoured here.
PendingOnFailure == requested /\ ending.final = "failed"

Pending == requested /\ ending.final # "emergency_stopped"

Report(e) ==
    outcome' = [success |-> e.success, docked |-> docked, final |-> e.final,
                reason |-> e.reason,
                underlying |-> IF e.underlying = e.reason THEN "none" ELSE e.underlying,
                count |-> count]

Outcome ==
    /\ step = "exit"
    /\ step' = "done"
    /\ IF Pending
       THEN /\ robot' = EmergencyStop(robot)
            /\ state' = "emergency_stopped"
            /\ Report([success |-> FALSE, final |-> "emergency_stopped",
                       reason |-> "emergency_stop",
                       underlying |-> IF ending.underlying = "none" THEN ending.reason
                                      ELSE ending.underlying])
       ELSE Report(ending) /\ UNCHANGED <<robot, state>>
    /\ UNCHANGED <<world, running, requested, count, docked, cause, ending>>

RequestEmergencyStop ==
    /\ ~requested
    /\ requested' = TRUE
    /\ UNCHANGED <<world, robot, state, step, running, count, docked, cause, ending, outcome>>

Cycle == Begin \/ StopInstead \/ Return \/ Outcome

Next == Cycle \/ RequestEmergencyStop

Spec == Init /\ [][Next]_vars

\* A call of the robot returns (its budget is a hard limit) and the thread of
\* the cycle runs on; nobody has to request a stop.
FairSpec == Spec /\ WF_vars(Cycle)

-----------------------------------------------------------------------------
\* The warnings of the cross validation that announce how a run will end.
Warned ==
    [geometry |-> ~world.fits \/ world.inletHeight > world.liftTravel,
     lift |-> world.liftTarget > world.liftTravel,
     dump |-> world.dumpAngle > world.maxAngle,
     stopping |-> world.stopping >= world.trigger]

TypeOK ==
    /\ world \in Worlds
    /\ state \in HandoffState
    /\ step \in Steps \cup {"exit", "done"}
    /\ running \in BOOLEAN /\ requested \in BOOLEAN /\ docked \in BOOLEAN
    /\ cause \in FailureReason
    /\ robot.at \in Poses
    /\ robot.lift \in 0 .. world.liftTravel /\ robot.angle \in 0 .. world.maxAngle
    /\ outcome \in CycleOutcome \cup {None} /\ (step = "done") = (outcome # None)
    /\ step \in Steps /\ state # "idle" =>
         state = StateOf[step] \/ step \in {"retract_lower", "retract_undock"}

\* However the cycle ends, and after whatever failures and retries, a robot
\* that is not docked has its basket down and level: it never leaves the
\* station with the basket raised.
NeverLeavesRaised == robot.docked \/ (robot.lift = 0 /\ robot.angle = 0)

\* Once the emergency stop is latched no call of the robot is under way or
\* still to come, a safe retract included.
NoMotionAfterTheStop == robot.latched => ~running /\ step \in {"exit", "done"}

\* The counters of an outcome add up: every attempt after the first follows a
\* recovery that worked, no budget of retries is exceeded, and a cycle that
\* ran out of attempts or of dumps had used them all.
CountsAddUp ==
    /\ count.attempts <= MaxAttempts(world) /\ count.dumps <= MaxDumps(world)
    /\ count.recovered <= count.recoveries /\ count.recoveries <= count.recovered + 1
    /\ count.attempts > 0 => count.attempts = count.recovered + 1
    /\ outcome # None /\ outcome.reason = "recovery_exhausted" =>
         /\ count.attempts = MaxAttempts(world)
         /\ ~outcome.docked
         /\ outcome.underlying # "none"
    /\ outcome # None /\ outcome.reason = "unload_incomplete" =>
         count.dumps = MaxDumps(world)

\* A cycle reports success exactly for a robot that stands at its charger,
\* undocked, emptied and not stopped; it reports the emergency stop exactly when
\* the platform is latched; a failure names its reason.
OutcomeIsTrue ==
    outcome # None =>
       /\ outcome.success =>
            /\ outcome.final = "complete" /\ outcome.docked
            /\ robot.at = "charge" /\ robot.unloaded
            /\ ~robot.docked /\ ~robot.latched
       /\ robot.latched <=> outcome.final = "emergency_stopped"
       /\ outcome.success \/ outcome.reason # "none"
       /\ outcome.final = state
       /\ robot.lift > 0 => outcome.docked

\* What the cross validation announces comes true: an incompatible station is
\* never docked at, and a cycle that fails after docking fails for the reason
\* the warning names.
WarningsComeTrue ==
    /\ Warned.geometry => ~robot.docked /\ ~docked
    /\ outcome # None /\ outcome.final = "failed" /\ outcome.docked =>
         /\ Warned.lift => outcome.reason = "lift_failed"
         /\ Warned.dump /\ count.dumps > 0 => outcome.reason = "dump_failed"
    /\ outcome # None /\ outcome.success =>
         ~Warned.geometry /\ ~Warned.lift /\ ~Warned.dump

\* A robot whose stopping distance is shorter than the trigger distance never
\* runs into an obstacle that was farther than the trigger at the start, over
\* however many drives and timeouts it gets there.
StopsClear ==
    ~Warned.stopping /\ world.obstacle # None /\ world.obstacle >= world.trigger => ~robot.hit

\* However a cycle ends, the robot is safe to be with and the outcome says what happened.
HandoffIsSafe ==
    TypeOK /\ NeverLeavesRaised /\ NoMotionAfterTheStop /\ CountsAddUp /\ OutcomeIsTrue
    /\ WarningsComeTrue /\ StopsClear

\* A cycle always ends.
CycleEnds == []<>(outcome # None)

\* An emergency stop requested before the cycle has reported is never dropped:
\* the platform gets latched and the outcome says so.
StopIsHonoured ==
    (requested /\ outcome = None) ~> (robot.latched /\ outcome # None /\ outcome.final = "emergency_stopped")
=============================================================================
