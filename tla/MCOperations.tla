---------------------------- MODULE MCOperations ----------------------------
(***************************************************************************)
(* Four models that share nothing, in one run: which of them a behaviour   *)
(* belongs to is fixed in its first state, the variables of the others do  *)
(* not move.  Each is explored as if it were alone.                        *)
(*   handoff      one cycle of the handoff controller                      *)
(*   feed         batches of samples through adapters and assembly         *)
(*   unloading    the simulator with one robot, two balls and a failure    *)
(*   helping      the simulator with two robots, without balls             *)
(***************************************************************************)
EXTENDS HandoffController

CONSTANTS Off, NotFinite

VARIABLES
    part,
    deployment, batches, feed, frames, delivery, verdict, checkpoint, published, fate, up, faults,
    startedOver,
    rob, balls, open, line, helpLine, phase, closed, mishaps

feedVars ==
    <<deployment, batches, frames, feed, delivery, verdict, checkpoint, published, fate, up, faults,
      startedOver>>
simulatorVars == <<rob, balls, open, line, helpLine, phase, closed, mishaps>>

Bundles == INSTANCE MCHandoff
MCWorlds == Bundles!Varied

FeedRobots == {"R"}
FeedActivities == {"idle", "working"}
FeedOrder == <<"R", "cell1", "cell2", "gate", "ghost", "io", "other", "stranger">>
Given == INSTANCE MCObservation WITH
    SampleOrder <- FeedOrder, Robots <- FeedRobots, TotalBalls <- 2, MaxAge <- 3,
    RobotActivities <- FeedActivities
Feed == INSTANCE ObservationIntake WITH
    SampleOrder <- FeedOrder, Robots <- FeedRobots, TotalBalls <- 2, MaxAge <- 3,
    RobotActivities <- FeedActivities, Setups <- Given!MCSetups

ASSUME Feed!AssemblyAssumption

Unloading == INSTANCE RangeOps WITH
    Robots <- {"r1"}, Zones <- {"z1"}, StationOrder <- <<"s1">>,
    TotalBalls <- 2, PayloadCapacity <- 1, CollectCycle <- 1, BufferCapacity <- 1,
    WashBatch <- 2, MaxDemand <- 1, DockSlots <- 1, MaxQueueLength <- 1, ChargerSlots <- 1,
    Staff <- 1, MaxRobotsPerZone <- 1, MaxDockRetries <- 1, Capacity <- 2, InitialBattery <- 2,
    ChargeTarget <- 2, MinReserve <- 1, HardFloor <- 0, MaxFaults <- 1, faults <- mishaps
Helping == INSTANCE RangeOps WITH
    Robots <- {"r1", "r2"}, Zones <- {"z1"}, StationOrder <- <<"s1">>,
    TotalBalls <- 0, PayloadCapacity <- 1, CollectCycle <- 1, BufferCapacity <- 1,
    WashBatch <- 2, MaxDemand <- 1, DockSlots <- 1, MaxQueueLength <- 1, ChargerSlots <- 1,
    Staff <- 1, MaxRobotsPerZone <- 1, MaxDockRetries <- 1, Capacity <- 2, InitialBattery <- 2,
    ChargeTarget <- 2, MinReserve <- 1, HardFloor <- 0, MaxFaults <- 0, faults <- mishaps

-----------------------------------------------------------------------------
\* A cycle that has not begun, for the others.
HandoffOff == world = Bundles!Ordinary /\ Init
FeedOff ==
    /\ deployment = Off /\ batches = Off /\ frames = Off /\ feed = Off /\ delivery = Off
    /\ verdict = Off /\ checkpoint = Off /\ published = Off /\ fate = Off /\ up = Off
    /\ faults = Off /\ startedOver = Off
SimulatorOff ==
    /\ rob = Off /\ balls = Off /\ open = Off /\ line = Off /\ helpLine = Off
    /\ phase = Off /\ closed = Off /\ mishaps = Off

OperationsInit ==
    \/ part = "handoff" /\ Init /\ FeedOff /\ SimulatorOff
    \/ part = "feed" /\ Feed!Init /\ HandoffOff /\ SimulatorOff
    \/ part = "unloading" /\ Unloading!Init /\ HandoffOff /\ FeedOff
    \/ part = "helping" /\ Helping!Init /\ HandoffOff /\ FeedOff

OperationsNext ==
    /\ UNCHANGED part
    /\ \/ part = "handoff" /\ Next /\ UNCHANGED <<feedVars, simulatorVars>>
       \/ part = "feed" /\ Feed!Next /\ UNCHANGED <<vars, simulatorVars>>
       \/ part = "unloading" /\ Unloading!Next /\ UNCHANGED <<vars, feedVars>>
       \/ part = "helping" /\ Helping!Next /\ UNCHANGED <<vars, feedVars>>

(* The fairness each model states for itself.                              *)
Fairness ==
    /\ WF_vars(part = "handoff" /\ Cycle)
    /\ WF_feedVars(part = "feed" /\ Feed!Observe)
    /\ WF_feedVars(part = "feed" /\ Feed!Process)
    /\ SF_feedVars(part = "feed" /\ Feed!Settle)
    /\ WF_feedVars(part = "feed" /\ (Feed!Resume \/ Feed!StartOver))
    /\ WF_simulatorVars(\/ part = "unloading" /\ (Unloading!Flush \/ Unloading!Directive)
                        \/ part = "helping" /\ (Helping!Flush \/ Helping!Directive))
    /\ SF_simulatorVars(\/ part = "unloading" /\ Unloading!Run /\ Unloading!Wash
                        \/ part = "helping" /\ Helping!Run /\ Helping!Wash)
    /\ SF_simulatorVars(\/ part = "unloading" /\ Unloading!Run /\ Unloading!Task("r1")
                        \/ part = "helping" /\ Helping!Run /\ Helping!Task("r1"))
    /\ SF_simulatorVars(\/ part = "unloading" /\ Unloading!Run /\ Unloading!HumanDone("r1")
                        \/ part = "helping" /\ Helping!Run /\ Helping!HumanDone("r1"))
    /\ SF_simulatorVars(part = "helping" /\ Helping!Run /\ Helping!Task("r2"))
    /\ SF_simulatorVars(part = "helping" /\ Helping!Run /\ Helping!HumanDone("r2"))

OperationsSpec ==
    /\ OperationsInit
    /\ [][OperationsNext]_<<part, vars, feedVars, simulatorVars>>
    /\ Fairness

-----------------------------------------------------------------------------
(* HandoffController (handoff_state_machine.py): every cycle ends, at once *)
(* when the emergency stop is asked for.                                   *)
HandoffEnds ==
    /\ []<>(part = "handoff" => outcome # None)
    /\ (part = "handoff" /\ requested /\ outcome = None) ~>
           (part = "handoff" /\ robot.latched /\ outcome # None /\ outcome.final = "emergency_stopped")

(* ObservationIntake (nxt_edge_observation, nxt_site_runtime): the feed is *)
(* honest, a decision consumes the batch its caller was given, and every   *)
(* batch is decided in the end.                                            *)
FeedIsHonest == part = "feed" => Feed!FeedIsHonest
DecisionConsumesWhatItSaw == [][part = "feed" => Feed!ConsumesWhatItSaw]_feedVars
EveryBatchIsDecided == []<>(part = "feed" => (Feed!EveryFrameAssembles => Feed!AllDecided))

(* RangeOps (core/sim.py, core/skills.py): a robot that waits for a person *)
(* gets one, and a robot at the dock gets away from it.                    *)
RangeMakesProgress ==
    /\ \A r \in {"r1", "r2"} : []<>(part = "helping" => ~rob[r].awaiting)
    /\ []<>(part = "unloading" => rob["r1"].activity # "unloading")
=============================================================================
