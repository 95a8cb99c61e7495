------------------------------ MODULE RangeOps ------------------------------
(***************************************************************************)
(* One operating day of the range: balls go from the dispenser to the      *)
(* zones, are collected by robots, unloaded at a station, washed and put   *)
(* back, while customers play, zones close, stations break down, robots    *)
(* fail, run empty, are stopped and are helped by people, and a fleet      *)
(* policy gives one directive per control step through the safety shield.  *)
(*                                                                         *)
(* A step of a process of the discrete-event simulation is an action;      *)
(* durations are abstracted (any process may be the next to wake), energy  *)
(* is counted in units, and every skill draws none or one.  An             *)
(* interrupt is delivered before any other event of its instant, so it is  *)
(* part of the action that raises it.                                      *)
(*                                                                         *)
(*   rob        what the simulation keeps of each robot; "task" is where   *)
(*              its process waits, "goal" where it is bound, "lot" the     *)
(*              balls of the cycle under way, "leg" the unbooked energy of *)
(*              the travel under way                                       *)
(*   balls      the ledger                                                 *)
(*   open       the zones and stations that are open                       *)
(*   line       for each station and the charger: the robots that hold a   *)
(*              slot (the first ones) and those that wait, in order        *)
(*   helpLine   the robots people are busy with (the first), or wait       *)
(*   phase      "decide" between a flush and the directive of the step     *)
(*   closed     the facility has closed for the day                        *)
(*   faults     how many faults have happened (the model's bound)          *)
(***************************************************************************)
EXTENDS Integers, Sequences, FiniteSets, FiniteSetsExt

CONSTANTS None, Robots, Zones,
          StationOrder,      \* the station ids, sorted
          TotalBalls, PayloadCapacity, CollectCycle, BufferCapacity, WashBatch, MaxDemand,
          DockSlots, MaxQueueLength, ChargerSlots, Staff, MaxRobotsPerZone, MaxDockRetries,
          Capacity, InitialBattery, ChargeTarget, MinReserve, HardFloor,
          MaxFaults          \* bound of the model

Stations == {StationOrder[i] : i \in DOMAIN StationOrder}
Places == Zones \cup Stations \cup {"charger"}
Locations == {"dispenser", "washer"} \cup Zones \cup Robots \cup Stations

\* What the scenario's validators ensure.  Ids of one kind are unique; the code
\* tells the kinds apart by separate tables and by prefixes ("zone:", "robot:").
ASSUME ScenarioAssumption ==
    /\ {HardFloor, MinReserve, ChargeTarget, Capacity} \subseteq Nat
    /\ HardFloor < MinReserve /\ MinReserve < ChargeTarget
    /\ ChargeTarget <= Capacity /\ InitialBattery \in 1 .. Capacity
    /\ {DockSlots, ChargerSlots, Staff, PayloadCapacity, CollectCycle, WashBatch} \subseteq Nat \ {0}
    /\ {TotalBalls, BufferCapacity, MaxQueueLength, MaxRobotsPerZone, MaxDockRetries,
        MaxDemand, MaxFaults} \subseteq Nat
ASSUME IdAssumption ==
    /\ IsFiniteSet(Robots) /\ IsFiniteSet(Zones)
    /\ StationOrder \in Seq(Stations)
    /\ \A i, j \in DOMAIN StationOrder : StationOrder[i] = StationOrder[j] => i = j
    /\ Robots \cap Zones = {} /\ Robots \cap Stations = {} /\ Zones \cap Stations = {}
    /\ {"dispenser", "washer", "charger", None} \cap (Robots \cup Zones \cup Stations) = {}
    /\ None # "charger"

VARIABLES rob, balls, open, line, helpLine, phase, closed, faults

vars == <<rob, balls, open, line, helpLine, phase, closed, faults>>

RobotActivity ==
    {"idle", "traveling", "collecting", "queued_handoff", "unloading", "queued_charger",
     "charging", "paused", "failed", "emergency_stopped", "awaiting_human"}
ActiveActivities ==
    {"traveling", "collecting", "queued_handoff", "unloading", "queued_charger", "charging"}
Inoperative == {"failed", "emergency_stopped", "awaiting_human"}
RobotHealth == {"ok", "degraded", "failed"}

Least(S) == CHOOSE x \in S : \A y \in S : x <= y
Total(b, S) == MapThenSumSet(LAMBDA x : b[x], S)

\* What a line keeps of its members, in their order: SelectSeq, written out.
Kept(l, S) ==
    LET kept[n \in 0 .. Len(l)] ==
          IF n = 0 THEN <<>>
          ELSE IF l[n] \in S THEN Append(kept[n - 1], l[n]) ELSE kept[n - 1]
    IN  kept[Len(l)]

NewRobot ==
    [activity |-> "idle", health |-> "ok", battery |-> InitialBattery, payload |-> 0,
     zone |-> None, at |-> "charger", latched |-> FALSE, awaiting |-> FALSE,
     task |-> "none", goal |-> None, lot |-> 0, leg |-> 0, attempts |-> 0]

Init ==
    /\ rob = [r \in Robots |-> NewRobot]
    /\ \E n \in [Locations -> 0 .. TotalBalls] :
         /\ \A x \in Locations \ ({"dispenser"} \cup Zones) : n[x] = 0
         /\ Total(n, Locations) = TotalBalls
         /\ balls = n
    /\ open = [p \in Zones \cup Stations |-> TRUE]
    /\ line = [p \in Stations \cup {"charger"} |-> <<>>]
    /\ helpLine = <<>>
    /\ phase = "decide"
    /\ closed = FALSE
    /\ faults = 0

-----------------------------------------------------------------------------
\* The ledger moves what is there, at most n.
Moved(b, from, n) == Least({n, b[from]})
Move(b, from, to, n) ==
    [b EXCEPT ![from] = @ - Moved(b, from, n), ![to] = @ + Moved(b, from, n)]

\* What a skill draws, and what is booked at a time, in units.
Energy == 0 .. 1
Drained(rb, energy) == [rb EXCEPT !.battery = @ - Least({energy, @})]

Without(l, r) == Kept(l, Robots \ {r})
Slots(p) == IF p = "charger" THEN ChargerSlots ELSE DockSlots
HasSlot(p, r) == \E i \in DOMAIN line[p] : line[p][i] = r /\ i <= Slots(p)

\* A process that ends or is interrupted leaves whatever it waited for or held.
Leaving(r) == [p \in DOMAIN line |-> Without(line[p], r)]

\* The robot without its process: what was travelled or charged since the last
\* flush is settled.
Settled(rb, amount) ==
    LET spent == IF rb.task = "travel" THEN Drained(rb, Least({amount, rb.leg})) ELSE rb
        full == IF rb.task = "charging"
                THEN [spent EXCEPT !.battery = Least({ChargeTarget, @ + amount})] ELSE spent
    IN  [full EXCEPT !.task = "none", !.goal = None, !.lot = 0, !.leg = 0, !.attempts = 0]

Becoming(rb, activity) == [rb EXCEPT !.activity = activity]
Released(rb, activity) == [Settled(rb, 0) EXCEPT !.activity = activity, !.zone = None]

Failing(rb) == [Released(rb, "failed") EXCEPT !.health = "failed"]

Latching(rb) == [Released(rb, "emergency_stopped") EXCEPT !.latched = TRUE]

\* _check_battery_floor
Depleted(rb) ==
    rb.battery <= HardFloor /\ rb.activity \notin Inoperative \cup {"charging"}
FloorChecked(rb) == IF Depleted(rb) THEN Failing(rb) ELSE rb

\* A robot whose process has ended with this step leaves its lines.
Set(r, rb) ==
    /\ rob' = [rob EXCEPT ![r] = rb]
    /\ line' = IF rb.task = "none" THEN Leaving(r) ELSE line

-----------------------------------------------------------------------------
\* The processes of a robot.

Traveling(rb, goal, energy) ==
    [rb EXCEPT !.activity = "traveling", !.task = "travel", !.goal = goal, !.at = "transit",
               !.lot = 0, !.leg = energy, !.attempts = 0]

\* The loop of a collection: another cycle, or the end of the task.
NextCycle(rb, b) ==
    IF open[rb.goal] /\ b[rb.goal] > 0 /\ rb.payload < PayloadCapacity /\ rb.battery > HardFloor
    THEN [rb EXCEPT !.activity = "collecting", !.task = "collect",
                    !.lot = Least({CollectCycle, b[rb.goal], PayloadCapacity - rb.payload})]
    ELSE Released(rb, "idle")

\* A station accepts a robot with a free slot or a free place in its queue.
Accepts(s) == open[s] /\ Len(line[s]) < DockSlots + MaxQueueLength

QueueLength(s) == IF Len(line[s]) > DockSlots THEN Len(line[s]) - DockSlots ELSE 0

BestOpenStation ==
    LET candidates == {i \in DOMAIN StationOrder : Accepts(StationOrder[i])}
        shortest == {i \in candidates : \A j \in candidates :
                        QueueLength(StationOrder[i]) <= QueueLength(StationOrder[j])}
    IN  IF candidates = {} THEN None ELSE StationOrder[Least(shortest)]

Joining(r, p) == line' = [line EXCEPT ![p] = Append(@, r)]

\* The arrival by itself: the energy booked, the floor checked.
Arrived(rb) == FloorChecked([Drained(rb, rb.leg) EXCEPT !.at = rb.goal, !.leg = 0])

Arrive(r) ==
    LET rb == Arrived(rob[r])
        goal == rob[r].goal
    IN  /\ rob[r].task = "travel"
        /\ CASE rb.activity = "failed" -> Set(r, rb)
             [] goal \in Zones /\ rb.activity # "failed" -> Set(r, NextCycle(rb, balls))
             [] goal \in Stations /\ rb.activity # "failed" /\ ~Accepts(goal) ->
                  Set(r, Released(rb, "idle"))
             [] goal \in Stations /\ rb.activity # "failed" /\ Accepts(goal) ->
                  /\ rob' = [rob EXCEPT ![r] = [Becoming(rb, "queued_handoff") EXCEPT
                                                  !.task = "queued"]]
                  /\ Joining(r, goal)
             [] goal = "charger" /\ rb.activity # "failed" ->
                  /\ rob' = [rob EXCEPT ![r] = [Becoming(rb, "queued_charger") EXCEPT
                                                  !.task = "queued"]]
                  /\ Joining(r, goal)
        /\ UNCHANGED <<balls, faults>>

Fault == faults < MaxFaults /\ faults' = faults + 1

Strand(r) ==
    /\ rob[r].task = "travel"
    /\ Fault
    /\ Set(r, Failing(Drained(rob[r], rob[r].leg)))
    /\ UNCHANGED balls

CollectCycleDone(r) ==
    \E energy \in Energy :
       LET rb == Drained(rob[r], energy)
           n == Moved(balls, rb.goal, rb.lot)
       IN  /\ rb.task = "collect"
           /\ balls' = Move(balls, rb.goal, r, rb.lot)
           /\ Set(r, NextCycle([rb EXCEPT !.payload = @ + n], balls'))
           /\ UNCHANGED faults

CollectCycleFails(r) ==
    /\ rob[r].task = "collect"
    /\ Fault
    /\ \E energy \in Energy : Set(r, Failing(Drained(rob[r], energy)))
    /\ UNCHANGED balls

\* The slot of a station or the charger is granted in the order of its queue.
TakeSlot(r) ==
    /\ rob[r].task = "queued" /\ HasSlot(rob[r].goal, r)
    /\ rob' = [rob EXCEPT ![r] =
                 IF @.goal = "charger"
                 THEN [@ EXCEPT !.activity = "charging", !.task = "connect"]
                 ELSE [@ EXCEPT !.activity = "unloading", !.task = "dock", !.attempts = 1]]
    /\ UNCHANGED <<balls, line, faults>>

\* The room there is in the buffer of a station.
Free(s, b) == BufferCapacity - b[s]

\* The loop of an unloading: another lot, a wait for room, or the end.
NextLot(rb, b) ==
    IF rb.payload = 0 THEN FloorChecked(Released(rb, "idle"))
    ELSE IF Free(rb.goal, b) <= 0 THEN [rb EXCEPT !.task = "blocked", !.lot = 0]
    ELSE [rb EXCEPT !.task = "unload", !.lot = Least({rb.payload, Free(rb.goal, b)})]

Dock(r) ==
    /\ rob[r].task = "dock"
    /\ \E energy \in Energy : Set(r, NextLot(Drained(rob[r], energy), balls))
    /\ UNCHANGED <<balls, faults>>

DockFails(r) ==
    /\ rob[r].task = "dock"
    /\ \E energy \in Energy :
         LET rb == Drained(rob[r], energy)
         IN  \/ Set(r, Latching(rb))
             \/ rb.attempts > MaxDockRetries /\ Set(r, Failing(rb))
             \/ /\ rb.attempts <= MaxDockRetries
                /\ Set(r, [rb EXCEPT !.attempts = @ + 1])
    /\ UNCHANGED <<balls, faults>>

\* What another robot unloaded meanwhile is taken into account.
UnloadIntoWhatWasFree(r) ==
    \E energy \in Energy :
       LET rb == Drained(rob[r], energy)
           n == Moved(balls, r, rb.lot)
       IN  /\ rb.task = "unload"
           /\ balls' = Move(balls, r, rb.goal, n)
           /\ Set(r, NextLot([rb EXCEPT !.payload = @ - n], balls'))
           /\ UNCHANGED faults

Unload(r) ==
    \E energy \in Energy :
       LET rb == Drained(rob[r], energy)
           room == IF Free(rb.goal, balls) > 0 THEN Free(rb.goal, balls) ELSE 0
           n == Moved(balls, r, Least({rb.lot, room}))
       IN  /\ rb.task = "unload"
           /\ balls' = Move(balls, r, rb.goal, n)
           /\ Set(r, NextLot([rb EXCEPT !.payload = @ - n], balls'))
           /\ UNCHANGED faults

Unblock(r) ==
    /\ rob[r].task = "blocked" /\ Free(rob[r].goal, balls) > 0
    /\ Set(r, NextLot(rob[r], balls))
    /\ UNCHANGED <<balls, faults>>

Connect(r) ==
    /\ rob[r].task = "connect"
    /\ rob' = [rob EXCEPT ![r].task = "charging"]
    /\ UNCHANGED <<balls, line, faults>>

Charged(r) ==
    /\ rob[r].task = "charging"
    /\ Set(r, [Released(rob[r], "idle") EXCEPT !.battery = ChargeTarget])
    /\ UNCHANGED <<balls, faults>>

-----------------------------------------------------------------------------
\* The processes of the facility.

Demand ==
    /\ ~closed
    /\ \E requested \in 1 .. MaxDemand :
         LET zones == {z \in Zones : open[z]}
             served == Moved(balls, "dispenser", requested)
         IN  /\ served > 0
             /\ \E landed \in [zones -> 0 .. served] :
                  /\ Total(landed, zones) = served
                  /\ balls' = [x \in Locations |->
                                 IF x = "dispenser" THEN balls[x] - served
                                 ELSE IF x \in zones THEN balls[x] + landed[x] ELSE balls[x]]
    /\ UNCHANGED <<rob, line, faults>>

\* A batch is drawn from the stations in the order of their ids.
Before(i) == Total(balls, {StationOrder[j] : j \in 1 .. i - 1})
Buffered == Total(balls, Stations)
Pulled(i) ==
    LET batch == Least({WashBatch, Buffered})
    IN  IF Before(i) >= batch THEN 0 ELSE Least({balls[StationOrder[i]], batch - Before(i)})

WashStartWithAFullBatch ==
    /\ balls["washer"] = 0 /\ Buffered >= WashBatch
    /\ balls' = [x \in Locations |->
                   IF x = "washer" THEN Least({WashBatch, Buffered})
                   ELSE IF x \in Stations
                        THEN balls[x] - Pulled(CHOOSE i \in DOMAIN StationOrder : StationOrder[i] = x)
                        ELSE balls[x]]
    /\ UNCHANGED <<rob, line, faults>>

WashStart ==
    /\ balls["washer"] = 0 /\ Buffered > 0
    /\ balls' = [x \in Locations |->
                   IF x = "washer" THEN Least({WashBatch, Buffered})
                   ELSE IF x \in Stations
                        THEN balls[x] - Pulled(CHOOSE i \in DOMAIN StationOrder : StationOrder[i] = x)
                        ELSE balls[x]]
    /\ UNCHANGED <<rob, line, faults>>

WashDone ==
    /\ balls["washer"] > 0
    /\ balls' = Move(balls, "washer", "dispenser", balls["washer"])
    /\ UNCHANGED <<rob, line, faults>>

\* The failure process passes over a robot that is out of operation already.
SpontaneousFailure(r) ==
    /\ rob[r].activity \notin Inoperative
    /\ Fault
    /\ \/ /\ rob[r].health = "ok"
          /\ rob' = [rob EXCEPT ![r].health = "degraded"]
          /\ UNCHANGED line
       \/ \E amount \in Energy : Set(r, Failing(Settled(rob[r], amount)))
    /\ UNCHANGED balls

\* Robots that are interrupted become idle and leave their lines.
Interrupt(R) ==
    /\ \E amount \in Energy :
         rob' = [r \in Robots |->
                   IF r \in R THEN Released(Settled(rob[r], amount), "idle") ELSE rob[r]]
    /\ line' = [p \in DOMAIN line |-> Kept(line[p], Robots \ R)]

BoundFor(z) == {r \in Robots : rob[r].zone = z}
CloseZone(z) ==
    /\ open[z]
    /\ Fault
    /\ open' = [open EXCEPT ![z] = FALSE]
    /\ Interrupt(BoundFor(z))
    /\ UNCHANGED balls

WorkingAt(s) ==
    {r \in Robots : rob[r].activity \in {"queued_handoff", "unloading"} /\ rob[r].at = s}
StationOutage(s) ==
    /\ open[s]
    /\ Fault
    /\ open' = [open EXCEPT ![s] = FALSE]
    /\ Interrupt(WorkingAt(s))
    /\ UNCHANGED balls

Reopen(p) ==
    /\ ~open[p]
    /\ open' = [open EXCEPT ![p] = TRUE]
    /\ UNCHANGED <<rob, balls, line, faults>>

\* A person comes, fixes the robot, tops up its battery and frees it.
Helped(rb) ==
    [Released(rb, "idle") EXCEPT !.health = "ok", !.latched = FALSE, !.awaiting = FALSE,
                                 !.battery = IF @ < MinReserve THEN MinReserve ELSE @]

HumanDone(r) ==
    /\ \E i \in DOMAIN helpLine : helpLine[i] = r /\ i <= Staff
    /\ helpLine' = Without(helpLine, r)
    /\ Set(r, Helped(rob[r]))
    /\ UNCHANGED <<balls, faults>>

FacilityCloses ==
    /\ ~closed
    /\ closed' = TRUE
    /\ UNCHANGED <<rob, balls, line, faults>>

-----------------------------------------------------------------------------
\* The control step: what has been spent or gained since the last one is
\* booked, the floor is checked, and one directive is applied.

IdleDrain == {"idle", "paused", "queued_handoff", "queued_charger", "awaiting_human"}

Booked(rb, amount) ==
    CASE rb.task = "travel" ->
            [Drained(rb, Least({amount, rb.leg})) EXCEPT !.leg = @ - Least({amount, @})]
      [] rb.task = "charging" ->
            [rb EXCEPT !.battery = Least({ChargeTarget, @ + amount})]
      [] rb.activity \in IdleDrain -> Drained(rb, amount)
      [] OTHER -> rb

Flush ==
    /\ phase = "run"
    /\ phase' = "decide"
    /\ \E amount \in [Robots -> Energy] :
         LET after == [r \in Robots |-> FloorChecked(Booked(rob[r], amount[r]))]
         IN  /\ rob' = after
             /\ line' = [p \in DOMAIN line |->
                           Kept(line[p], {r \in Robots : after[r].task # "none"})]
    /\ UNCHANGED <<balls, open, helpLine, closed, faults>>

\* The shield: what a robot may be told at all.
Commandable(r) ==
    ~rob[r].latched /\ rob[r].activity # "failed" /\ ~rob[r].awaiting
Workable(r) == Commandable(r) /\ rob[r].activity # "paused"

Commitments(z, r) == Cardinality({q \in Robots \ {r} : rob[q].zone = z})

MayCollect(r, z) ==
    /\ Workable(r)
    /\ open[z] /\ ~closed
    /\ rob[r].battery > MinReserve
    /\ rob[r].payload < PayloadCapacity
    /\ Commitments(z, r) < MaxRobotsPerZone
MayAssign(r, z) ==
    MayCollect(r, z) /\ rob[r].activity \in {"idle", "charging", "queued_charger"}
MayReassign(r, z) ==
    /\ MayCollect(r, z)
    /\ rob[r].activity \in {"traveling", "collecting"} /\ rob[r].zone # z
MayHandOff(r) ==
    /\ Workable(r)
    /\ rob[r].payload > 0
    /\ rob[r].activity \in {"idle", "traveling", "collecting", "charging", "queued_charger"}
    /\ BestOpenStation # None
MayCharge(r) ==
    /\ Workable(r)
    /\ rob[r].activity \notin {"charging", "queued_charger"}
    /\ rob[r].battery < ChargeTarget

\* _start_task: the process under way is interrupted, the new one starts.
Start(r, rb) ==
    /\ rob' = [rob EXCEPT ![r] = rb]
    /\ line' = Leaving(r)
    /\ UNCHANGED helpLine

Depart(r, rb, goal) == \E energy \in Energy : Start(r, Traveling(rb, goal, energy))
Collect(r, z) == Depart(r, [Settled(rob[r], 0) EXCEPT !.zone = z], z)
AssignCollection(r, z) == MayAssign(r, z) /\ Collect(r, z)
ReassignRobot(r, z) == MayReassign(r, z) /\ Collect(r, z)
SendToHandoff(r, s) ==
    /\ MayHandOff(r) /\ (s = BestOpenStation \/ Accepts(s))
    /\ Depart(r, Released(rob[r], "idle"), s)
SendToCharge(r) == MayCharge(r) /\ Depart(r, Released(rob[r], "idle"), "charger")
PauseRobot(r) == Workable(r) /\ Start(r, Released(rob[r], "paused"))
ResumeRobot(r) ==
    Commandable(r) /\ rob[r].activity = "paused" /\ Start(r, Becoming(rob[r], "idle"))
RequestHumanAssistance(r) ==
    /\ ~rob[r].awaiting
    /\ helpLine' = Append(helpLine, r)
    /\ IF rob[r].activity \in {"failed", "emergency_stopped"}
       THEN rob' = [rob EXCEPT ![r].awaiting = TRUE] /\ UNCHANGED line
       ELSE /\ rob' = [rob EXCEPT ![r] =
                         [Released(@, "awaiting_human") EXCEPT !.awaiting = TRUE]]
            /\ line' = Leaving(r)

Wait == UNCHANGED <<rob, line, helpLine>>

Directive ==
    /\ phase = "decide"
    /\ phase' = "run"
    /\ \/ Wait
       \/ \E r \in Robots :
            \/ \E z \in Zones : AssignCollection(r, z) \/ ReassignRobot(r, z)
            \/ \E s \in Stations : SendToHandoff(r, s)
            \/ SendToCharge(r)
            \/ PauseRobot(r)
            \/ ResumeRobot(r)
            \/ RequestHumanAssistance(r)
    /\ UNCHANGED <<balls, open, closed, faults>>

-----------------------------------------------------------------------------
Task(r) ==
    \/ Arrive(r) \/ Strand(r) \/ CollectCycleDone(r) \/ CollectCycleFails(r)
    \/ TakeSlot(r) \/ Dock(r) \/ DockFails(r) \/ Unload(r) \/ Unblock(r)
    \/ Connect(r) \/ Charged(r)

Wash == WashStart \/ WashDone

\* An event of the simulation, between two control steps.
Run ==
    /\ phase = "run"
    /\ UNCHANGED phase
    /\ \/ (\E r \in Robots : Task(r) \/ SpontaneousFailure(r)) /\ UNCHANGED <<open, helpLine, closed>>
       \/ (Demand \/ Wash) /\ UNCHANGED <<open, helpLine, closed>>
       \/ (\E z \in Zones : CloseZone(z)) /\ UNCHANGED <<helpLine, closed>>
       \/ (\E s \in Stations : StationOutage(s)) /\ UNCHANGED <<helpLine, closed>>
       \/ (\E p \in Zones \cup Stations : Reopen(p)) /\ UNCHANGED <<helpLine, closed>>
       \/ (\E r \in Robots : HumanDone(r)) /\ UNCHANGED <<open, closed>>
       \/ FacilityCloses /\ UNCHANGED <<open, helpLine>>

Next == Flush \/ Directive \/ Run

Spec == Init /\ [][Next]_vars

\* Time goes on in every control step, so whatever a process waits for comes:
\* the next step of a robot's task, of the washer and of a person.  What a
\* skill yields, and what the policy does, is free.
FairSpec ==
    /\ Spec
    /\ WF_vars(Flush \/ Directive)
    /\ SF_vars(Run /\ Wash)
    /\ \A r \in Robots : SF_vars(Run /\ Task(r)) /\ SF_vars(Run /\ HumanDone(r))

-----------------------------------------------------------------------------
TypeOK ==
    /\ \A r \in Robots :
         /\ rob[r].activity \in RobotActivity /\ rob[r].health \in RobotHealth
         /\ rob[r].battery \in 0 .. Capacity
         /\ rob[r].zone \in Zones \cup {None} /\ rob[r].at \in Places \cup {"transit"}
         /\ rob[r].awaiting = (\E i \in DOMAIN helpLine : helpLine[i] = r)
    /\ balls \in [Locations -> 0 .. TotalBalls]
    /\ DOMAIN open = Zones \cup Stations
    /\ faults \in 0 .. MaxFaults

\* Every ball is in one place, the basket of a robot holds what the ledger
\* says it holds, and no basket and no buffer of a station overflows, although
\* robots collect and unload next to each other.
EveryBallIsSomewhere ==
    /\ Total(balls, Locations) = TotalBalls
    /\ \A r \in Robots : rob[r].payload = balls[r] /\ balls[r] <= PayloadCapacity
    /\ \A s \in Stations : balls[s] <= BufferCapacity

\* A latched emergency stop shows as the activity until a person resets it:
\* no failure, closure, outage, directive or flush in between hides it.
LatchedShowsAsStopped ==
    \A r \in Robots : rob[r].latched <=> rob[r].activity = "emergency_stopped"

\* A robot is assigned to a zone only while it travels there or collects in
\* it and the zone is open; it shows an activity of work exactly while a
\* process works for it.
AssignmentsAreWorkedOn ==
    \A r \in Robots :
       /\ rob[r].zone # None => /\ rob[r].activity \in {"traveling", "collecting"}
                                /\ open[rob[r].zone]
       /\ rob[r].task # "none" <=> rob[r].activity \in ActiveActivities

\* Whoever works at a station or the charger holds a slot of it, whoever is in
\* a line works or waits there, and no line exceeds its slots and queue.
SlotsAreHeldByWorkers ==
    /\ \A r \in Robots, p \in DOMAIN line :
         (\E i \in DOMAIN line[p] : line[p][i] = r) <=>
            rob[r].goal = p /\ rob[r].task \in {"queued", "dock", "unload", "blocked", "connect", "charging"}
    /\ \A r \in Robots :
         rob[r].task \in {"dock", "unload", "blocked", "connect", "charging"} => HasSlot(rob[r].goal, r)
    /\ \A s \in Stations : Len(line[s]) <= DockSlots + MaxQueueLength

\* No zone ever has more robots assigned to it than the safety cap.
OccupancyIsCapped ==
    \A z \in Zones : Cardinality({r \in Robots : rob[r].zone = z}) <= MaxRobotsPerZone

\* Balls, robots, lines and assignments agree with each other, whatever faults, closures,
\* outages, directives and flushes come between two steps of a robot.
RangeIsConsistent ==
    TypeOK /\ EveryBallIsSomewhere /\ LatchedShowsAsStopped /\ AssignmentsAreWorkedOn
    /\ SlotsAreHeldByWorkers /\ OccupancyIsCapped

\* A robot that waits for a person gets one.
HelpComes == \A r \in Robots : []<>~rob[r].awaiting

\* A robot at the dock gets away from it, also when the buffer is full: it
\* holds its slot only until the washer has made room.
UnloadingEnds == \A r \in Robots : []<>(rob[r].activity # "unloading")
=============================================================================
