------------------------------ MODULE Guardian ------------------------------
(***************************************************************************)
(* The ball availability guardian (nxt_pilot_ops: guardian.py,             *)
(* projection.py, contracts.py, semantics.py): a pure function from an     *)
(* operational snapshot to a verdict, a trace and perhaps a recommendation,*)
(* and the validators that every constructed trace and evaluation passes.  *)
(*                                                                         *)
(* Abstractions.  Times are whole ticks and rates whole balls per tick;    *)
(* the inputs are chosen so that the one division, inventory / rate, is    *)
(* exact.  A fact the code holds as None is None here.  Robots are numbers,*)
(* because the last tie is broken by the order of the names.  Provenance   *)
(* texts, identities derived by digest and the wording of the rationale    *)
(* are left out; a trace carries its snapshot as "facts".                  *)
(***************************************************************************)
EXTENDS Integers, Sequences, FiniteSets, FiniteSetsExt, SequencesExt

CONSTANTS
    None,            \* Python's None
    SafetyBuffer,    \* safety_buffer_minutes
    AlertLead,       \* alert_lead_minutes
    MinimumBattery,  \* minimum_battery_fraction, as a level
    RiskHorizon      \* risk_horizon_minutes

\* The bounds a policy configuration is constructed under.
ConfigAssumption ==
    /\ SafetyBuffer \in Nat /\ AlertLead \in Nat /\ MinimumBattery \in Nat
    /\ RiskHorizon \in Nat \ {0}

RobotStatus == {"available", "busy", "charging", "paused", "awaiting_human",
                "faulted", "estopped", "offline"}
RecommendationAction == {"dispatch_collector", "operator_intervention"}

Least(a, b) == IF a <= b THEN a ELSE b
Greatest(a, b) == IF a >= b THEN a ELSE b

\* The sorted sequence of a set of numbers.
InOrder(S) ==
    [i \in 1..Cardinality(S) |-> CHOOSE t \in S : Cardinality({u \in S : u < t}) = i - 1]

-----------------------------------------------------------------------------
(* What a snapshot says.                                                   *)

DecisionInventory(s) == IF s.sensed # None THEN s.sensed ELSE s.clean
InventoryBasis(s) == IF s.sensed # None THEN "clean_sensed" ELSE "clean_available"

\* A committed arrival brings at least one ball and is no candidate's.
BatchAccepted(b) == b.source # "counterfactual" /\ b.balls >= 1 /\ b.eta >= 0

\* A robot's numbers, where they are known, are not negative.
RobotAccepted(r) ==
    /\ r.status \in RobotStatus
    /\ r.battery >= 0
    /\ r.yield # None => r.yield >= 0
    /\ r.eta # None => r.eta >= 0

\* A snapshot the constructor accepts: a forecast has a bucket and no other
\* snapshot does, a block of collection has a reason, and names are unique.
SnapshotAccepted(s) ==
    /\ (s.forecast # None) = (s.bucket # None)
    /\ s.forecast # None => s.forecast # << >> /\ s.bucket > 0
    /\ s.collection = FALSE => s.blockReason # None
    /\ \A a, b \in s.robots : a.id = b.id => a = b
    /\ \A a, b \in s.inbound : a.source = b.source => a = b
    /\ \A b \in s.inbound : BatchAccepted(b)
    /\ \A r \in s.robots : RobotAccepted(r)

\* The one demand schedule the policy admits: the forecast, raised to the
\* current demand where that is higher, or the current demand alone, up to
\* closing time and the risk horizon.
DemandProjection(s) ==
    LET cap == IF s.minutesToClose = None THEN RiskHorizon
               ELSE Least(RiskHorizon, s.minutesToClose) IN
    CASE cap <= 0 -> None
      [] cap > 0 /\ s.forecast # None ->
           LET horizon == Least(cap, Len(s.forecast) * s.bucket)
               count == (horizon + s.bucket - 1) \div s.bucket
           IN [rates |-> [i \in 1..count |-> IF s.current = None THEN s.forecast[i]
                                             ELSE Greatest(s.current, s.forecast[i])],
               bucket |-> s.bucket, horizon |-> horizon,
               basis |-> IF s.current = None THEN "forecast_demand" ELSE "per_bucket_max"]
      [] cap > 0 /\ s.forecast = None /\ s.current # None ->
           [rates |-> <<s.current>>, bucket |-> cap, horizon |-> cap, basis |-> "current_demand"]
      [] OTHER -> None

-----------------------------------------------------------------------------
(* The projection: a sweep over the instants at which something changes.   *)

BallsAt(batches, t) == MapThenSumSet(LAMBDA b : b.balls, {b \in batches : b.eta = t})

\* A plausible slip: a delivery at the very instant the stock runs out comes too late.
SweepWithoutGrace(t, rates, boundaries, arrivals, sweep) ==
    LET rate == rates[Least(Cardinality({b \in boundaries : b <= sweep.at}), Len(rates) - 1) + 1]
        consumption == rate * (t - sweep.at)
    IN IF sweep.stockout # None THEN sweep
       ELSE IF consumption > 0 /\ sweep.stock <= consumption
            THEN [sweep EXCEPT !.stockout = sweep.at + sweep.stock \div rate]
            ELSE [sweep EXCEPT !.at = t, !.stock = sweep.stock - consumption + BallsAt(arrivals, t)]

\* One instant of the sweep.  The stock runs out inside the interval that ends
\* at t, exactly at t with nothing arriving, or not yet.
SweepTo(t, rates, boundaries, arrivals, sweep) ==
    LET bucket == Least(Cardinality({b \in boundaries : b <= sweep.at}), Len(rates) - 1)
        rate == rates[bucket + 1]
        consumption == rate * (t - sweep.at)
        balls == BallsAt(arrivals, t)
    IN CASE sweep.stockout # None -> sweep
         [] sweep.stockout = None /\ sweep.stock < consumption ->
              [sweep EXCEPT !.stockout = sweep.at + sweep.stock \div rate]
         [] sweep.stockout = None /\ consumption > 0 /\ sweep.stock = consumption /\ balls = 0 ->
              [sweep EXCEPT !.stockout = t]
         [] OTHER -> [sweep EXCEPT !.at = t, !.stock = sweep.stock - consumption + balls]

ProjectStockout(stock, demand, batches) ==
    LET arrivals == {b \in batches : b.eta <= demand.horizon}
        boundaries == {i * demand.bucket : i \in 1..(Len(demand.rates) - 1)}
                        \cap 0..(demand.horizon - 1)
        events == InOrder({0, demand.horizon} \union {b.eta : b \in arrivals} \union boundaries)
    IN FoldLeft(LAMBDA sweep, t : SweepTo(t, demand.rates, boundaries, arrivals, sweep),
                [at |-> 0, stock |-> stock, stockout |-> None], events).stockout

-----------------------------------------------------------------------------
(* Candidates.                                                             *)

\* A robot arrives strictly before the stock first runs out.
ArrivesBefore(r, stockout) == stockout # None /\ r.eta # None /\ r.eta < stockout

\* Why a robot may not be proposed, whatever it would bring.  A fact nobody
\* knows excludes as a wrong one does.
SafetyExclusions(r, s, stockout) ==
    UNION {IF s.rangeOpen = None THEN {"range_open_unknown"}
             ELSE IF s.rangeOpen THEN {} ELSE {"range_closed"},
           IF s.collection = None THEN {"collection_permission_unknown"}
             ELSE IF s.collection THEN {} ELSE {"collection_blocked"},
           IF r.status = "available" THEN {} ELSE {"status"},
           IF r.fault = None THEN {} ELSE {"fault"},
           IF r.capabilities = None THEN {"missing_capabilities"}
             ELSE IF "collect" \in r.capabilities THEN {} ELSE {"missing_capability:collect"},
           IF r.battery < MinimumBattery THEN {"battery_below_minimum"} ELSE {},
           IF r.yield = None THEN {"missing_expected_clean_ball_yield"}
             ELSE IF r.yield > 0 THEN {} ELSE {"nonpositive_expected_clean_ball_yield"},
           IF r.eta = None THEN {"missing_replenishment_eta"} ELSE {},
           IF r.washing = None THEN {"washing_requirement_unknown"}
             ELSE IF ~r.washing THEN {}
             ELSE IF s.washer = None THEN {"washer_availability_unknown"}
             ELSE IF s.washer THEN {} ELSE {"washer_unavailable"},
           IF ArrivesBefore(r, stockout) \/ stockout = None \/ r.eta = None THEN {}
             ELSE {"arrival_not_before_first_stockout"}}

\* The reasons that name a fact nobody knows.
GapReasons == {"range_open_unknown", "collection_permission_unknown", "missing_capabilities",
               "missing_capability:collect", "missing_expected_clean_ball_yield",
               "missing_replenishment_eta", "washing_requirement_unknown",
               "washer_availability_unknown"}

Counterfactual(r) == [source |-> "counterfactual", eta |-> r.eta, balls |-> r.yield]

Extension(demand, stockout, withAction) ==
    IF withAction = None THEN demand.horizon - stockout ELSE Greatest(0, withAction - stockout)

\* A robot nobody projects: a fact excludes it, or there is no stockout to put off.
Unprojected(r, stockout, exclusions) ==
    [robot |-> r, eligible |-> exclusions = {}, exclusions |-> exclusions,
     arrivesBefore |-> ArrivesBefore(r, stockout), stockout |-> None,
     protected |-> FALSE, extension |-> 0]

\* A robot whose delivery was projected, and helps or does not.
Projected(r, stockout, withAction, extension) ==
    [robot |-> r, eligible |-> extension > 0,
     exclusions |-> IF extension > 0 THEN {} ELSE {"no_positive_counterfactual_extension"},
     arrivesBefore |-> ArrivesBefore(r, stockout), stockout |-> withAction,
     protected |-> withAction = None, extension |-> extension]

WithAction(r, demand, stockout, withAction) ==
    Projected(r, stockout, withAction, Extension(demand, stockout, withAction))

Candidate(r, s, demand, stockout) ==
    LET exclusions == SafetyExclusions(r, s, stockout) IN
    IF exclusions # {} \/ stockout = None THEN Unprojected(r, stockout, exclusions)
    ELSE WithAction(r, demand, stockout,
                    ProjectStockout(DecisionInventory(s), demand,
                                    s.inbound \union {Counterfactual(r)}))

\* The greatest extension; then the earlier arrival; then the name.
RanksBefore(a, b) ==
    \/ a.extension > b.extension
    \/ a.extension = b.extension /\ a.robot.eta < b.robot.eta
    \/ a.extension = b.extension /\ a.robot.eta = b.robot.eta /\ a.robot.id <= b.robot.id

Beneficial(candidates) == {c \in candidates : c.eligible /\ c.arrivesBefore /\ c.extension > 0}

SelectCandidate(candidates) ==
    IF Beneficial(candidates) = {} THEN None
    ELSE CHOOSE c \in Beneficial(candidates) :
             \A other \in Beneficial(candidates) : RanksBefore(c, other)

-----------------------------------------------------------------------------
(* What the trace says of its own gaps.                                    *)

\* How many of the seven questions the snapshot answers.
DataCompleteness(s, demand) ==
    Cardinality({q \in 1..7 :
        CASE q = 1 -> s.sensed # None
          [] q = 2 -> demand # None
          [] q = 3 -> s.rangeOpen # None
          [] q = 4 -> s.collection # None
          [] q = 5 -> s.washer # None
          [] q = 6 -> s.robots # {}
          [] q = 7 -> s.robots # {} /\ \A r \in s.robots :
                          r.capabilities # None /\ r.eta # None /\ r.yield # None})

MissingReasons(s, demand, candidates) ==
    UNION {s.missing,
           IF demand = None THEN {"demand"} ELSE {},
           IF s.sensed = None THEN {"clean_sensed"} ELSE {},
           IF s.rangeOpen = None THEN {"range_open"} ELSE {},
           IF s.collection = None THEN {"collection permission"} ELSE {},
           IF s.washer = None THEN {"washer availability"} ELSE {},
           UNION {c.exclusions \cap GapReasons : c \in candidates}}

-----------------------------------------------------------------------------
(* The evaluation.                                                         *)

TraceOf(s, demand, stockout, candidates, selected) ==
    [facts |-> s, inventory |-> DecisionInventory(s), basis |-> InventoryBasis(s),
     demand |-> demand, stockout |-> stockout, candidates |-> candidates,
     selected |-> IF selected = None THEN None ELSE selected.robot.id,
     latestDelay |-> IF stockout # None /\ selected # None
                     THEN stockout - selected.robot.eta - SafetyBuffer ELSE None,
     completeness |-> DataCompleteness(s, demand),
     missing |-> MissingReasons(s, demand, candidates)]

Trace(s) ==
    LET demand == DemandProjection(s)
        stockout == IF demand = None THEN None
                    ELSE ProjectStockout(DecisionInventory(s), demand, s.inbound)
        candidates == {Candidate(r, s, demand, stockout) : r \in s.robots}
    IN TraceOf(s, demand, stockout, candidates, SelectCandidate(candidates))

ChosenOf(trace) == CHOOSE c \in trace.candidates : c.robot.id = trace.selected

DispatchRecommendation(s, trace) ==
    LET chosen == ChosenOf(trace) IN
    [action |-> "dispatch_collector", target |-> trace.selected, issuedAt |-> s.observedAt,
     executeBefore |-> s.observedAt + Greatest(0, trace.latestDelay),
     without |-> trace.stockout, with |-> chosen.stockout,
     protected |-> chosen.protected, delay |-> chosen.extension]

OperatorRecommendation(s, trace) ==
    [action |-> "operator_intervention", target |-> None, issuedAt |-> s.observedAt,
     executeBefore |-> s.observedAt +
         (IF trace.stockout = None THEN 0 ELSE Greatest(0, trace.stockout - SafetyBuffer)),
     without |-> trace.stockout, with |-> None, protected |-> FALSE, delay |-> 0]

Decide(s, trace) ==
    LET quiet == [verdict |-> "no_action", trace |-> trace, recommendation |-> None]
        advise(r) == [verdict |-> "recommend", trace |-> trace, recommendation |-> r]
    IN CASE trace.demand = None /\ s.rangeOpen = FALSE -> quiet
         [] trace.demand = None /\ s.rangeOpen # FALSE -> advise(OperatorRecommendation(s, trace))
         [] trace.demand # None /\ trace.stockout = None -> quiet
         [] trace.stockout # None /\ trace.selected = None -> advise(OperatorRecommendation(s, trace))
         [] trace.selected # None /\ trace.latestDelay > AlertLead -> quiet
         [] OTHER -> advise(DispatchRecommendation(s, trace))

Evaluate(s) == Decide(s, Trace(s))

-----------------------------------------------------------------------------
(* The validators: what the constructors of a trace, of a recommendation   *)
(* and of an evaluation insist on, written apart from the policy.          *)

\* What a candidate's own constructor sees.
CandidateShape(c) ==
    /\ c.eligible => c.exclusions = {}
    /\ c.protected => c.stockout = None
    /\ c.extension >= 0

\* What the trace's constructor sees of a candidate.
CandidateAccepted(c, t) ==
    LET base == SafetyExclusions(c.robot, t.facts, t.stockout)
        expected == IF base = {} /\ t.stockout # None /\ t.demand # None /\ c.extension <= 0
                    THEN {"no_positive_counterfactual_extension"} ELSE base
    IN /\ CandidateShape(c)
       /\ c.arrivesBefore = (/\ t.stockout # None
                             /\ c.robot.eta # None
                             /\ c.robot.eta < t.stockout)
       /\ base # {} => c.stockout = None /\ ~c.protected /\ c.extension = 0
       /\ c.exclusions = expected
       /\ c.eligible = (expected = {})
       /\ c.protected => t.stockout # None /\ t.demand # None
                         /\ c.extension = t.demand.horizon - t.stockout
       /\ c.stockout # None => t.stockout # None /\ c.extension = Greatest(0, c.stockout - t.stockout)
       /\ ~c.protected /\ c.stockout = None => c.extension = 0
       /\ c.eligible => /\ t.facts.rangeOpen = TRUE /\ t.facts.collection = TRUE
                        /\ c.robot.status = "available" /\ c.robot.fault = None
                        /\ c.robot.battery >= MinimumBattery
                        /\ c.robot.washing # None
                        /\ c.robot.washing => t.facts.washer = TRUE

SelectionAccepted(t) ==
    IF Beneficial(t.candidates) = {} THEN t.selected = None /\ t.latestDelay = None
    ELSE \E c \in Beneficial(t.candidates) :
           /\ \A other \in Beneficial(t.candidates) : RanksBefore(c, other)
           /\ t.selected = c.robot.id
           /\ t.latestDelay = t.stockout - c.robot.eta - SafetyBuffer

TraceAccepted(t) ==
    /\ t.basis = (IF t.facts.sensed # None THEN "clean_sensed" ELSE "clean_available")
    /\ t.inventory = (IF t.facts.sensed # None THEN t.facts.sensed ELSE t.facts.clean)
    /\ t.demand = DemandProjection(t.facts)
    /\ \A c \in t.candidates : CandidateAccepted(c, t)
    /\ SelectionAccepted(t)
    /\ t.completeness \in 0..7

\* Every stockout the trace records, computed again from the facts it records.
ProjectionsVerified(t) ==
    IF t.demand = None THEN t.stockout = None
    ELSE /\ t.stockout = ProjectStockout(t.inventory, t.demand, t.facts.inbound)
         /\ \A c \in t.candidates :
              t.stockout # None /\ c.exclusions \subseteq {"no_positive_counterfactual_extension"} =>
                LET again == ProjectStockout(t.inventory, t.demand,
                                             t.facts.inbound \union {Counterfactual(c.robot)})
                IN /\ c.stockout = again
                   /\ c.protected = (again = None)
                   /\ c.extension = Extension(t.demand, t.stockout, again)

\* The only verdict and action the policy admits for a trace.
ExpectedResult(t) ==
    CASE t.demand = None /\ t.facts.rangeOpen = FALSE -> <<"no_action", None>>
      [] t.demand = None /\ t.facts.rangeOpen # FALSE -> <<"recommend", "operator_intervention">>
      [] t.demand # None /\ t.stockout = None -> <<"no_action", None>>
      [] t.stockout # None /\ t.selected = None -> <<"recommend", "operator_intervention">>
      [] t.selected # None /\ t.latestDelay > AlertLead -> <<"no_action", None>>
      [] OTHER -> <<"recommend", "dispatch_collector">>

RecommendationShape(r) ==
    /\ r.executeBefore >= r.issuedAt
    /\ (r.target # None) = (r.action = "dispatch_collector")
    /\ r.delay >= 0

RecommendationAccepted(r, t) ==
    /\ RecommendationShape(r)
    /\ ExpectedResult(t) = <<"recommend", r.action>>
    /\ r.issuedAt = t.facts.observedAt
    /\ r.without = t.stockout
    /\ r.action = "dispatch_collector" =>
         /\ r.target = t.selected
         /\ r.with = ChosenOf(t).stockout /\ r.protected = ChosenOf(t).protected
         /\ r.delay = ChosenOf(t).extension
         /\ r.executeBefore = r.issuedAt + Greatest(0, t.latestDelay)
    /\ r.action = "operator_intervention" =>
         /\ r.with = None /\ ~r.protected /\ r.delay = 0
         /\ r.executeBefore = r.issuedAt +
              (IF t.stockout = None THEN 0 ELSE Greatest(0, t.stockout - SafetyBuffer))

EvaluationAccepted(e) ==
    /\ ProjectionsVerified(e.trace)
    /\ e.verdict = ExpectedResult(e.trace)[1]
    /\ IF e.verdict = "no_action" THEN e.recommendation = None
       ELSE e.recommendation # None /\ RecommendationAccepted(e.recommendation, e.trace)
=============================================================================
