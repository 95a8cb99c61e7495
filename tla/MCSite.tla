------------------------------- MODULE MCSite -------------------------------
(***************************************************************************)
(* Four models that share nothing, in one run: which of them a behaviour  *)
(* belongs to is fixed in its first state, the variables of the others do  *)
(* not move.  Each is explored as if it were alone.                        *)
(*   simulator    the range simulator, two robots                          *)
(*   enablement   from a candidate manifest to an assembled runtime        *)
(*   polygon      every polygon of a few points on a small grid            *)
(*   review       captures and snapshots through the guardian              *)
(***************************************************************************)
EXTENDS RangeOps, MCEnablement, TLC

CONSTANTS Off, r1, r2, z1, s1

VARIABLES
    part,
    declared, files, evaluated, report, plan, runtime, changes,
    points,
    stage, capture, records, pending, evaluation

enablementVars == <<declared, files, evaluated, report, plan, runtime, changes>>
reviewVars == <<stage, capture, records, pending, evaluation>>

TwoRobots == {r1, r2}
OneZone == {z1}
OneStation == <<s1>>
Symmetric == Permutations({r1, r2})

Workflow == INSTANCE Enablement WITH
    Candidates <- MCCandidates, First <- "base",
    ExpectedSite <- "site", ExpectedDeployment <- "one",
    FixtureChannels <- MCFixtures, Profiles <- MCProfiles,
    CourseModels <- MCCourses, RequiredQueries <- {"slope", "surface"}, MaxChanges <- 2

Given == INSTANCE MCPolicyReview WITH
    SafetyBuffer <- 2, AlertLead <- 2, MinimumBattery <- 1, RiskHorizon <- 12
Review == INSTANCE PolicyReview WITH
    SafetyBuffer <- 2, AlertLead <- 2, MinimumBattery <- 1, RiskHorizon <- 12,
    Day <- 100, FullBattery <- 4, Captures <- Given!AllCaptures, LiveSnapshots <- Given!Snapshots

ASSUME Review!ConfigAssumption

-----------------------------------------------------------------------------
(* What a polygon is: a closed chain of at least three edges none of which *)
(* meets another, except that neighbours meet in their common corner.      *)
(* Segments of the grid that meet at all meet in a point whose parameter   *)
(* on each is a fraction with a denominator of at most eight; 840 is a     *)
(* multiple of all of them.                                                *)

Grid(m, n) == {<<x, y>> : x \in 0 .. m, y \in 0 .. n}
Polygons == [1 .. 3 -> Grid(2, 2)] \cup [1 .. 4 -> Grid(2, 2)] \cup [1 .. 5 -> Grid(2, 1)]

Parameters == UNION {{k * (840 \div d) : k \in 0 .. d} : d \in 1 .. 8}
Trace ==
    [e \in Grid(2, 2) \X Grid(2, 2) |->
       {<<840 * e[1][1] + t * (e[2][1] - e[1][1]), 840 * e[1][2] + t * (e[2][2] - e[1][2])>> :
           t \in Parameters}]

Ring(s) == IF s[1] = s[Len(s)] THEN SubSeq(s, 1, Len(s) - 1) ELSE s
Simple(s) ==
    LET n == Len(s)
        edge(i) == <<s[i], s[(i % n) + 1]>>
    IN /\ n >= 3
       /\ \A i \in 1 .. n : edge(i)[1] # edge(i)[2]
       /\ \A i, j \in 1 .. n :
             i < j =>
               LET common == Trace[edge(i)] \cap Trace[edge(j)] IN
               IF j = i + 1 \/ (i = 1 /\ j = n) THEN Cardinality(common) = 1 ELSE common = {}

-----------------------------------------------------------------------------
\* One state of the simulator for the others.
AtRest == balls["dispenser"] = TotalBalls
EnablementOff ==
    /\ declared = Off /\ files = Off /\ evaluated = Off /\ report = Off /\ plan = Off
    /\ runtime = Off /\ changes = Off
ReviewOff ==
    stage = Off /\ capture = Off /\ records = Off /\ pending = Off /\ evaluation = Off

SiteInit ==
    /\ Init
    /\ \/ part = "simulator" /\ points = Off /\ EnablementOff /\ ReviewOff
       \/ part = "enablement" /\ AtRest /\ points = Off /\ Workflow!Init /\ ReviewOff
       \/ part = "polygon" /\ AtRest /\ points \in Polygons /\ EnablementOff /\ ReviewOff
       \/ part = "review" /\ AtRest /\ points = Off /\ EnablementOff /\ Review!Init

SiteNext ==
    /\ UNCHANGED <<part, points>>
    /\ \/ part = "simulator" /\ Next /\ UNCHANGED <<enablementVars, reviewVars>>
       \/ part = "enablement" /\ Workflow!Next /\ UNCHANGED <<vars, reviewVars>>
       \/ part = "review" /\ Review!Next /\ UNCHANGED <<vars, enablementVars>>

SiteSpec == SiteInit /\ [][SiteNext]_<<part, points, vars, enablementVars, reviewVars>>

-----------------------------------------------------------------------------
(* Enablement (evaluation.py, launch.py and the composition root).         *)
ReadyIsJustified == part = "enablement" => Workflow!ReadyIsJustified
WorkflowsAreIndependent == [][part = "enablement" => Workflow!EvaluatesIndependently]_enablementVars

(* Commissioning accepts a polygon if and only if it is one: the area and  *)
(* the pairwise intersection test of validation.py, which looks at         *)
(* orientations of end points only and never at neighbouring edges, decide *)
(* exactly whether the outline crosses or touches itself.                  *)
PolygonVerdictIsGeometric ==
    part = "polygon" => (PolygonSound(points) <=> Simple(Ring(points)))

(* PolicyReview and Guardian (the manager's decision workflow).            *)
ReviewIsSound == part = "review" => Review!ReviewIsSound
=============================================================================
