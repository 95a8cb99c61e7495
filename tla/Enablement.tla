----------------------------- MODULE Enablement -----------------------------
(***************************************************************************)
(* nxt_workflow_enablement and the composition root that drives it         *)
(* (scripts/pilot_course_a_enablement_fixture.py and                       *)
(* pilot_site_workflow_enablement_demo.py): a candidate manifest and what  *)
(* is declared about it are evaluated, shared gates first and then every   *)
(* workflow for itself; a READY Range Operations workflow may be planned   *)
(* and its runtime assembled in an evidence directory.                     *)
(*                                                                         *)
(* What is declared is plain data and may be wrong, or left over from      *)
(* another candidate: the operator changes one declaration at a time,      *)
(* between any two steps, at most MaxChanges times.                        *)
(***************************************************************************)
EXTENDS Commissioning

CONSTANTS
    Candidates,     \* the manifests that may be proposed, by name
    First,          \* the name of the first one
    ExpectedSite, ExpectedDeployment,
    FixtureChannels,    \* the channels the composition root declares as its own inputs
    Profiles,           \* the calibration identity of each adapter profile, by sensor
    CourseModels,       \* the course models that may be declared
    RequiredQueries,
    MaxChanges

RangeOps == "range.closed_loop_collection_handoff"
Grounds == "course.grounds_condition_intelligence"
PlayerCaddy == "course.player_caddy_experience"
Workflows == {RangeOps, Grounds, PlayerCaddy}
RangeOpsVersion == "v1"

-----------------------------------------------------------------------------
(* The shared gates.                                                       *)

\* from_dict: a site, or an exception.
Constructed(n) == IF Accepted(Candidates[n]) THEN Candidates[n] ELSE NoValue

SharedFailures(n, context) ==
    (IF Constructed(n) = NoValue THEN {"manifest_invalid"}
     ELSE (IF Candidates[n].site # ExpectedSite THEN {"site_identity_mismatch"} ELSE {})
          \cup (IF Candidates[n].deployment # ExpectedDeployment THEN {"deployment_identity_mismatch"} ELSE {}))
    \cup (IF context.rootEmpty THEN {} ELSE {"output_location_collision"})
    \cup (IF context.execution THEN {"physical_execution_claimed"} ELSE {})
    \cup (IF context.transport = "FIXTURE_ONLY" THEN {} ELSE {"transport_not_fixture_only"})

-----------------------------------------------------------------------------
(* Range Operations, requirements v1.                                      *)

\* Empty when it cannot be derived; the templates are never empty for a full topology.
RequiredChannels(m) ==
    LET stations == EquipmentOf(m, "collection_station") IN
    IF {} \in {ZoneIds(m), stations, RobotIds(m)} THEN {}
    ELSE SiteChannels
         \cup {Channel("scan.zone", z, "balls") : z \in ZoneIds(m)}
         \cup {Channel("zone", z, "is_open") : z \in ZoneIds(m)}
         \cup {Channel("inventory.station", s, "buffer_balls") : s \in stations}
         \cup {Channel("station", s, f) : s \in stations, f \in {"docked", "is_open", "queue_length"}}
         \cup {Channel("robot", r, f) : r \in RobotIds(m), f \in RobotFields}

EquipmentCommissioned(m) ==
    /\ EquipmentOf(m, "dispenser") # {}
    /\ Cardinality(EquipmentOf(m, "washer")) = 1
    /\ Cardinality(EquipmentOf(m, "charging_station")) = 1
    /\ {} \notin {EquipmentOf(m, "collection_station"), RobotIds(m), ZoneIds(m)}

\* Every commissioned calibrated sensor has a profile of just that calibration.
CalibrationsMatch(m, profiles) ==
    \A s \in Elements(m.sensors) :
        s.calibration.status = "calibrated" =>
            s.id \in DOMAIN profiles /\ profiles[s.id] = s.calibration.id

FixturesAvoidTheAdapters(m, e) ==
    e.fixtures \cap e.channels = {} /\ e.fixtures \subseteq RequiredChannels(m)

FixturesFillTheGaps(m, e) ==
    /\ e.fixtures \cap e.channels = {}
    /\ e.fixtures \cap BoundChannels(m) = {}
    /\ e.fixtures \subseteq RequiredChannels(m)

RangeOpsMissing(m, e) ==
    LET satisfied ==
          [commissioned_range_equipment |-> EquipmentCommissioned(m),
           adapter_conversion_profiles |-> e.composed /\ e.channels \subseteq BoundChannels(m),
           calibration_profile_match |-> CalibrationsMatch(m, e.profiles),
           complete_channel_coverage |->
               RequiredChannels(m) # {} /\ RequiredChannels(m) \subseteq e.channels \cup e.fixtures,
           no_unsupported_channel_claims |-> FixturesFillTheGaps(m, e),
           runtime_configuration |-> e.mode = "SHADOW" /\ e.midnight]
    IN {r \in DOMAIN satisfied : ~satisfied[r]}

-----------------------------------------------------------------------------
(* The two course workflows, requirements v2.  Whatever no evidence can    *)
(* satisfy is one prerequisite here, always missing.                       *)

MapPrerequisites == {"course_coordinate_reference", "course_model_version", "map_version"}
GroundsScaffold == MapPrerequisites \cup {"what_no_evidence_satisfies"}
PlayerCaddyScaffold == {"course_world_model_map_query", "what_no_evidence_satisfies"}

CourseModelBinds(m, course) ==
    /\ course.site = m.site
    /\ course.deployment = m.deployment
    /\ course.crs = m.crs
    /\ course.origin = m.origin

GroundsMissing(m, course) ==
    IF course # NoValue /\ CourseModelBinds(m, course) THEN GroundsScaffold \ MapPrerequisites
    ELSE GroundsScaffold

PlayerCaddyMissing(m, course) ==
    IF course # NoValue /\ CourseModelBinds(m, course) /\ RequiredQueries \subseteq course.queries
    THEN PlayerCaddyScaffold \ {"course_world_model_map_query"} ELSE PlayerCaddyScaffold

-----------------------------------------------------------------------------
(* The evaluation: the shared result reaches every workflow, and each      *)
(* workflow's declarations reach only itself.                              *)

WorkflowReadiness(missing, blocked) ==
    [missing |-> missing, blocked |-> blocked, ready |-> missing = {} /\ ~blocked]

\* A plausible slip: a course model of another site counts against the site itself.
SharedGatesAndCourse(d) ==
    SharedFailures(d.manifest, d.context)
    \cup IF d.course = NoValue \/ CourseModelBinds(Candidates[d.manifest], d.course) THEN {}
         ELSE {"site_identity_mismatch"}

SharedGates(d) == SharedFailures(d.manifest, d.context)

Evaluation(d) ==
    LET m == Candidates[d.manifest]
        blocked == SharedGates(d) # {}
    IN [shared |-> SharedGates(d),
        site |-> IF blocked THEN NoValue ELSE [site |-> m.site, deployment |-> m.deployment],
        workflows |->
          [w \in Workflows |->
             CASE w = RangeOps ->
                    WorkflowReadiness(IF blocked THEN {"shared_site_valid"}
                                      ELSE RangeOpsMissing(m, d.evidence), blocked)
               [] w = Grounds ->
                    WorkflowReadiness(IF blocked THEN GroundsScaffold
                                      ELSE GroundsMissing(m, d.course), blocked)
               [] w = PlayerCaddy ->
                    WorkflowReadiness(IF blocked THEN PlayerCaddyScaffold
                                      ELSE PlayerCaddyMissing(m, d.course), blocked)]]

\* What the report says; its id is the digest of just this.
ReportOf(evaluation, context) ==
    [transport |-> context.transport, execution |-> context.execution,
     shared |-> evaluation.shared,
     ready |-> {w \in Workflows : evaluation.workflows[w].ready}]

-----------------------------------------------------------------------------
VARIABLES
    declared,   \* the candidate's name, the evidence, the course model, the context
    files,      \* whether the evidence directory holds anything
    evaluated,  \* what the last evaluation was of, and what it said, or NoValue
    report,     \* the report written with it
    plan,       \* the launch plan, or NoValue
    runtime,    \* what the running composition was assembled for, or NoValue
    changes

vars == <<declared, files, evaluated, report, plan, runtime, changes>>

\* adapter_composition_evidence: the kit composes over an accepted manifest and
\* then claims every bound channel.
AdapterEvidence(n) ==
    LET composed == Constructed(n) # NoValue IN
    [version |-> RangeOpsVersion,
     composed |-> composed,
     channels |-> IF composed THEN BoundChannels(Candidates[n]) ELSE {},
     profiles |-> IF composed THEN Profiles ELSE <<>>,
     fixtures |-> FixtureChannels, mode |-> "SHADOW", midnight |-> TRUE]

Context == [transport |-> "FIXTURE_ONLY", execution |-> FALSE, rootEmpty |-> TRUE]

Init ==
    /\ declared = [manifest |-> First, evidence |-> AdapterEvidence(First),
                   course |-> NoValue, context |-> Context]
    /\ files = FALSE
    /\ evaluated = NoValue /\ report = NoValue /\ plan = NoValue /\ runtime = NoValue
    /\ changes = 0

Change(new) ==
    /\ changes < MaxChanges /\ new # declared
    /\ declared' = new
    /\ changes' = changes + 1
    /\ UNCHANGED <<files, evaluated, report, plan, runtime>>

\* A new candidate keeps the evidence of the old one until it is gathered again.
Propose == \E n \in DOMAIN Candidates : Change([declared EXCEPT !.manifest = n])
Gather == Change([declared EXCEPT !.evidence = AdapterEvidence(declared.manifest)])
DeclareCourse == \E c \in CourseModels \cup {NoValue} : Change([declared EXCEPT !.course = c])
DeclareContext ==
    \/ Change([declared EXCEPT !.context.transport = "LIVE"])
    \/ Change([declared EXCEPT !.context.execution = TRUE])
    \/ Change([declared EXCEPT !.context = Context])

\* One declaration about the adapters or the runtime is other than the truth.
Misdeclare ==
    LET e == declared.evidence
        declare(wrong) == Change([declared EXCEPT !.evidence = wrong])
    IN \/ declare([e EXCEPT !.mode = "ACTIVE"])
       \/ declare([e EXCEPT !.midnight = FALSE])
       \/ declare([e EXCEPT !.version = "v0"])
       \/ declare([e EXCEPT !.composed = FALSE, !.channels = {}])
       \/ \E ch \in e.channels : declare([e EXCEPT !.channels = @ \ {ch}])
       \/ \E ch \in e.fixtures : declare([e EXCEPT !.fixtures = @ \ {ch}])
       \/ \E ch \in BoundChannels(Candidates[First]) : declare([e EXCEPT !.fixtures = @ \cup {ch}])
       \/ \E ch \in e.fixtures : e.composed /\ declare([e EXCEPT !.channels = @ \cup {ch}])
       \/ \E s \in DOMAIN e.profiles :
             declare([e EXCEPT !.profiles = [x \in DOMAIN @ \ {s} |-> @[x]]])

\* evaluate_enablement, with the emptiness of the directory probed just before.
Evaluate ==
    LET probed == [declared EXCEPT !.context.rootEmpty = ~files] IN
    /\ declared.evidence.version = RangeOpsVersion
    /\ evaluated' = [of |-> probed, says |-> Evaluation(probed)]
    /\ report' = ReportOf(Evaluation(probed), probed.context)
    /\ UNCHANGED <<declared, files, plan, runtime, changes>>

\* The readiness is the last evaluation's; context and evidence are today's, and
\* the plan refuses a midnight that is none.
PlanLaunch ==
    /\ evaluated # NoValue
    /\ evaluated.says.workflows[RangeOps].ready
    /\ declared.evidence.version = RangeOpsVersion
    /\ evaluated.says.site # NoValue
    /\ declared.context.transport = "FIXTURE_ONLY"
    /\ declared.evidence.mode = "SHADOW" /\ declared.evidence.midnight
    /\ plan' = evaluated.says.site
    /\ UNCHANGED <<declared, files, evaluated, report, runtime, changes>>

\* The factory takes the candidate at hand: it must bear the plan's identity, be
\* accepted and project onto the site configuration.
AssembleRuntime ==
    LET m == Candidates[declared.manifest] IN
    /\ plan # NoValue
    /\ Constructed(declared.manifest) # NoValue
    /\ plan = [site |-> m.site, deployment |-> m.deployment]
    /\ SiteConfig(m) # NoValue
    /\ runtime' = [site |-> plan, of |-> declared.manifest]
    /\ files' = TRUE
    /\ UNCHANGED <<declared, evaluated, report, plan, changes>>

\* The process ends; the plan is data and may be kept, the files stay.
StopRuntime ==
    /\ runtime # NoValue
    /\ runtime' = NoValue
    /\ UNCHANGED <<declared, files, evaluated, report, plan, changes>>

Next ==
    \/ Propose \/ Gather \/ DeclareCourse \/ DeclareContext \/ Misdeclare
    \/ Evaluate \/ PlanLaunch \/ AssembleRuntime \/ StopRuntime

Spec == Init /\ [][Next]_vars

-----------------------------------------------------------------------------
TypeOK ==
    /\ DOMAIN declared = {"manifest", "evidence", "course", "context"}
    /\ declared.manifest \in DOMAIN Candidates
    /\ declared.evidence.composed \/ declared.evidence.channels = {}
    /\ declared.course \in CourseModels \cup {NoValue}
    /\ files \in BOOLEAN /\ changes \in 0 .. MaxChanges
    /\ evaluated # NoValue =>
          /\ DOMAIN evaluated.says.workflows = Workflows
          /\ \A w \in Workflows : evaluated.says.workflows[w].ready \in BOOLEAN
    /\ (report = NoValue) = (evaluated = NoValue)
    /\ plan # NoValue => DOMAIN plan = {"site", "deployment"}
    /\ runtime # NoValue => runtime.site = plan /\ files

ReadyManifest == Candidates[evaluated.of.manifest]
RangeOpsIsReady == evaluated # NoValue /\ evaluated.says.workflows[RangeOps].ready

(* When Range Operations is READY, every channel it requires has exactly   *)
(* one source: one commissioned sensor whose adapter claims it, or one     *)
(* declared input that no commissioned sensor could contradict             *)
(* (evaluation.py, requirements 2, 4 and 5 taken together).                *)
EveryChannelHasOneSource ==
    RangeOpsIsReady =>
        LET m == ReadyManifest
            e == evaluated.of.evidence
            sensors(ch) == {s \in Elements(m.sensors) : s.channel = ch}
        IN /\ RequiredChannels(m) # {}
           /\ \A ch \in RequiredChannels(m) :
                 \/ ch \in e.channels /\ ch \notin e.fixtures /\ Cardinality(sensors(ch)) = 1
                 \/ ch \in e.fixtures /\ ch \notin e.channels /\ sensors(ch) = {}

(* When Range Operations is READY, every measuring sensor of the site held *)
(* a calibration on the day of the approval and the adapter converts with  *)
(* that very calibration: the commissioning rule and the readiness rule    *)
(* together, whatever profiles were declared for which candidate.          *)
ReadyMeasuresAreCalibrated ==
    RangeOpsIsReady =>
        \A s \in Elements(ReadyManifest.sensors) :
            s.type \in CalibratedSensors =>
                /\ s.calibration.from <= ReadyManifest.approved
                /\ ReadyManifest.approved <= s.calibration.until
                /\ s.id \in DOMAIN evaluated.of.evidence.profiles
                /\ evaluated.of.evidence.profiles[s.id] = s.calibration.id

(* No report names a ready workflow next to an invalid site, a live        *)
(* transport or a claim that robots can be reached, and no course workflow *)
(* is ever among the ready (docs/workflow_enablement_v0.md, "Deterministic *)
(* report").                                                               *)
ReportNeverOverclaims ==
    report # NoValue /\ report.ready # {} =>
        /\ report.shared = {} /\ report.transport = "FIXTURE_ONLY" /\ ~report.execution
        /\ report.ready = {RangeOps}

(* What runs is one site: the candidate its sources were composed from is  *)
(* the site its records are filed under, and the one the operator expects, *)
(* although plans outlive evaluations and candidates change in between.    *)
(* It need not be the candidate that was evaluated: plan and factory       *)
(* compare the site's and the deployment's names, not the content of the   *)
(* manifest, so another candidate of the same names may run unevaluated.   *)
RuntimeIsOneSite ==
    runtime # NoValue =>
        /\ Candidates[runtime.of].site = runtime.site.site
        /\ Candidates[runtime.of].deployment = runtime.site.deployment
        /\ runtime.site = [site |-> ExpectedSite, deployment |-> ExpectedDeployment]

(* READY is justified by the candidate and the evidence that were          *)
(* evaluated, no report claims more, and what runs bears the names that    *)
(* were planned and expected.                                              *)
ReadyIsJustified ==
    TypeOK /\ EveryChannelHasOneSource /\ ReadyMeasuresAreCalibrated /\ ReportNeverOverclaims
    /\ RuntimeIsOneSite

DifferOnlyIn(a, b, field) == \A f \in DOMAIN a \ {field} : a[f] = b[f]

(* From one evaluation to the next, a course model declared, withdrawn or  *)
(* exchanged changes nothing about the site and Range Operations, and the  *)
(* Range Operations evidence changes nothing about the course workflows.   *)
EvaluatesIndependently ==
    evaluated # NoValue =>
      LET a == evaluated
          b == evaluated'
      IN /\ DifferOnlyIn(a.of, b.of, "course") =>
               /\ a.says.shared = b.says.shared
               /\ a.says.workflows[RangeOps] = b.says.workflows[RangeOps]
         /\ DifferOnlyIn(a.of, b.of, "evidence") =>
               \A w \in {Grounds, PlayerCaddy} : a.says.workflows[w] = b.says.workflows[w]
WorkflowsAreIndependent == [][EvaluatesIndependently]_vars
=============================================================================
