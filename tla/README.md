# Models of the NXTektal simulation and edge software

TLA+ models of the parts of `simulation/` that keep state, exchange messages or
decide something a person acts on: the task exchange between the Edge and a
robot, the stores under it, the agent runtime with the feed before it and the
manager's decision workflow behind it, the intervention service, the handoff of
balls at a station, the simulated operating day, and the way from a commissioned
site to an enabled workflow. Each is model-checked with TLC on small instances;
everything that is checked of the robot, the Edge, the journal, the manifest
store, the event ledger and the intervention service, liveness apart, is also proved
with TLAPS for every value of the constants, and so is nearly all that is checked
of the agent runtime, and the safety of the handoff and of the range.

## 1. The system

| Part | State it keeps | Operations | Talks to |
| --- | --- | --- | --- |
| **Robot executor** `nxt_edge_task/executor.py`, hosted by `scripts/mock_robot_task_device.py` | a journal (identity, boots, requests, acceptances, starts, ends, publications, protection) and the view replayed from it | receive a request, accept or reject, tick through a scripted task, send pending events, reset, restart, provision | broker |
| **Edge lifecycle** `nxt_edge_task/cases.py`, hosted by `scripts/edge_task_gateway_v0.py`; `scripts/edge_task_cli.py` | a journal shared by both processes and the view of tasks and devices replayed from it | create, publish, classify events, heartbeat, tick, reconnect | broker, operator |
| **Journal** `nxt_edge_task/journal.py` | a JSONL file, a high-water anchor file, the verified prefix each instance remembers | read, append under a lock, discard the anchor | robot, Edge, interventions |
| **Transport** `scripts/edge_task_transport.py` | sessions and queues | publish with hop-1 confirmation, acknowledge, reconnect | robot, Edge |
| **Interventions** `nxt_edge_interventions/`, `scripts/edge_intervention_service_v0.py` | journal of cases and notification attempts; the receiver's receipts | reconcile, remind, notify, acknowledge, resolve | Edge journal (read), receiver, operators |
| **Observation feed** `nxt_edge_observation/` | a cursor in memory | convert a batch, deliver, acknowledge, reject, restart | devices, site pipeline |
| **Site pipeline** `nxt_site_runtime/`, **assembly** `nxt_telemetry/assembler.py` | publication checkpoint | observe, assemble, gate, publish, reject | feed, agent runtime |
| **Agent runtime** `nxt_agent_runtime/` | evaluation checkpoint, evaluation journal, snapshot stream; whether it recovered, failed or was stopped | recover, run_once, run, request_stop | site pipeline, guardian, ledger |
| **Guardian** `nxt_pilot_ops/guardian.py`, `projection.py`, `contracts.py`, `semantics.py`, `adapters/facility_state.py`, `cli.py` | none; a capture file is read line by line | project, evaluate, validate, review a capture | agent runtime, manager |
| **Event ledger and workflow** `nxt_pilot_ops/ledger.py`, `workflow.py`, `nxt_agent_runtime/queue.py` | hash-chained JSONL of a recommendation's life; deferrals in memory | append, verify, replay, decide, defer, record | agent runtime, managers |
| **Handoff controller** `nxt_sim/controllers/`, `adapters/` | a state machine with attempts, retries and time-outs | one cycle, emergency stop | mock adapter |
| **Range simulator** `nxt_range_ops/` | ball ledger, robots, stations, lines, staff | processes of a day, directives through a safety shield | policies |
| **Commissioning** `nxt_commissioning/` | one immutable manifest per deployment | validate, project, save, load | enablement, telemetry |
| **Workflow enablement** `nxt_workflow_enablement/` and the composition root | what is declared, the last evaluation, a plan, a runtime | evaluate, report, plan, assemble | commissioning, feed, runtime |
| Facility memory, facility state, course world model, twins, viewers, benchmark, ROI engine, web app | records, or none | recording, pure functions and rendering | |

What is hard in it: processes die between two durable writes, and within one;
messages are delivered late, twice, out of order and across restarts; waiting
for a confirmation runs the callbacks that change what one waits for; several
processes append to one file; decisions are built from a view read in an earlier
call; a robot may be provisioned again under a new identity while requests of
the old one are still under way; a retry may come from a build that would now
decide differently; what was declared about a site may be left over from another
one; and the same boundary (a stock that runs out in the minute help arrives, a
budget used up to the last unit) is computed in several places. `PROJECT.json`
lists each hazard at its line with the properties aimed at it.

What makes each part correct, in a sentence:

- *Robot*: a task is executed at most once, only after its acceptance is out,
  only in the boot that accepted it; what it reports is what its journal shows.
- *Edge*: a robot has one open task; contradictory evidence closes the gate to
  further work and is never undone; a task nothing contradicts has the state of
  its highest evidence, whatever the order; publication is authorised at the
  moment it happens and bounded.
- *Journal*: what was confirmed is in every journal that is accepted; decisions
  are taken on exactly the lines of the file; no crash is taken for tampering.
- *Interventions*: one case per condition, one notification per obligation, no
  more calls than the budget, closed cases stay closed, and people come to know.
- *Feed and pipeline*: nothing is published that was not sensed by one sound
  reading, nothing twice, nothing is skipped.
- *Agent runtime*: what is evaluated is what was published, once and in order;
  no frame is forgotten before its evaluation is durable; ledger and journal
  agree; nothing but damage stops it for good.
- *Guardian, ledger*: advice is what the facts bear out, and the history of a
  recommendation is one story whoever writes it.
- *Handoff, range*: the basket is down before the robot leaves, no motion after
  a stop, every ball is somewhere, nobody waits for ever.
- *Commissioning, enablement*: a manifest that was saved stays; READY is only
  said of a site every channel of which has one calibrated source.

## 2. Modules

| Module | Models | Kind |
| --- | --- | --- |
| `RobotExecutor` | executor and device process | specification |
| `TaskPromise` | what a robot promises about a task | abstract specification |
| `EdgeLifecycle` | lifecycle rules, gateway, command-line writer | specification |
| `Authorization` | when a request may be published | abstract specification |
| `JournalFile` | journal, anchor, caches, lock | specification |
| `Interventions` | cases, notifications, service, operators, receiver | specification |
| `EdgeAdapters`, `FacilityAssembly` | conversion of a batch; assembly, validation and gate of a frame | operators |
| `ObservationIntake` | feed, pipeline and restarts over them | specification |
| `AgentRuntime` | runtime, pipeline, checkpoints and the three appends | specification |
| `FrameSettlement` | what the runtime promises about frames | abstract specification |
| `Guardian` | projection, policy and validators | operators |
| `PolicyReview` | reading a capture and evaluating it | specification |
| `PilotLedger` | event ledger, cases, decision queues | specification |
| `CaseLifecycle` | the life of a recommendation | abstract specification |
| `HandoffRobot` | the mock adapter's answer to every call | operators |
| `HandoffController` | the handoff cycle | specification |
| `RangeOps` | the simulated day, shield and directives | specification |
| `Commissioning` | rules of a manifest, projections | operators |
| `Enablement` | declaration, evaluation, plan, assembly | specification |
| `ManifestStore` | saving manifests at one path | specification |
| `MC...` | values of the constants for TLC | model checking |
| `RobotExecutor_proofs` | types, at-most-once, everything else about the robot, and that it implements `TaskPromise` | proofs |
| `EdgeLifecycle_proofs` | everything about the Edge, and that it implements `Authorization` | proofs |
| `AgentRuntime_proofs` | what the stores of the agent runtime agree on, that it implements `FrameSettlement`, that it raises no false alarm | proofs |
| `DurableFiles_proofs` | soundness of the journal; what a saved manifest is worth | proofs |
| `RangeOps_proofs` | that the simulated range is consistent | proofs |
| `HandoffController_proofs` | that a handoff is safe and its outcome true | proofs |
| `PilotLedger_proofs` | that the ledger tells one story, behind nothing torn, and implements `CaseLifecycle` | proofs |
| `Interventions_proofs` | that cases are true, calls accounted for and resolved cases final | proofs |

`ObservationIntake` extends `FacilityAssembly`, which extends `EdgeAdapters`:
one composition from a device's sample to a published state. `PolicyReview`
extends `Guardian`, `HandoffController` extends `HandoffRobot`, and `Enablement`
extends `Commissioning`, in each case the process over the rules it applies.

A run may contain several models that share nothing. Which of them a behaviour
belongs to is fixed in its first state (`part`), and the variables of the others
do not move, so each is explored as if it were alone. Likewise `tour`, `scene`
and `party` choose in the first state one of several bounds for the same model.
Several properties are conjunctions of named parts, each with its own comment at
its definition: `ReportsAreTrue`, for instance, is `TerminalMatchesEvidence`,
`HistoryIsLinear` and `AckedRequestIsAnswered`. Definitions marked "A plausible
slip" are variants of the one above or below them, used to test that the
properties notice.

### RobotExecutor

The journal is the state: the variables of `journalVars` (`task`, `cond`,
`current`, ...) are what `RobotView.apply` makes of the lines written so far and
`batch` is the lines of the append in progress, so that `WriteLine` is one line
of `append_via` and a crash may come between any two. A restart is `StartAgain`
and the recovery of `on_start` in its three passes (`Recover`, `FinishBoot`); the main loop of the device is `Receive`/`AckRequest`,
`ExecutionStep` and the publication of pending events with its hop-1 wait,
during which callbacks may still arrive (`HopOneConfirmed`, `HopOneTimeout`).
`LoseJournal` and `StartProvisioning` give up the journal and take a new
incarnation. `runs` counts what was ever executed, over all journals; the
properties about execution are stated on it and not on what the journal says.

### EdgeLifecycle

`task` and `device` are the view replayed from the journal, `batch` the lines a
decision is about to write, `pc`, `handling`, `plan` and `sending` the position
of the gateway's loop. Robots are the environment: any event of the set `Events` may be delivered
at any time, several times, and must be acknowledged. The second process
creates tasks between any two lines. Time is a count of ticks with ages that
stop at the largest threshold. `Authorization` is the abstract promise: which
request may be published is decided on the state at that very moment.

### JournalFile

Bytes are line numbers. A process has the lines it verified and their anchor in
memory; the file has lines that are durable and lines a loss of power would
take. `AppendVia` is split where the code calls the kernel: open, lock, verify,
write, synchronise, write the anchor, return. Operators may copy the file, put
an older copy back or delete it (`Outside`).

### Interventions

`cases` is the view of the service's journal, notifications included; `pc` is the
position of `InterventionService.tick` (repair, read the snapshot, reconcile,
remind, plan and make the attempts) and `batch` the lines of the append in
progress, of which a crash leaves a prefix. The Edge is the environment: `edge`
changes at any time within a theme (a robot that asks for help, one lost and
found, contradictory evidence), `snap` is what the service read of it. Operators
acknowledge and resolve between any two appends; the receiver's receipts are
`receipts`. An interval may have run out or not whenever it is looked at.
`HumansKnow` is stated under the fairness of the loop, a service that is started
again, intervals that pass and a journal of the Edge that can be read again.

### EdgeAdapters, FacilityAssembly, ObservationIntake

`Convert` folds the samples of a batch, in the order the adapters visit them,
into a collector of observations, acceptances and rejections, and then
reconciles silent devices. `Assemble` fills what was not sensed, and
`QualityGate` decides. `ObservationIntake` delivers batches with a cursor that is
lost in a crash, processes them against the durable checkpoint, and settles;
restarts either count the consumed batches (`Resume`) or begin at zero
(`StartOver`). Five of a robot's nine fields are kept, one for each kind of
check. `OneSoundReadingOrNone` and `PublishedIsSensed` are stated on the raw
samples (`Readings`, `Says`), not on the collector. `PublishedIsSensed` also asks
that every reading, and the upstream inputs, were recent enough (`Fresh`): by the
age the channel's profile allows and by the limit of the runtime, which may be
longer. Samples within both, beyond the first and beyond both occur. A resumption counts what the
tools count, the batches published or discarded; the documented rule, taken to
the letter after a crash between publication and acknowledgement, would deliver a
published batch under a new number.

### AgentRuntime

A frame is its position in the source, of a kind `good`, `poor` (refused by a
strict quality gate) or `invalid`. `rt[r].pc` is the position of instance `r` in
`run_once`; every read or write of a store is a step. A failing call (`Fault`)
may have happened or not. A configuration is the build of the assembler, the
policy of the guardian and the gate; a restart may change it. Identities are
digests of content in the code, so records are compared as values here.

### Guardian, PolicyReview

The guardian is a pure function; `SweepTo` walks the events of the projection
(demand buckets, arrivals, the close of the day) with the code's order at equal
times. `ProjectionIsExact` compares it with a second definition that counts tick
by tick, for the stock as it is and with each candidate's delivery. Times are
whole ticks and rates whole balls per tick; the one division is exact on the
inputs chosen. `HelpIsNotOverlooked` has one exception, which
`docs/shadow_ops_v0.md:97-100` implies: a stockout exactly on the horizon cannot
be put off beyond it. `PolicyReview` reads captures that were written by the
recorder and then altered, or put together anew: every file of up to four records
out of the recorder's three, two of another run with the same scenario and seed,
one of another scenario and one of another seed. A record does not say of which
run it is, so what can be promised is limited, and `AcceptedIsComplete` says how
far (section 4).

### PilotLedger

An append locks, reads and verifies the whole file, applies the event and writes
one line, in one step; the view an actor decided from is read in an earlier one
(`Look`), so that every interleaving of two queues and a recorder occurs. A
process may die within the line (`halfLine`). `CaseLifecycle` is the abstract life
of a recommendation and `LifecycleKept` the refinement. The initial predicate, the
steps and the type invariant of this module and of `ManifestStore` have names of
their own (`LedgerInit`, `StoreInit`, ...), so that `MCRecords` can extend both
together with `JournalFile` and checks the very definitions the theorems state.

### HandoffRobot, HandoffController

`HandoffRobot` has one operator per call of the task interface: from the
configured world, the robot and the luck dealt, the answer, its duration and the
robot afterwards. `HandoffController` calls them one after the other with the
retries, the recovery, the safe retract and the end of `run_cycle`; a call is two
steps (`Begin`, `Return`) and a stop may be requested between any two.

### RangeOps

Every wait of the discrete-event simulation is a point where another process may
go on; durations are abstract, so any process may be the next, and an interrupt
belongs to the step that raises it. `balls` is the ledger, `line` the slots and
queues, `rob[r].task` where the robot's process waits. Once per control step the
books are flushed and one directive goes through the shield.

### Commissioning, Enablement, ManifestStore

A manifest is a record; the rules are the operators of `Commissioning`, one per
validator. `Enablement` lets an operator change one declaration at a time between
evaluation, planning and assembly: candidates that break one rule each, evidence
of the wrong candidate, course models of other sites. `ManifestStore` splits
`save` at its system calls; savers are killed and power is lost anywhere.
`PolygonVerdictIsGeometric` compares the pairwise orientation test with the
geometric definition on every polygon of up to five points of a small grid.

## 3. Runs

Each run has a cfg of its own; the bounds are its constants, or the values its MC
module gives.

| Run | Question | Bounds |
| --- | --- | --- |
| `robot_tours` | Do reports fit the journal, is motion guarded, does a restart lift or resume nothing, is no task run twice, is every journal line a step of `TaskPromise`? | tour *one*: 1 task, all 9 scripted behaviours, 3 starts; tour *two*: 2 symmetric tasks, 3 behaviours, 2 starts, 2 incarnations |
| `robot_liveness` | Is every request answered, does every accepted task end? | 1 task, 3 starts, provisioned up to twice |
| `edge_scenes` | Does evidence decide whatever its order, is nothing taken back, does publication implement `Authorization`, is there one open task? | *evidence*: 1 task, 8 events, one redelivered, 1 crash; *publish*: 2 robots, 2 tasks, one may expire, 1 lost session; *sessions*: 2 tasks of 1 robot, the second may expire, 3 sessions, 1 crash |
| `edge_liveness` | Are attempts bounded, is silence noticed, is an unresolved task probed? | 1 task of a robot that reports to be busy and repeats its last event, 2 attempts, clock up to 2 |
| `records` | Is the journal sound, a saved manifest for good, the ledger one story that follows `CaseLifecycle`? | journal: 2 symmetric processes, 4 lines, batches of 2, 1 copy; store: 2 savers, 3 manifests, 4 saves, 2 failures; ledger: 2 queues of different scope, 1 recorder, 1 recommendation with 5 lines or 2 with 3, 2 instants |
| `agent_parties` | Is evidence kept, written behind nothing torn, and settled as `FrameSettlement` says? | *upgrades*: 3 frames of 3 kinds, 3 configurations, 1 crash, 1 failing call, 1 half line; *pair*: 2 instances, 2 good frames, 1 crash, 1 forgotten acknowledgement |
| `agent_liveness` | Is every frame settled, does nothing but damage stop the runtime? | 3 frames of 3 kinds, 2 crashes, 1 failing call, 1 half line, 1 forgotten acknowledgement |
| `agent_repeated` | (expected to fail) Does a repeated rejection mean a retained frame? | 3 frames, no failures |
| `interventions` | Are cases true, calls accounted for, resolved cases final, do humans get to know? | 1 task of 1 robot, 3 themes of 3 or 4 events, 1 attempt, 1 reminder |
| `operations` | Does a handoff end safely and report what happened, is the feed honest and live, do robots get away from the dock and get help? | about 150 handoff bundles; every one-sample deviation of a good batch, 18 mistakes of the deployment each with the deviations of the devices it is about, 3 batches with 2 crashes; 1 robot with 2 balls and 1 fault; 2 robots and one person |
| `site` | Is the simulated range consistent, READY justified, a workflow independent of the others' declarations, the polygon verdict geometric, a review sound? | 2 symmetric robots, 1 zone, 2 balls, 1 fault; 14 candidates, 2 changes; polygons of 3 to 5 points; about 21600 snapshots and 3100 captures |
| `store_finding` | (expected to fail) Is only one manifest of a deployment ever answered as saved? | 2 savers, 3 manifests, 4 saves, 2 failures |

Why the bounds are enough: the rules relate at most two tasks of one robot, two
neighbouring frames, or two processes on a file; three starts cover a crash
during the recovery from a crash; a third frame covers a discarded one between
two others; one event repeated and every order of up to eight covers the
classification, which compares an event with the highest one seen, the keys and
the recorded ends. One failing call, one crash and one half line put every pair of
failures of different kinds next to each other, and the liveness run adds a
second crash. A notification with one attempt is enough to exhaust a budget, and
with one reminder the next is refused. Two balls, baskets of one and a buffer of
one fill every place there is; a fault and a directive per control step put every
interruption next to every wait. The handoff, the adapters, the rules of a
manifest and the guardian compare parameters with one another, so bundles and
samples below, at and above each limit reach every branch. A case has five kinds
of event, so five lines hold a whole life, and two recommendations are enough for
one to be mistaken for the other.

Liveness states the fairness it needs. *Robot*: the main loop keeps running, the
operator restarts a device that died, and a hop-1 wait is in the end confirmed if
it is tried again and again. *Edge*: the main loop keeps ticking, the supervisor
restarts the gateway, time passes. *Agent*: the caller calls `run` again and
replaces an instance that refuses; a source that forgot the acknowledgement of a
frame whose successor is being published is excepted (`SourceFellBehind`), because
`_sequence_mode` refuses the older number for ever. *Interventions*: the service loop goes on and
is started again, intervals pass, the Edge's journal becomes readable again and
again. *Handoff*: the thread of the cycle runs on. *Feed*: the runtime is called
again and settles what it processed. *Range*: control steps follow each other,
and a wait that can end does so again and again (strong fairness, because a flush
comes between any two). All other properties hold without fairness. In
`operations` eventualities of models that run side by side are written `[]<>`,
which says the same of a behaviour that starts anywhere. `CHECK_DEADLOCK FALSE`
stands where the bounds on starts, crashes or attempts, or the end of what is
reviewed, let the system stop.

## 4. Where the code and its documentation differ

Two runs show such a difference.

- `agent_repeated` states what a comment of `run()` says (`runtime.py:573`: the
  source retained the frame and nothing changed): the same number, code and
  detail twice are taken for one retained frame, but a source that discards gives
  the number to the next frame, so two different bad frames in a row end a run
  that could go on.
- `store_finding` states that commissioning is immutable by identity
  (`docs/commissioning_v0.md:63-67`): a second process that saves the same
  manifest is answered before the first has synced the directory
  (`store.py:136-138`, `:156-158`); after a loss of power a different manifest can
  be saved, and both were answered as saved. `ConfirmedIsTheManifest` holds of the
  process that created the entry.

While the modules were written these differences were noticed too. Where a
definition is named, TLC refutes it as soon as a configuration lists it; no run
does, because each is about a sentence of the documentation and not about
something the code relies on.

*Edge*
- `UnresolvedIsProbed` holds for a robot that reports to be busy. For one that
  reports to be idle (`Statuses <- OneStatus`) and repeats an old event between
  its status and the next tick, the flag is always answered before it is looked
  at (`cases.py:931`), and `docs/edge_task_v0.md:261` says a stream of duplicates
  does not starve the probing.
- `OnlyConflictsCloseGate`: the gate is also closed by activity after an end,
  without a conflict or a regression (`cases.py:401`, comment at `cases.py:142`;
  `docs/edge_task_v0.md:208-215` describes what the code does).
- `ConflictDetectedInEveryOrder`: a late FAILED and then a REJECTED above it are
  no conflict (`cases.py:1158`, `docs/edge_task_v0.md:180-182`). The gate is
  closed all the same, which `EvidenceClosesGate` checks.
- `ForeignEvidenceIsRegression`: an event of another incarnation under a key
  already used is recorded without a session regression (`cases.py:1090`,
  `docs/edge_task_v0.md:188-195`).
- `CrashIsNotARollback`: a crash between the lines and the anchor of the very
  first append leaves a journal that is refused (`journal.py:194`,
  `tests/edge_task/test_journal.py:199`).
- `RollbackMeansLoss`: a reader that found no journal, and reads the anchor
  after another process created both, reports a rollback (`journal.py:242`,
  `journal.py:161-164`).

*Agent runtime and observation*
- `OnlyBadFramesAreDiscarded`: with two runtimes over one source, a second
  rejection can discard the good frame that took over the number
  (`pipeline.py:237`, comment at `pipeline.py:272`). The runtime is documented as
  single-threaded and the feed is a cursor in its process, so this does not occur
  as long as nobody starts a second one over the same source.
- A sample from the future is demoted to missing and keeps its timestamp, so the
  frame is refused as an invalid observation and not for its quality. An activity
  the facility does not know passes the adapter and fails in the assembly, with a
  frame that is kept for ever: `EveryBatchIsDecided` is about frames that can be
  assembled.
- Starting over from batch zero is safe (`NoBatchTwice`) and may make no progress.

*Decisions*
- `queue.py:216` says a deferral is cleared by any recorded manager response; it
  stays in the memory of another queue instance, which hides nothing, because
  only pending cases are listed.

- A capture is accepted if scenario and seed of its records are the declared ones,
  their times increase and there are as many as declared
  (`facility_state.py:293-313`). A record of another run of the same scenario and
  seed (of another policy, say), also in the place of one that was lost, and an
  altered forecast or sensed stock pass. `AcceptedIsComplete` promises no more than
  the code does: a file that holds none but the recorder's records holds all of
  them in order, and records of another scenario or seed are refused.

*Interventions*
- A notification exhausted without confirmation keeps its case marked as such
  after a late receipt: `expired_unconfirmed` is never reset.

*Handoff*
- "Failures after docking attempt a best-effort SAFE RETRACT"
  (`handoff_state_machine.py:20-21`): lowering, undocking and a recovery that fail
  end the cycle without one. A verification of the dock that times out leaves the
  robot docked, the recovery then answers INVALID_STATE, and the outcome says
  `docked = False`.
- A stop requested after `_outcome` looked at the flag has no effect on that
  cycle; `StopIsHonoured` is about requests before.

*Range*
- Assigning a robot and pausing it in the same instant leaves a robot that
  travels without a task; the environment gives one directive per step, so no run
  of it gets there, and the model does as the environment.

*Enablement*
- READY does not check that the site projects onto the legacy configuration
  (a payload in kilograms, two matching measurements, a capacity that is no whole
  number): the assembly then fails (`AssembleRuntime` is not enabled), although
  `docs/workflow_enablement_v0.md` calls the projection a precondition. The evidence
  directory is probed when the declaration is made and used later.
- A plan names site and deployment and not the digest of the manifest, and the
  factory compares those names only (`pilot_course_a_enablement_fixture.py:373-379`,
  whose docstring leaves the rest to the composition root). In the model a candidate is
  evaluated and planned, another one of the same names is proposed (moved, or
  recalibrated), and the runtime is assembled of the one that was never evaluated.
  `RuntimeIsOneSite` therefore speaks of names. The scripts hand the same object to
  all three calls, so this needs a caller of its own.

## 5. What is proved

Every theorem is about the specification TLC checks, for any value of the
constants that satisfies the module's assumption. The assumptions are
`ConstantsAssumption` (robot), `ScenarioAssumption` and `IdAssumption` (range: what
the validators of a scenario ensure, and finitely many robots, zones and stations
with distinct ids), `WorldAssumption` and `NoneAssumption` (handoff: lengths, angles,
budgets and numbers of retries are not negative, and None is no distance and no
outcome), `EdgeAssumption` (Edge: finitely many robots, and thresholds in the order the configuration class demands),
`JournalAssumption`, `StoreAssumption`, `LedgerAssumption` (times are numbers, and None
is no time, event, case or view), `InterventionAssumption` (finitely many tasks and
robots, no task a robot, and a budget of at least one attempt), and `ConstantsAssumption` and
`NoneAssumption` of the agent runtime (what kinds, gates and ways of calling
`run` there are, and that None is no batch, envelope or evaluation). Bounds on crashes, starts, losses or
attempts are arbitrary numbers in them, and none is needed small.

### The robot

All in `RobotExecutor_proofs`:

- `TypeCorrect`, `ExecutionInvariant`, `AtMostOnce`: no task is executed twice.
- `RobotInvariant`: `Spec => []RobotInv`, the inductive invariant behind the next
  four.
- `ReportsHold`, `MotionHolds`: the invariants `ReportsAreTrue` and
  `MotionIsGuarded`.
- `RestartsHold`: the action property `RestartsAreSafe`.
- `PromiseHolds`: the executor implements `TaskPromise`.

At-most-once is not inductive: `runs`, the history of executions, is not what the
executor decides on. `ExecutionInv` ties the two together. For the current
incarnation every execution in the history is a start in the view or in the
batch in progress; a batch holds at most one start and none for a task the view
has started; tasks of earlier incarnations are refused before they are looked
at, and those of later ones were never executed. Losing the journal and
provisioning again is safe because the new incarnation is higher than every
earlier one.

The other properties speak of the view, but a step only ever writes a *line*, and
whether the line fits was decided when the batch was put together, possibly
several lines, a crash or a wait for the broker earlier. `RobotInv` therefore says
what has to be true while a line waits:

- `ViewInv`: the fields of a task agree with each other, with its history of
  events, with `current` and with the robot's condition; the history is ordered
  by boot and sequence and ends at the first terminal event.
- `LinesInv`: the line at each place of the batch, given those before it, is one
  the executor may write: a decision comes with its report behind it, an
  acceptance finds the robot free, a start finds its acceptance out in this very
  boot, a reset is preceded by the failure of the task it abandons.
- `StageInv`: how far the three recovery passes have brought the view. After the
  first, whatever is unfinished was accepted in this boot; after the second, what
  was decided was reported; after the third nothing is undecided.
- `TrafficInv`: what waits for the broker is in the view, and what was
  acknowledged to it is answered or in hand.

Initially there is nothing; per action one lemma shows the parts it can disturb.
The heart is `WriteLine`: per kind of line one lemma gives its effect on the view,
and the rest of the batch stays true because `LinesInv` already speaks of it
relative to the lines before it. The refinement maps a task's decision, end and
start to `phase`. Receiving is `Take`, a decision `Refuse` or `Accept`, the start
of the execution `Run`, the report that asks for help `AskForHelp`, the terminal
reports `Succeed` and `EndOtherwise`, the reset `Release`, the loss of the journal
`Forget`; every other step stutters.

### The Edge

`EdgeLifecycle_proofs`: `EdgeInvariant`, `TypeCorrect`, `PublicationsBounded`,
`OneTaskPerRobot`, `EvidenceIsDecisive`, the action property `NothingTakenBack`,
and the refinement `AuthorizationIsKept`.

As with the robot, what counts is decided before it is written. `LineSound` says
it of every line of the batch: a created task finds its robot without another one
and its gate open (`CreatedSound`); an attempt is below its bound
(`AttemptSound`); an event that is applied is new, above everything the task has
seen and of the right incarnation (`AppliedSound`); one that is only kept is in
order, or the reason why it is not is on the same line or the line before
(`KeptSound`). `EvidenceSound` is the view's side: two events under one key are
the same event, a state is shown by the event at `max`, a conflict has two ends
behind it, and as long as nothing is held against a task all it has seen is of
its incarnation and in order. `SendingSound` and `HandlingSound` are the two
moments when the gateway holds something in its hand: the request it is about to
send is durably attempted and may still be sent, although callbacks ran since;
the event it has not acknowledged is on record or in the batch.

In the refinement the line that creates a task is `Authorise`, the line of an
applied event is `Report`, lines that close a gate without changing a task are
`Close`, the call of the transport is `Send`, and everything else stutters; that
several callbacks may come between the attempt and the call is why `SendingSound`
is needed.

### The journal and the manifest store

`DurableFiles_proofs`: `JournalInvariant` (`Spec => [](TypeOK /\ JournalInv)`), the
four safety properties one by one (`NothingIsLostSilently`, `DecisionsSeeEverything`,
`AnchorLags`, `CrashesAreSurvived`), and `JournalIsSafe`, all that `records` checks
of the journal.

`AcceptedIsComplete` speaks of files somebody may have replaced, so it is not
inductive. `JournalInv` has three parts beside the property of the anchor.
`LockInv`: the holder of the lock is alone, its verified lines and its batch are
the file, and the anchor it wrote names the last line. `IssuedInv`: lines are
numbered, identities are used once, and no copy has a line of an append still in
progress. `AnchorInv`: any lines that agree with the anchor, or with the one a
loss of power may bring back, hold everything that ever returned up to it; this
is asked of the file and of every copy, because a copy may be put back later.
Types, lock and content are preserved in that order.

Of the store, in the same module: `StoreInvariant` (`StoreSpec => []StoreInv`), and the two
properties `records` checks of the store, `ConfirmedStays` (`StoreIsSound`) and
`HistoryStays` (`HistoryIsNeverRewritten`). The disk is at most one manifest behind
the directory, and between taking the name and the sync the name is the saver's own
(`StoreInv`).

### The event ledger

`PilotLedger_proofs`, for any recommendations, sites, queues, recorders and times,
and any bound on the lines:

- `LedgerInvariant`: `LedgerSpec => []LedgerInv`, the inductive invariant;
- `LedgerSoundness`: `LedgerIsSound`, with `OneStory`, `ExecutedWasAcknowledged` and
  `DeferralsInScope` in it;
- `WholeLinesOnly`: the action property `NothingBehindHalfALine`;
- `LifecycleHolds`: the ledger implements `CaseLifecycle` (`LifecycleKept`).

`OneStory` speaks of lines and an append decides on cases, so neither is inductive
without the other. `CasesFit` ties the file to the cases a reader replays from it:
every line is the field of its kind in the case of its recommendation, every field
is a line, and the case satisfies what the constructor of `RecommendationCase`
demands (`CaseSound`). That a field is filled once is then the same as that a
kind of line occurs once. `InOrder` says that the lines of a recommendation come in
the order of a life and of time, which the rules of a single append only say of
neighbours; an outcome without an execution skips steps, so the latest time of a
case is not that of the step before. What an actor holds in `seen` may be outdated
in every respect, and nothing is assumed of it but its site (`ViewsInScope`, which
`DeferralsInScope` needs): that the answer of a stale view is refused rests on the
ledger alone.

Replaying is a recursive function over the length of the file. That it exists, is
unique and that the replay of an appended line is the line applied to the replay
before (`ReplayOfAppend`) is shown with a least counterexample. Per kind of event
one lemma then shows that a sound case grows into a sound case (`ResponseGrows`,
...), `FitKept` that the file keeps fitting, `WriteExtends` that a write, whole or
torn, does one of the two; per action one lemma remains. In the refinement a
complete line is one move of the status of its recommendation (`CaseAdvances`) and
every other step, the torn line included, stutters.

### The interventions

`Interventions_proofs`, for any finite sets of tasks and robots, any assignment of
tasks to robots, any reasons of a conflict, moves of the Edge, budgets and limits:

- `InterventionInvariant`: `Spec => []IInv`, the inductive invariant;
- `CasesHold`: `CasesAreTrue`, with `OneCaseAtATime`, `ObligationsKept` and
  `EvidenceCovered` in it;
- `CallsHold`: `CallsAreAccounted`;
- `ResolvedHolds`: the action property `ResolvedIsFinal`.

The service decides a batch on one view and writes it line by line, and each line
may be the last one before a crash. So `IInv` speaks not of the view alone: `Leads`
says that the lines still to be written lead through views that are all `Sound`,
and `Onward` where they lead: after a repair to a view in which nothing is pending,
after a reconciliation to one that covers the evidence (`Reconciled`). A step of the
service that decides has to show this once for its whole batch (`RepairLeads`,
`ReconcileLeads`, `TickLeads`), and `WriteLine` takes one step on the way.

`Sound` is about the evidence as well as the cases. That the same identity never
opens a second case, and that evidence a human has dealt with does not count as new,
both rest on evidence that only ever advances: `EvidenceSound` orders the keys of a
case and of the later cases of its subject (`NotAfter`) and keeps them behind what
the Edge has come to (`Reached`). The one kind of key that can return is the robot
lost with its task, lost without it, and so on within one episode; `OccupiedSound`
says that while the task it was lost with is open there is no later case of it.
`CaseSound` is the shape of a case: its notes are numbered as they stand, the first
one says that it was opened, one is an escalation exactly if the severity rose, and
the one that is still pending is the next. A move of the Edge leaves all that as it
is (`SoundOnward`).

Per line one lemma says that it leads from a sound view to a sound one (`OpenStep`,
`EscalationStep`, `IntentionStep`, ...), and that cases only grow (`Grows`), from
which `ResolvedIsFinal` follows; per decision one says that its lines follow upon one
another (`HandleLeads`, `ClearLeads`, ...). A batch is the concatenation of
what is decided per item or case (`LeadsThrough`), in the order of a list of a finite
set (`ListedFacts`); both are folds, and what they compute is shown with a least
counterexample. `NotesInv` bounds calls by attempts, one apart while a request is on
its way, and delivered notifications by receipts.

### The agent runtime

`AgentRuntime_proofs`, for any number of frames, any set of configurations, and
any bounds on crashes, failing calls, half lines and forgotten acknowledgements.
For any number of instances over the same stores:

- `AgentInvariant`: `Spec => []AgentInv`, the inductive invariant;
- `EvidenceAgrees`: types, `EvaluatedAsPublished`, `IssuedIsJournaledOrPending`;
- `NothingBehindHalfALine`: the action property `HalfALineIsTheLast`.

For one instance (`OneConsumer`), restarted as often as need be and with another
configuration each time if it likes:

- `SettledInvariant`: `Spec => []SettledInv`, inductive together with `AgentInv`;
- `NothingLost`: `EvidenceIsKept`, with `NoFrameIsLost` in it;
- `FramesSettled`: the runtime implements `FrameSettlement` (`PromiseKept`);
- `NoFalseAlarms`: `NoFalseAlarm`.

`EvaluatedAsPublished` speaks of two files, but what is appended to either is
decided from a checkpoint, and from what an instance remembers of a checkpoint
that another instance, or its own failed call, may have replaced since. `AgentInv`
has one part for the stores and one for the memory. `StoresInv`: the number of an
envelope is its place in the file; each file is what its checkpoint completed and
perhaps the one pending item; publication is one envelope ahead of evaluation at
the most, and waits for it; the source's number is not ahead of what is settled,
which is why an acknowledgement that is forgotten does no harm. `MemoryInv`: what
an instance in the middle of an item holds was so when it looked, and the stores
either still say it or have gone on beyond it; in the first case its write fits,
in the second the compare-and-save or the look for the item in the file makes it
harmless. The stores only ever advance in one direction (`Advance`), so the memory
of all other instances stays sound in every step (`OthersHold`), and per action
one lemma shows the stores and the instance that acts.

`SettledInv` ties numbers to frames. The source reuses the number of a discarded
frame, so a number alone does not say which frame is meant: `Belongs(n, f)` says
that all frames before `f` are settled, that those published under earlier numbers
come before it, and that what is already published under `n` is `f`. It holds of
what the source offers, of the pending publication and of the batch in hand, and
it survives a forgotten acknowledgement. The other half is that the one consumer's
memory of a checkpoint is the checkpoint. Without `OneConsumer` this is false, and
so are `NoFrameIsLost` and the refinement once a frame may be refused: a second
instance can discard the frame that took over a number (section 4).

`NoFalseAlarms` needs that every comparison that ends in failing closed comes out
well: the stores satisfy all of `recover()` (`StoresAgree`), the envelope at hand
was judged or may be (`NewestMayBeJudged`), the record fits the journal or is
there (`RecordFits`). A change of the policy between preparing and completing an
evaluation does make it fail closed, by design, so the property is about one
configuration.

### The range

`RangeOps_proofs`, for any finite fleet, any zones and stations, any number of
balls, docks, chargers, helpers and faults, and any battery thresholds the
configuration accepts:

- `RangeInvariant`: `Spec => []Inv`, the inductive invariant;
- `RangeConsistency`: `RangeIsConsistent`, all that `site` checks of the range.

That a slot is held by a worker is not inductive: a robot joins a line as a waiting
one, is moved up by the departure of another, and is thrown out by an outage, a
fault or a directive, at any of its waits. `Inv` says for every robot what its
process waits for (`Sound`): which activity, zone and goal go with which wait, that
a lot fits into the basket, and that a latched robot waits for nothing. Between the
robots, `Fits` says that a line holds exactly the robots whose process is in it
(`LinesFit`), and that those past the wait for a slot are among the first
(`AmongFirst`); that a robot assigned to a zone finds it open (`ZonesFit`), which is
what makes closing a zone and reopening it safe; that the helpers' line is the set
of robots marked as waiting (`HelpFit`); and the shield's cap (`Capped`).
`LedgerFit` and `BasketsFit` are the ledger: the total is what it was, a buffer is
not over its capacity, and what a robot believes to carry is what the ledger has
under its name.

Per kind of change of a robot one lemma says what it is afterwards: it `Rests` (its
process has let go of everything) or `Works` on in the same place. Per way in which
these occur (one robot lets go, one goes on, one joins a line, several are thrown
out, one is given a zone) one lemma shows that everything still fits, and per way
in which balls move one shows that the ledger does (a move, a wash, the start of a
demand, which takes from many zones at once). Each action is then one of these
combinations.

Two facts are about data of any size: a sum over a set changes by what one of its
terms changes by, and taking robots out of a line keeps the order of the others.
The library's rules of induction cannot be instantiated here, so both are proved by
a least counterexample: of all subsets (`LeastSubset`), or all lengths
(`LeastNatural`), at which the claim fails there is a smallest one, and it follows
from the next smaller one.

### The handoff

`HandoffController_proofs`, for any set of bundles, whatever their geometry, noise,
forced failures, budgets and retries are:

- `HandoffInvariant`: `Spec => []Inv`, the inductive invariant;
- `HandoffSafety`: `HandoffIsSafe`, all the safety that `operations` checks of it.

What a cycle reports depends on where each earlier call left the robot, so none of
the parts of `HandoffIsSafe` is inductive. `Inv` says per phase what the next call
finds: while the robot is `Trying` to dock nothing is verified, the basket is down
and empty, and the recoveries stand one behind the attempts; while `Unloading` it
stands verified in the dock, the lift and the angle are within reach once they have
been used, and it is emptied and flat before it leaves; while `Retracting` the cause
fits the warnings. `RobotFit` is what holds of the robot everywhere (lift and angle
in range, a raised basket only after a verified dock, no dock at an incompatible
station), with `Clear`: a robot that can stop in time is still at least the trigger
distance away from the obstacle, or has stopped. `EndingInv` and `OutcomeInv` carry
what may be reported (`Reportable`) over the last look at the stop request.

Per call one lemma says what the mock adapter may answer and do to the robot
(`DockFacts`, ...), and one that the cycle goes on from every such answer to a state
that satisfies `Inv` (`DockReturns`, ...); the ways of going on (`GoOnKeeps`,
`EndKeeps`, `HaltKeeps`, `RetractKeeps`, `DockingFailedKeeps`) are shared.

### What is only model-checked

Of the agent runtime, that two instances over the same source lose no frame as
long as none is refused (`agent_parties`, the party *pair*); all properties of the
guardian, the feed and enablement.
Liveness (with the fairness and the ENABLED it rests on) is outside what the prover
can do and stays with TLC, and so does what the folds of the adapters, of the
projection compute: the rules of induction cannot be instantiated, and an argument
by a least counterexample, as for the sums and the lines of the range or the batches
of the interventions, has to be made anew for every one of them.

## 6. Not modelled, and why

- *Facility memory*: a recorder that samples into files and pure queries over
  them; in the plan.
- *Facility state and decisions*, *course world model*: pure derivations, the
  latter over floating-point coordinates.
- *Simulated telemetry bank*: noise generators in front of the assembler.
- *Spatial twin, viewers, benchmark agents, operational replay application*:
  rendering and evaluation of recorded runs.
- *ROI engine*: arithmetic of a business case in TypeScript, without state.
- *Robot, Edge and broker in one model*: the broker's guarantees are steps of the
  two models, but a session lost on both sides at once is in neither; each of the
  two is near the limit of what TLC finishes.

Inside the modelled components left out are: formats and digests (identities are
equal exactly when contents are), text and number validation of constructors,
file permissions, time zones, status views, rewards and metrics of the simulator,
the floating-point dynamics of the handoff (its verdicts are kept), and the
demonstration scripts. The policy of the agent runtime always answers: that an
adapter or a guardian which raises, or a recommendation without content, fails
closed (`runtime.py:721-745`) is not modelled, so `NoFalseAlarm` is about stores
that do not fit.

Some bounds leave a case to another check or to none. `edge_liveness` starts once;
that attempts stay bounded over restarts is the theorem `PublicationsBounded`. In
`site` no robot waits at a station (`MaxQueueLength = 0`); waiting is explored in
`operations`, for its liveness, and covered for any length by `RangeConsistency`. A
notification has one attempt in `interventions`; the theorem `CallsHold` is for any
budget. Not caught at all: an idle robot that is silent and never probed, a debit of
the handoff's obstacle that is forgotten (`hit` is computed from the debited
distance), and the answer to a request that is delivered again after it was answered.

## 7. Plan

1. `TaskExchange`: robot, Edge and the broker's sessions composed, for the
   agreement of the two journals.
2. Facility memory's recorder.
3. Proofs about the feed (`FeedIsHonest`) and about enablement (`ReadyIsJustified`).
