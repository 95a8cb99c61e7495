---------------------------- MODULE EdgeLifecycle ----------------------------
(***************************************************************************)
(* The Edge half of the task exchange: the lifecycle rules of              *)
(* simulation/nxt_edge_task/cases.py, the gateway process that hosts them  *)
(* (simulation/scripts/edge_task_gateway_v0.py) and the second process     *)
(* that creates tasks (simulation/scripts/edge_task_cli.py).               *)
(*                                                                         *)
(* `task' and `device' are the view the code derives from the journal and  *)
(* from nothing else.  A decision fills `batch' with journal lines, and    *)
(* one action per record kind writes and applies one line: a crash between *)
(* two lines leaves every torn batch.  A journal that a crash left         *)
(* unreadable is a process that is never started again.  Lines whose       *)
(* record changes nothing in the view are left out; what the journal file  *)
(* itself promises is the module JournalFile.                              *)
(*                                                                         *)
(* Robots, broker and clock are open: any event and any status of the      *)
(* given sets may arrive at any time and any number of times.  A time      *)
(* stamp of the code is an age here, capped at the threshold it is         *)
(* compared with.  A status whose sequence did not advance and an event of *)
(* a task the Edge never created are refused without effect, so neither is *)
(* an action here.                                                         *)
(***************************************************************************)
EXTENDS Naturals, Sequences, FiniteSets, SequencesExt

CONSTANTS
  Tasks, NoTask,
  Robots,
  RobotOf,          \* RobotOf[t]: target_robot_id
  Incarnation,      \* Incarnation[t]: target_incarnation
  Events, NoEvent,  \* the task events that may arrive
  Statuses,         \* the robot statuses that may arrive
  MaxAttempts,      \* max_republish_attempts
  MinInterval,      \* min_republish_interval_s
  Window,           \* progress_window_s
  HalfStale, Stale, Offline, Grace,  \* stale_after_s / 2, stale_after_s, offline_after_s, restart_grace_s
  MaxStarts,        \* bound: starts of the gateway; it does not crash after the last
  MaxLosses,        \* bound: reconnects that find the broker session gone
  MaxReplays        \* bound: contents recorded at a key that already has one

Kinds         == {"ACCEPTED", "PROGRESS", "ASSISTANCE_REQUIRED", "REJECTED", "SUCCEEDED", "FAILED", "INCONCLUSIVE"}
TerminalKinds == {"REJECTED", "SUCCEEDED", "FAILED", "INCONCLUSIVE"}
OpenStates    == {"CREATED", "ACCEPTED", "RUNNING", "BLOCKED_AWAITING_HUMAN"}
States        == {"NONE"} \cup OpenStates \cup TerminalKinds

PresenceReasons == {"new_boot_session", "expired_unconfirmed", "edge_restart", "transport_session_lost"}
ProgressReasons == {"heartbeat_mismatch", "progress_window_elapsed", "acceptance_window_elapsed"}
Clearable       == PresenceReasons \cup ProgressReasons
EvidenceConflictReasons == {"post_terminal_activity", "unexpected_acceptance", "unexpected_rejection", "conflicting_replay"}
StickyReasons   == EvidenceConflictReasons \cup {"conflicting_terminal", "session_regression"}

\* A plausible slip: an age grows without end.
NoCap(cap, n)  == n

AtMost(cap, n) == IF n < cap THEN n ELSE cap
AtLeast(n, m)  == IF n < m THEN m ELSE n
ProgressCap    == AtLeast(Window, Stale)
QuietCap       == AtLeast(Offline, Grace)

\* order_key; <<0, 0>> stands for "no event applied".
Key(e)      == <<e.boot, e.seq>>
Above(k, l) == k[1] > l[1] \/ (k[1] = l[1] /\ k[2] > l[2])

Event == [task : Tasks, boot : Nat \ {0}, seq : Nat, inc : Nat \ {0}, kind : Kinds, body : Nat]
Status == [robot : Robots, boot : Nat \ {0}, inc : Nat \ {0}, idle : BOOLEAN]

ASSUME EdgeAssumption ==
  /\ IsFiniteSet(Tasks) /\ IsFiniteSet(Robots)
  /\ NoTask \notin Tasks /\ NoEvent \notin Events
  /\ RobotOf \in [Tasks -> Robots] /\ Incarnation \in [Tasks -> Nat \ {0}]
  /\ Events \subseteq Event /\ Statuses \subseteq Status
  /\ {MaxAttempts, MinInterval, Window, HalfStale, Stale, Offline, Grace} \subseteq Nat \ {0}
  /\ Stale < Offline /\ Stale <= Grace
  /\ {MaxStarts, MaxLosses, MaxReplays} \subseteq Nat

-----------------------------------------------------------------------------

VARIABLES
  \* the view of the journal
  task, device,
  \* the gateway process
  pc,             \* down | idle | ticking | publishing | sending | waiting
  batch,          \* the journal lines decided and not yet written
  handling,       \* the event being handled, acknowledged after its lines
  plan, sending,  \* the candidates of this tick, the one being published
  connected, connectedOnce,
  \* the environment
  expired,        \* tasks whose expiry has passed
  starts, losses,
  \* history
  published,      \* transport calls made with the request of each task
  acked           \* events acknowledged to the broker

viewVars    == <<task, device>>
processVars == <<pc, batch, handling, plan, sending, connected, connectedOnce>>
worldVars   == <<expired, starts, losses>>
historyVars == <<published, acked>>
vars        == <<viewVars, processVars, worldVars, historyVars>>

Ages == [ attempt : 0 .. MinInterval, confirm : 0 .. Window, progress : 0 .. ProgressCap,
          probe : 0 .. Window, answer : [ProgressReasons -> 0 .. Window] ]

TaskView ==
  [ state      : States,
    max        : Nat \X Nat,          \* applied_max
    seen       : SUBSET Events,       \* seen_keys, one content for each key
    replays    : SUBSET Events,       \* conflict_digests
    conflict   : BOOLEAN,             \* effective_result is CONFLICT
    reasons    : SUBSET (Clearable \cup StickyReasons),
    bootFlagged : BOOLEAN,            \* new_boot_session in flagged_since_last_event
    probed     : SUBSET ProgressReasons,   \* flagged_since_last_progress
    unanswered : SUBSET Clearable,    \* flagged after the last evidence
    confirmed  : BOOLEAN,             \* publish_confirmations > 0
    expiredFlagged : BOOLEAN,         \* expired_unconfirmed
    attempts   : Nat,                 \* publish_attempts
    lateAttempts : Nat,               \* post_expiry_attempts
    age        : Ages ]

DeviceView ==
  [ connectivity : {"UNKNOWN", "ONLINE", "STALE", "OFFLINE"},
    quiet        : 0 .. QuietCap,     \* since the last status, or since UNKNOWN
    boot         : Nat,               \* 0: no status was ever received
    inc          : Nat,
    idle         : BOOLEAN,           \* the content of last_valid_status
    regression   : BOOLEAN ]

NewTask ==
  [ state |-> "CREATED", max |-> <<0, 0>>, seen |-> {}, replays |-> {}, conflict |-> FALSE,
    reasons |-> {}, bootFlagged |-> FALSE, probed |-> {}, unanswered |-> {},
    confirmed |-> FALSE, expiredFlagged |-> FALSE, attempts |-> 0, lateAttempts |-> 0,
    age |-> [ attempt |-> MinInterval, confirm |-> Window, progress |-> ProgressCap,
              probe |-> Window, answer |-> [r \in ProgressReasons |-> Window] ] ]

NoTaskYet == [NewTask EXCEPT !.state = "NONE"]

NewDevice ==
  [ connectivity |-> "UNKNOWN", quiet |-> 0, boot |-> 0, inc |-> 0, idle |-> FALSE, regression |-> FALSE ]

-----------------------------------------------------------------------------
(* Queries on the view.                                                    *)

Known(t)      == task[t].state # "NONE"
Open(t)       == task[t].state \in OpenStates
IsTerminal(t) == task[t].state \in TerminalKinds
Dev(t)        == device[RobotOf[t]]
TasksOf(r)    == {t \in Tasks : RobotOf[t] = r /\ Known(t)}
OpenTasksOf(r) == {t \in TasksOf(r) : Open(t)}
Recorded(t)   == task[t].seen \cup task[t].replays
SeenKeys(t)   == {Key(e) : e \in task[t].seen}
Reachable(r)  == device[r].connectivity \in {"ONLINE", "STALE"}

\* A plausible slip: the tasks that are over no longer count.
GateForgets(r) ==
  \/ device[r].regression
  \/ \E t \in OpenTasksOf(r) : task[t].conflict \/ task[t].reasons \cap EvidenceConflictReasons # {}

\* authorization_block_reason: no new task for the robot and no publication.
GateClosed(r) ==
  \/ device[r].regression
  \/ \E t \in TasksOf(r) : task[t].conflict \/ task[t].reasons \cap EvidenceConflictReasons # {}

\* One probe per window; a probe is repeated one window after it was answered.
ReprobeDue(t, r) ==
  /\ task[t].age.probe >= Window
  /\ \/ r \notin task[t].probed
     \/ r \notin task[t].unanswered /\ task[t].age.answer[r] >= Window

\* A plausible slip: the attempts after expiry are not counted apart.
AttemptLeftExpired(t) == task[t].attempts < MaxAttempts /\ task[t].age.attempt >= MinInterval

\* The bounds of an authorization: its attempts, at most one after expiry, and their pace.
AttemptLeft(t) ==
  /\ task[t].attempts < MaxAttempts
  /\ t \in expired => task[t].lateAttempts = 0
  /\ task[t].age.attempt >= MinInterval

\* republish_candidates: the request of t may be (re)published now.
Candidate(t) ==
  /\ Open(t) /\ task[t].state # "BLOCKED_AWAITING_HUMAN" /\ ~task[t].conflict
  /\ ~GateClosed(RobotOf[t]) /\ Reachable(RobotOf[t])
  /\ Dev(t).boot # 0 /\ Dev(t).inc = Incarnation[t]
  /\ AttemptLeft(t)
  /\ ~task[t].confirmed \/ task[t].reasons \cap task[t].unanswered # {}

-----------------------------------------------------------------------------
(* Journal lines, by record kind.                                          *)

LineStarted        == [kind |-> "edge_started"]
LineSessionLost    == [kind |-> "transport_session"]
LineCreated(t)     == [kind |-> "task_created", task |-> t]
LineAttempted(t)   == [kind |-> "task_publish_attempted", task |-> t, late |-> t \in expired]
LineConfirmed(t)   == [kind |-> "task_publish_confirmed", task |-> t]
LineStatus(s)      == [kind |-> "device_status", status |-> s]
LineHeartbeat(r)   == [kind |-> "device_heartbeat", robot |-> r]
LineLiveness(r, c) == [kind |-> "device_liveness_changed", robot |-> r, to |-> c]
LineRegression(r)  == [kind |-> "session_regression", robot |-> r]
LineAnswered(t)    == [kind |-> "robot_request_rejected", task |-> t]
LineFlag(t, r)     == [kind |-> "task_reconciliation_flagged", task |-> t, reason |-> r]
LineConflict(t)    == [kind |-> "conflicting_terminal", task |-> t]

\* A task_event_received line: its disposition, the state after it, and the reasons it adds.
LineReceived(e, d, after, reasons) ==
  [kind |-> "task_event_received", event |-> e, disposition |-> d, after |-> after, reasons |-> reasons]

-----------------------------------------------------------------------------
(* Writing one line and applying it to the view.                           *)

Line == Head(batch)

\* Every open task of R is asked for again, for the given reason.
AskAgain(reason) ==
  task' = [t \in Tasks |->
             IF Open(t) THEN [task[t] EXCEPT !.reasons = @ \cup {reason}, !.unanswered = @ \cup {reason}]
             ELSE task[t]]

AllUnknown ==
  device' = [r \in Robots |-> [device[r] EXCEPT !.connectivity = "UNKNOWN", !.quiet = 0]]

WriteStarted     == Line.kind = "edge_started" /\ AllUnknown /\ AskAgain("edge_restart")

WriteSessionLost == Line.kind = "transport_session" /\ AllUnknown /\ AskAgain("transport_session_lost")

WriteCreated ==
  /\ Line.kind = "task_created"
  /\ task' = [task EXCEPT ![Line.task] = NewTask]
  /\ UNCHANGED device

WriteAttempted ==
  /\ Line.kind = "task_publish_attempted"
  /\ task' = [task EXCEPT ![Line.task].attempts = @ + 1, ![Line.task].age.attempt = 0,
                          ![Line.task].lateAttempts = IF Line.late THEN @ + 1 ELSE @]
  /\ UNCHANGED device

WriteConfirmed ==
  /\ Line.kind = "task_publish_confirmed"
  /\ task' = [task EXCEPT ![Line.task].confirmed = TRUE, ![Line.task].age.confirm = 0]
  /\ UNCHANGED device

\* device_status_changed, and the device_liveness_changed line that carries a status.
WriteStatus ==
  LET s == Line.status
  IN  /\ Line.kind = "device_status"
      /\ device' = [device EXCEPT ![s.robot] =
                      [@ EXCEPT !.connectivity = "ONLINE", !.quiet = 0,
                                !.boot = s.boot, !.inc = s.inc, !.idle = s.idle]]
      /\ UNCHANGED task

WriteHeartbeat ==
  /\ Line.kind = "device_heartbeat"
  /\ device' = [device EXCEPT ![Line.robot].quiet = 0]
  /\ UNCHANGED task

WriteLiveness ==
  /\ Line.kind = "device_liveness_changed"
  /\ device' = [device EXCEPT ![Line.robot].connectivity = Line.to]
  /\ UNCHANGED task

WriteRegression ==
  LET r == Line.robot
  IN  /\ Line.kind = "session_regression"
      /\ device' = [device EXCEPT ![r].regression = TRUE]
      /\ task' = [t \in Tasks |-> IF t \in OpenTasksOf(r)
                                  THEN [task[t] EXCEPT !.reasons = @ \cup {"session_regression"}]
                                  ELSE task[t]]

\* A plausible slip: every duplicate counts as a new answer.
AnsweredAgain(k) ==
  [k EXCEPT !.unanswered = {}, !.age.answer = [r \in ProgressReasons |-> 0]]

\* note_evidence: the first evidence after a flag is the answer to it.
Answered(k) ==
  [k EXCEPT !.unanswered = {},
            !.age.answer = [r \in ProgressReasons |-> IF r \in k.unanswered THEN 0 ELSE @[r]]]

WriteAnswered ==
  /\ Line.kind = "robot_request_rejected"
  /\ task' = [task EXCEPT ![Line.task] = Answered(@)]
  /\ UNCHANGED device

\* conflict: true of a task_event_received line.
Contradicts(l) == "conflicting_terminal" \in l.reasons

\* The task after a task_event_received line.  "evidence" stands for every disposition that
\* keeps the event without applying it; only an applied event is progress.
AfterEvidence(k, l) ==
  LET known == [Answered(k) EXCEPT !.bootFlagged = FALSE,
                                   !.reasons = (@ \ PresenceReasons) \cup l.reasons,
                                   !.conflict = @ \/ Contradicts(l)]
  IN  CASE l.disposition = "duplicate" -> known
        [] l.disposition = "conflicting_replay" -> [known EXCEPT !.replays = @ \cup {l.event}]
        [] l.disposition = "evidence" -> [known EXCEPT !.seen = @ \cup {l.event}]
        [] l.disposition = "applied" ->
             [known EXCEPT !.seen = @ \cup {l.event}, !.reasons = @ \ ProgressReasons,
                           !.probed = {}, !.age.progress = 0, !.age.probe = Window,
                           !.max = Key(l.event), !.state = l.after,
                           !.conflict = IF l.event.kind \in TerminalKinds THEN Contradicts(l) ELSE @]

WriteReceived ==
  /\ Line.kind = "task_event_received"
  /\ task' = [task EXCEPT ![Line.event.task] = AfterEvidence(@, Line)]
  /\ UNCHANGED device

\* The task after a flag: asked for again, with the probe counted.
WithFlag(k, r) ==
  [k EXCEPT !.reasons = @ \cup {r},
            !.bootFlagged = @ \/ r = "new_boot_session",
            !.probed = @ \cup ({r} \cap ProgressReasons),
            !.unanswered = @ \cup ({r} \cap Clearable),
            !.age.probe = IF r \in ProgressReasons THEN 0 ELSE @,
            !.expiredFlagged = @ \/ r = "expired_unconfirmed"]

WriteFlag ==
  /\ Line.kind = "task_reconciliation_flagged"
  /\ task' = [task EXCEPT ![Line.task] = WithFlag(@, Line.reason)]
  /\ UNCHANGED device

WriteConflict ==
  /\ Line.kind = "conflicting_terminal"
  /\ task' = [task EXCEPT ![Line.task].conflict = TRUE]
  /\ UNCHANGED device

WriteLine ==
  /\ batch # <<>>
  /\ batch' = Tail(batch)
  /\ \/ WriteStarted \/ WriteSessionLost \/ WriteCreated \/ WriteAttempted \/ WriteConfirmed
     \/ WriteStatus \/ WriteHeartbeat \/ WriteLiveness \/ WriteRegression
     \/ WriteAnswered \/ WriteReceived \/ WriteFlag \/ WriteConflict
  /\ UNCHANGED <<pc, handling, plan, sending, connected, connectedOnce, worldVars, historyVars>>

-----------------------------------------------------------------------------
(* Deciding: one thing at a time, when the previous batch is written.      *)

Orders(S)     == SetToSeqs(S)      \* the lines of one decision, in any order
Listening     == pc \in {"idle", "waiting"} /\ batch = <<>> /\ handling = NoEvent /\ connected

\* A delivery is handled: its lines are decided now, the rest of the process waits.
Handle(lines) ==
  /\ batch' = lines
  /\ UNCHANGED <<viewVars, pc, plan, sending, connected, connectedOnce, worldVars, historyVars>>

-----------------------------------------------------------------------------
(* decide_task_create, run by the other process under the journal lock.    *)
(* The request names the incarnation last seen.                            *)

\* A plausible slip: the other tasks of the robot are not looked at.
CreatableBesides(t) ==
  /\ ~Known(t) /\ t \notin expired /\ Dev(t).boot # 0 /\ Dev(t).inc = Incarnation[t]
  /\ ~GateClosed(RobotOf[t])

Creatable(t) ==
  /\ ~Known(t) /\ t \notin expired
  /\ Dev(t).boot # 0 /\ Dev(t).inc = Incarnation[t]
  /\ ~GateClosed(RobotOf[t])
  /\ OpenTasksOf(RobotOf[t]) = {}

\* The lock is free between two batches.  The gateway reads what this process appends with its
\* own next append, so a task appended just before the candidates are taken is not yet one.
CreateTask(t) ==
  /\ batch = <<>> /\ pc # "ticking" /\ Creatable(t)
  /\ batch' = <<LineCreated(t)>>
  /\ UNCHANGED <<viewVars, pc, handling, plan, sending, connected, connectedOnce, worldVars, historyVars>>

-----------------------------------------------------------------------------
(* decide_status.                                                          *)

Regressed(s) ==
  LET d == device[s.robot]
  IN  d.boot # 0 /\ (s.boot < d.boot \/ s.inc # d.inc)

ReceiveRegressedStatus(s) ==
  /\ Listening /\ Regressed(s) /\ ~device[s.robot].regression
  /\ Handle(<<LineRegression(s.robot)>>)
  /\ UNCHANGED handling

StatusFlags(s) ==
  LET d == device[s.robot]
      newSession == d.boot = 0 \/ s.boot > d.boot
      boots == {t \in OpenTasksOf(s.robot) : newSession /\ ~task[t].bootFlagged}
      mismatched == {t \in OpenTasksOf(s.robot) \ boots :
                       /\ task[t].state \in {"ACCEPTED", "RUNNING"} /\ s.idle
                       /\ ReprobeDue(t, "heartbeat_mismatch") /\ task[t].age.progress >= Stale}
  IN  {LineFlag(t, "new_boot_session") : t \in boots} \cup {LineFlag(t, "heartbeat_mismatch") : t \in mismatched}

\* An unchanged status is recorded once per half of the stale window.
Receipt(s) ==
  LET d == device[s.robot]
      unchanged == d.connectivity = "ONLINE" /\ d.boot = s.boot /\ d.idle = s.idle
  IN  CASE ~unchanged                          -> <<LineStatus(s)>>
        [] unchanged /\ d.quiet >= HalfStale   -> <<LineHeartbeat(s.robot)>>
        [] unchanged /\ d.quiet < HalfStale    -> <<>>

ReceiveStatus(s) ==
  /\ Listening /\ ~Regressed(s)
  /\ \E flags \in Orders(StatusFlags(s)) : Handle(Receipt(s) \o flags)
  /\ UNCHANGED handling

-----------------------------------------------------------------------------
(* decide_event: one action for each way an event is classified.           *)

Foreign(e) ==
  LET d == Dev(e.task)
  IN  d.boot # 0 /\ e.inc # d.inc

RegressionOf(e) == IF Foreign(e) /\ ~Dev(e.task).regression THEN <<LineRegression(RobotOf[e.task])>> ELSE <<>>

\* The event is a terminal, and a different one is already on record.
Differs(e) ==
  /\ e.kind \in TerminalKinds
  /\ \E x \in Recorded(e.task) : x.kind \in TerminalKinds \ {e.kind}

\* The evidence line; when it contradicts the record, the line itself says so and two companions repeat it.
Evidence(e, disposition, after, reasons, contradicts) ==
  IF contradicts
  THEN << LineReceived(e, disposition, after, reasons \cup {"conflicting_terminal"}) >>
       \o (IF task[e.task].conflict THEN <<>> ELSE << LineConflict(e.task) >>)
       \o << LineFlag(e.task, "conflicting_terminal") >>
  ELSE << LineReceived(e, disposition, after, reasons) >>

Keep(e, reasons, contradicts) == Evidence(e, "evidence", task[e.task].state, reasons, contradicts)

Flagged(e, reason) == Keep(e, {reason}, FALSE) \o << LineFlag(e.task, reason) >>

Take(e, lines) == Listening /\ handling' = e /\ Handle(lines)

\* A request-level rejection answers the request and says nothing of the task.
ReceiveRequestRejection(e) ==
  /\ Known(e.task) /\ e.seq = 0
  /\ Take(e, RegressionOf(e) \o << LineAnswered(e.task) >>)

ReceiveDuplicate(e) ==
  /\ Known(e.task) /\ e.seq # 0 /\ e \in Recorded(e.task)
  /\ Take(e, Evidence(e, "duplicate", task[e.task].state, {}, FALSE))

\* Other content at a key already seen.
ReceiveConflictingReplay(e) ==
  LET t == e.task
  IN  /\ Known(t) /\ e.seq # 0 /\ Key(e) \in SeenKeys(t) /\ e \notin Recorded(t)
      /\ Cardinality(task[t].replays) < MaxReplays
      /\ Take(e, Evidence(e, "conflicting_replay", task[t].state, {"conflicting_replay"}, Differs(e))
                 \o << LineFlag(t, "conflicting_replay") >>)

Fresh(e) == Known(e.task) /\ e.seq # 0 /\ Key(e) \notin SeenKeys(e.task)

\* Events of a robot whose continuity is gone never move the task.
ReceiveFromRegressed(e) ==
  /\ Fresh(e) /\ (Foreign(e) \/ Dev(e.task).regression)
  /\ Take(e, RegressionOf(e) \o Keep(e, {"session_regression"}, Differs(e)))

Trusted(e) == Fresh(e) /\ ~Foreign(e) /\ ~Dev(e.task).regression

\* A task that is over: a differing terminal contradicts it, later activity is unexplained.
ReceiveAfterTerminal(e) ==
  LET t == e.task
      terminal == e.kind \in TerminalKinds
  IN  /\ Trusted(e) /\ IsTerminal(t)
      /\ Take(e, IF terminal \/ ~Above(Key(e), task[t].max)
                 THEN Keep(e, {}, terminal /\ e.kind # task[t].state)
                 ELSE Flagged(e, "post_terminal_activity"))

\* A plausible slip: a late event of an open task is applied.
LateIsApplied(e) ==
  /\ Trusted(e) /\ Open(e.task) /\ ~Above(Key(e), task[e.task].max)
  /\ Take(e, Evidence(e, "applied", IF e.kind \in TerminalKinds THEN e.kind ELSE "RUNNING", {}, Differs(e)))

\* Late evidence fills a gap and never moves the task.
ReceiveLate(e) ==
  /\ Trusted(e) /\ Open(e.task) /\ ~Above(Key(e), task[e.task].max)
  /\ Take(e, Keep(e, {}, Differs(e)))

\* The state an event above the applied maximum leads to; "NONE" when it is not expected there.
After(e) ==
  CASE e.kind \in {"ACCEPTED", "REJECTED"} -> IF task[e.task].state = "CREATED" THEN e.kind ELSE "NONE"
    [] e.kind = "PROGRESS"                 -> "RUNNING"
    [] e.kind = "ASSISTANCE_REQUIRED"      -> "BLOCKED_AWAITING_HUMAN"
    [] e.kind \in TerminalKinds \ {"REJECTED"} -> e.kind

Ahead(e) == Trusted(e) /\ Open(e.task) /\ Above(Key(e), task[e.task].max)

\* A second acceptance, or a rejection after the task was accepted.
ReceiveUnexpected(e) ==
  /\ Ahead(e) /\ After(e) = "NONE"
  /\ Take(e, Flagged(e, IF e.kind = "ACCEPTED" THEN "unexpected_acceptance" ELSE "unexpected_rejection"))

ReceiveExpected(e) ==
  /\ Ahead(e) /\ After(e) # "NONE"
  /\ Take(e, Evidence(e, "applied", After(e), {}, Differs(e)))

ReceiveEvent(e) ==
  \/ ReceiveRequestRejection(e) \/ ReceiveDuplicate(e)
  \/ ReceiveConflictingReplay(e) \/ ReceiveFromRegressed(e) \/ ReceiveAfterTerminal(e)
  \/ ReceiveLate(e) \/ ReceiveUnexpected(e) \/ ReceiveExpected(e)

\* A plausible slip: the delivery is acknowledged before its lines are durable.
AckEarly ==
  /\ handling # NoEvent
  /\ acked' = acked \cup {handling}
  /\ handling' = NoEvent
  /\ UNCHANGED <<viewVars, pc, batch, plan, sending, connected, connectedOnce, worldVars, published>>

\* The delivery is acknowledged when its lines are durable.
AckEvent ==
  /\ handling # NoEvent /\ batch = <<>>
  /\ acked' = acked \cup {handling}
  /\ handling' = NoEvent
  /\ UNCHANGED <<viewVars, pc, batch, plan, sending, connected, connectedOnce, worldVars, published>>

-----------------------------------------------------------------------------
(* decide_tick, and the publications of the tick.                          *)

LivenessLines ==
  { LineLiveness(r, "OFFLINE") : r \in {x \in Robots : device[x].connectivity = "UNKNOWN" /\ device[x].quiet >= Grace} }
  \cup
  { LineLiveness(r, "STALE") : r \in {x \in Robots : device[x].connectivity = "ONLINE" /\ device[x].quiet >= Stale} }
  \cup
  { LineLiveness(r, "OFFLINE") : r \in {x \in Robots : device[x].connectivity = "STALE" /\ device[x].quiet >= Offline} }

ExpiredUnconfirmed(t) == task[t].state = "CREATED" /\ t \in expired /\ ~task[t].expiredFlagged

ProgressWindowElapsed(t) ==
  /\ task[t].state \in {"ACCEPTED", "RUNNING"} /\ Reachable(RobotOf[t])
  /\ ReprobeDue(t, "progress_window_elapsed") /\ task[t].age.progress >= Window

AcceptanceWindowElapsed(t) ==
  /\ task[t].state = "CREATED" /\ task[t].confirmed /\ t \notin expired /\ Reachable(RobotOf[t])
  /\ ReprobeDue(t, "acceptance_window_elapsed") /\ task[t].age.confirm >= Window

TickLines ==
  LivenessLines
  \cup {LineFlag(t, "expired_unconfirmed") : t \in {x \in Tasks : ExpiredUnconfirmed(x)}}
  \cup {LineFlag(t, "progress_window_elapsed") : t \in {x \in Tasks : ProgressWindowElapsed(x)}}
  \cup {LineFlag(t, "acceptance_window_elapsed") : t \in {x \in Tasks : AcceptanceWindowElapsed(x)}}

AtRest == pc = "idle" /\ batch = <<>> /\ handling = NoEvent

Tick ==
  /\ AtRest
  /\ batch' \in Orders(TickLines)
  /\ pc' = "ticking"
  /\ UNCHANGED <<viewVars, handling, plan, sending, connected, connectedOnce, worldVars, historyVars>>

\* The candidates are taken from the view the tick left.
PlanPublications ==
  /\ pc = "ticking" /\ batch = <<>>
  /\ plan' = {t \in Tasks : Candidate(t)}
  /\ pc' = "publishing"
  /\ UNCHANGED <<viewVars, batch, handling, sending, connected, connectedOnce, worldVars, historyVars>>

\* A plausible slip: the candidate is published as it was planned.
StillPlanned(t) == TRUE

\* A hop-1 wait may have changed the view: the candidate is derived again.
StillCandidate(t) == Candidate(t)

Attempt(t) ==
  /\ pc = "publishing" /\ batch = <<>> /\ t \in plan
  /\ plan' = plan \ {t}
  /\ IF StillCandidate(t)
     THEN batch' = <<LineAttempted(t)>> /\ sending' = t /\ pc' = "sending"
     ELSE UNCHANGED <<batch, sending, pc>>
  /\ UNCHANGED <<viewVars, handling, connected, connectedOnce, worldVars, historyVars>>

\* The transport call: refused while the connection is down.
Send ==
  /\ pc = "sending" /\ batch = <<>>
  /\ IF connected
     THEN published' = [published EXCEPT ![sending] = @ + 1] /\ pc' = "waiting" /\ UNCHANGED sending
     ELSE pc' = "publishing" /\ sending' = NoTask /\ UNCHANGED published
  /\ UNCHANGED <<viewVars, batch, handling, plan, connected, connectedOnce, worldVars, acked>>

\* The hop-1 wait ends with the broker's confirmation or without it.
EndWait ==
  /\ pc = "waiting" /\ batch = <<>> /\ handling = NoEvent
  /\ batch' \in {<<>>, <<LineConfirmed(sending)>>}
  /\ sending' = NoTask /\ pc' = "publishing"
  /\ UNCHANGED <<viewVars, handling, plan, connected, connectedOnce, worldVars, historyVars>>

EndTick ==
  /\ pc = "publishing" /\ batch = <<>> /\ plan = {}
  /\ pc' = "idle"
  /\ UNCHANGED <<viewVars, batch, handling, plan, sending, connected, connectedOnce, worldVars, historyVars>>

-----------------------------------------------------------------------------
(* The process and its connection.                                         *)

Start ==
  /\ pc = "down" /\ batch = <<>> /\ starts < MaxStarts
  /\ starts' = starts + 1
  /\ batch' = <<LineStarted>> /\ pc' = "idle"
  /\ UNCHANGED <<viewVars, handling, plan, sending, connected, connectedOnce, expired, losses, historyVars>>

\* on_connect; the first connection of a process cannot lose a session.
Connect(sessionPresent) ==
  /\ AtRest /\ ~connected
  /\ connected' = TRUE /\ connectedOnce' = TRUE
  /\ IF connectedOnce /\ ~sessionPresent
     THEN losses < MaxLosses /\ losses' = losses + 1 /\ batch' = <<LineSessionLost>>
     ELSE UNCHANGED <<losses, batch>>
  /\ UNCHANGED <<viewVars, pc, handling, plan, sending, expired, starts, historyVars>>

Disconnect ==
  /\ Listening
  /\ connected' = FALSE
  /\ UNCHANGED <<viewVars, pc, batch, handling, plan, sending, connectedOnce, worldVars, historyVars>>

\* A crash, a fail-stop or a signal, anywhere: what is not written is lost.
Crash ==
  /\ pc # "down" /\ starts < MaxStarts
  /\ pc' = "down" /\ batch' = <<>> /\ handling' = NoEvent /\ plan' = {} /\ sending' = NoTask
  /\ connected' = FALSE /\ connectedOnce' = FALSE
  /\ UNCHANGED <<viewVars, worldVars, historyVars>>

Expire(t) ==
  /\ t \notin expired
  /\ expired' = expired \cup {t}
  /\ UNCHANGED <<viewVars, processVars, starts, losses, historyVars>>

Older(k) ==
  [k EXCEPT !.age = [ attempt  |-> AtMost(MinInterval, @.attempt + 1),
                      confirm  |-> AtMost(Window, @.confirm + 1),
                      progress |-> AtMost(ProgressCap, @.progress + 1),
                      probe    |-> AtMost(Window, @.probe + 1),
                      answer   |-> [r \in ProgressReasons |-> AtMost(Window, @.answer[r] + 1)] ]]

\* Time passes, between two batches.  The ages of a task that is over are not read again.
Elapse ==
  /\ batch = <<>>
  /\ task' = [t \in Tasks |-> IF Open(t) THEN Older(task[t]) ELSE task[t]]
  /\ device' = [r \in Robots |-> [device[r] EXCEPT !.quiet = AtMost(QuietCap, @ + 1)]]
  /\ UNCHANGED <<processVars, worldVars, historyVars>>

-----------------------------------------------------------------------------

Init ==
  /\ task = [t \in Tasks |-> NoTaskYet] /\ device = [r \in Robots |-> NewDevice]
  /\ pc = "down" /\ batch = <<>> /\ handling = NoEvent /\ plan = {} /\ sending = NoTask
  /\ connected = FALSE /\ connectedOnce = FALSE
  /\ expired = {} /\ starts = 0 /\ losses = 0
  /\ published = [t \in Tasks |-> 0] /\ acked = {}

Publish == Tick \/ PlanPublications \/ (\E t \in Tasks : Attempt(t)) \/ Send \/ EndWait \/ EndTick

Session == Start \/ (\E sessionPresent \in BOOLEAN : Connect(sessionPresent)) \/ Disconnect \/ Crash

Receive ==
  \/ \E s \in Statuses : ReceiveRegressedStatus(s) \/ ReceiveStatus(s)
  \/ \E e \in Events : ReceiveEvent(e)

Environment == (\E t \in Tasks : CreateTask(t) \/ Expire(t)) \/ Elapse

Next == WriteLine \/ AckEvent \/ Receive \/ Publish \/ Session \/ Environment

Spec == Init /\ [][Next]_vars

-----------------------------------------------------------------------------
(* Safety.                                                                 *)

\* The variables keep their types.
TypeOK ==
  /\ task \in [Tasks -> TaskView] /\ device \in [Robots -> DeviceView]
  /\ pc \in {"down", "idle", "ticking", "publishing", "sending", "waiting"}
  /\ handling \in Events \cup {NoEvent} /\ plan \subseteq Tasks /\ sending \in Tasks \cup {NoTask}
  /\ connected \in BOOLEAN /\ connectedOnce \in BOOLEAN
  /\ expired \subseteq Tasks /\ starts \in Nat /\ losses \in Nat
  /\ published \in [Tasks -> Nat] /\ acked \subseteq Events

\* Evidence that contradicts itself: two ends of one task, two contents of one event, an event of
\* another incarnation, activity above the end that was applied.
Contradictory(t) ==
  \E x \in Recorded(t) :
    \/ x.inc # Incarnation[t]
    \/ IsTerminal(t) /\ x.kind \notin TerminalKinds /\ Above(Key(x), task[t].max)
    \/ \E y \in Recorded(t) \ {x} :
         Key(x) = Key(y) \/ ({x.kind, y.kind} \subseteq TerminalKinds /\ x.kind # y.kind)

\* Contradictory evidence closes the robot's gate the moment it is on record, whatever the order
\* of arrival and wherever a crash tore the batch that recorded it.
EvidenceClosesGate == \A t \in Tasks : Contradictory(t) => GateClosed(RobotOf[t])

Unquestioned(t) == Known(t) /\ ~task[t].conflict /\ task[t].reasons \cap StickyReasons = {}

Highest(e, S) == e \in S /\ \A x \in S : ~Above(Key(x), Key(e))

StateShowing(e) ==
  CASE e.kind = "PROGRESS"            -> "RUNNING"
    [] e.kind = "ASSISTANCE_REQUIRED" -> "BLOCKED_AWAITING_HUMAN"
    [] e.kind \in {"ACCEPTED"} \cup TerminalKinds -> e.kind

\* As long as nothing about a task is questioned, its state is what its highest event says and
\* does not depend on the order in which the events arrived; all come from the authorised
\* incarnation.
StateIsTheHighestEvidence ==
  \A t \in Tasks : Unquestioned(t) =>
    /\ task[t].seen = {} => task[t].state = "CREATED"
    /\ \A e \in task[t].seen : /\ e.inc = Incarnation[t]
                               /\ Highest(e, task[t].seen) => task[t].state = StateShowing(e)

\* A task that is over stays as it ended, and no task of a robot whose continuity is gone moves.
FrozenAgainstEvidence ==
  \A t \in Tasks : IsTerminal(t) \/ Dev(t).regression => task'[t].state = task[t].state

\* A closed gate is never opened again: not by evidence, not by a reconnect, not by a restart.
GateStaysClosed == \A r \in Robots : GateClosed(r) => GateClosed(r)'

\* The session the Edge believes in only moves forward, inside one incarnation.
SessionOnlyAdvances ==
  \A r \in Robots : device[r].boot # 0 =>
    device'[r].inc = device[r].inc /\ device'[r].boot >= device[r].boot

\* Nothing the Edge concluded is taken back by what it receives, loses or forgets later.
NothingIsTakenBack == [][FrozenAgainstEvidence /\ GateStaysClosed /\ SessionOnlyAdvances]_vars

\* A robot has at most one task that is not over, although another process creates them.
OneOpenTaskPerRobot == \A r \in Robots : Cardinality(OpenTasksOf(r)) <= 1

\* Every call of the transport is a durable attempt first; the attempts of a task are bounded,
\* and at most one of them is made after the task expired -- over any number of restarts.
PublicationsAreBounded ==
  \A t \in Tasks :
    /\ published[t] <= task[t].attempts /\ task[t].attempts <= MaxAttempts
    /\ task[t].lateAttempts <= 1
    /\ task[t].confirmed => published[t] > 0

\* What the broker was told is done is on record.
AckedEvidenceIsDurable == \A e \in acked : e.seq = 0 \/ e \in Recorded(e.task)

\* No evidence is lost once the robot may forget it, and what is on record decides what the Edge
\* believes, whatever the order it came in.
EvidenceDecides == EvidenceClosesGate /\ StateIsTheHighestEvidence /\ AckedEvidenceIsDurable

-----------------------------------------------------------------------------
(* What the documentation says of the Edge and the code does not do; no    *)
(* configuration checks these.                                             *)

\* cases.py: "Only a terminal conflict (effective_result CONFLICT) and a session regression close
\* the authorization gate; the others stay visible".
OnlyConflictsCloseGate ==
  \A r \in Robots : GateClosed(r) => device[r].regression \/ \E t \in TasksOf(r) : task[t].conflict

\* docs/edge_task_v0.md: "The conflict is detected in every arrival order", also when the first
\* terminal came as late or unexpected evidence.
ConflictDetectedInEveryOrder ==
  \A t \in Tasks :
    (\E x, y \in Recorded(t) : {x.kind, y.kind} \subseteq TerminalKinds /\ x.kind # y.kind) => task[t].conflict

\* docs/edge_task_v0.md: a task event of another incarnation is a session regression, "including
\* events that arrive before the incarnation's first heartbeat".
ForeignEvidenceIsRegression ==
  \A t \in Tasks : (\E x \in Recorded(t) : x.inc # Dev(t).inc) => Dev(t).regression

-----------------------------------------------------------------------------
(* Liveness.  The main loop keeps running and time passes; a stopped       *)
(* gateway is started again while the bound allows it.                     *)

Fairness ==
  /\ WF_vars(WriteLine) /\ WF_vars(AckEvent) /\ SF_vars(Tick)
  /\ WF_vars(PlanPublications) /\ WF_vars(\E t \in Tasks : Attempt(t))
  /\ WF_vars(Send) /\ SF_vars(EndWait) /\ WF_vars(EndTick)
  /\ WF_vars(Start) /\ SF_vars(Elapse)

FairSpec == Spec /\ Fairness

\* A robot that went silent is not called online forever.
SilenceIsNoticed ==
  \A r \in Robots : device[r].quiet >= Stale ~> (device[r].quiet < Stale \/ ~(device[r].connectivity = "ONLINE"))

Unresolved(t) ==
  /\ task[t].state \in {"ACCEPTED", "RUNNING"} /\ task[t].age.progress >= Window
  /\ ~GateClosed(RobotOf[t]) /\ Reachable(RobotOf[t]) /\ Dev(t).inc = Incarnation[t]
  /\ t \notin expired

\* A task that makes no progress is asked for again until its attempts are used up: a stream of
\* duplicates cannot postpone that (docs/edge_task_v0.md: it "consumes the attempt cap rather
\* than starving the probing").  It holds while the robot reports that it is busy; a robot that
\* reports to be idle can starve it.
UnresolvedIsProbed ==
  \A t \in Tasks : <>[]Unresolved(t) => <>(task[t].attempts = MaxAttempts)

\* The Edge never settles down to wait for a robot that does not answer.
TroubleIsNoticed == SilenceIsNoticed /\ UnresolvedIsProbed

-----------------------------------------------------------------------------
(* The Edge implements Authorization.                                      *)

Phase(t) ==
  CASE task[t].state = "NONE"                   -> "none"
    [] Open(t) /\ task[t].state # "BLOCKED_AWAITING_HUMAN" -> "open"
    [] task[t].state = "BLOCKED_AWAITING_HUMAN" -> "held"
    [] IsTerminal(t)                            -> "over"

Authority == INSTANCE Authorization WITH
  phase <- [t \in Tasks |-> Phase(t)],
  closed <- {r \in Robots : GateClosed(r)},
  sends <- published,
  MaxSends <- MaxAttempts

\* Whatever arrives, crashes and reconnects, the Edge authorises and sends only what
\* Authorization allows.
AuthorizationKept == Authority!Spec
=============================================================================
