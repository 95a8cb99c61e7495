------------------------ MODULE EdgeLifecycle_proofs ------------------------
(***************************************************************************)
(* Proofs about EdgeLifecycle, for every set of tasks, robots, events and  *)
(* statuses and every bound: type correctness, bounded publications, one   *)
(* open task per robot, what evidence decides, what is never taken back,   *)
(* and that every step is a step of Authorization.                         *)
(***************************************************************************)
EXTENDS EdgeLifecycle, FiniteSetTheorems, SequenceTheorems, TLAPS

-----------------------------------------------------------------------------
(* The inductive invariant.                                                *)

Dispositions == {"duplicate", "conflicting_replay", "evidence", "applied"}

Lines ==
  [kind : {"edge_started", "transport_session"}] \cup
  [kind : {"task_created", "task_publish_confirmed", "robot_request_rejected", "conflicting_terminal"}, task : Tasks] \cup
  [kind : {"task_publish_attempted"}, task : Tasks, late : BOOLEAN] \cup
  [kind : {"device_status"}, status : Statuses] \cup
  [kind : {"device_heartbeat", "session_regression"}, robot : Robots] \cup
  [kind : {"device_liveness_changed"}, robot : Robots, to : {"STALE", "OFFLINE"}] \cup
  [kind : {"task_reconciliation_flagged"}, task : Tasks, reason : Clearable \cup StickyReasons] \cup
  [kind : {"task_event_received"}, event : Events, disposition : Dispositions, after : States,
   reasons : SUBSET StickyReasons]

\* Two ends of a task are on record, and they differ.
TwoEnds(t) ==
  \E x, y \in Recorded(t) : x.kind \in TerminalKinds /\ y.kind \in TerminalKinds /\ x.kind # y.kind

\* Nothing is held against the evidence of t: its robot's gate is open, or no reason sticks to t.
Clean(t) == Known(t) /\ (~GateClosed(RobotOf[t]) \/ Unquestioned(t))

\* The event is not ahead of what was applied, or repeats the end of the task.
InOrder(t, e) == ~Above(Key(e), task[t].max) \/ (IsTerminal(t) /\ e.kind = task[t].state)

\* The batch b has recorded the loss of continuity before its line i, that of event e.
RegressionFirst(b, i, e) ==
  Dev(e.task).regression \/ (i = 2 /\ b[1] = LineRegression(RobotOf[e.task]))

\* An event that is kept as evidence: out of a regressed session, flagged, contradictory, or in order.
KeptSound(b, i) ==
  LET e == b[i].event
      reasons == b[i].reasons
  IN  /\ Key(e) \notin SeenKeys(e.task)
      /\ \/ "session_regression" \in reasons /\ RegressionFirst(b, i, e)
         \/ reasons \cap EvidenceConflictReasons # {}
         \/ "conflicting_terminal" \in reasons
         \/ /\ e.inc = Incarnation[e.task] /\ InOrder(e.task, e)
            /\ Differs(e) => GateClosed(RobotOf[e.task])

AppliedSound(b, i) ==
  LET e == b[i].event
  IN  /\ i = 1 /\ Open(e.task) /\ ~Dev(e.task).regression
      /\ e.inc = Incarnation[e.task] /\ Key(e) \notin SeenKeys(e.task)
      /\ Above(Key(e), task[e.task].max) /\ b[i].after = StateShowing(e)
      /\ Differs(e) => "conflicting_terminal" \in b[i].reasons

ReceivedSound(b, i) ==
  LET e == b[i].event
  IN  /\ Known(e.task) /\ e.seq # 0
      /\ i = 1 \/ (i = 2 /\ b[1] = LineRegression(RobotOf[e.task]))
      /\ "conflicting_terminal" \in b[i].reasons => Differs(e)
      /\ b[i].disposition = "duplicate" => e \in Recorded(e.task)
      /\ b[i].disposition = "conflicting_replay" => "conflicting_replay" \in b[i].reasons
      /\ b[i].disposition = "evidence" => KeptSound(b, i)
      /\ b[i].disposition = "applied" => AppliedSound(b, i)

CreatedSound(t) ==
  /\ ~Known(t) /\ OpenTasksOf(RobotOf[t]) = {} /\ ~GateClosed(RobotOf[t])
  /\ Dev(t).boot # 0 /\ Dev(t).inc = Incarnation[t]

AttemptSound(l) ==
  /\ pc = "sending" /\ sending = l.task
  /\ task[l.task].attempts < MaxAttempts
  /\ l.late => task[l.task].lateAttempts = 0

\* A line of b before place i records an end of t that contradicts another one.
ContradictionAt(b, i, t) ==
  \E j \in 1 .. i - 1 : /\ b[j].kind = "task_event_received" /\ b[j].event.task = t
                        /\ "conflicting_terminal" \in b[j].reasons

\* What is true of the line at place i of the batch b until it is written.
LineSound(b, i) ==
  /\ b[i].kind = "task_created" => Len(b) = 1 /\ CreatedSound(b[i].task)
  /\ b[i].kind = "task_publish_attempted" => Len(b) = 1 /\ AttemptSound(b[i])
  /\ b[i].kind = "task_publish_confirmed" => published[b[i].task] > 0
  /\ b[i].kind = "device_status" => i = 1 /\ ~Regressed(b[i].status)
  /\ b[i].kind = "task_event_received" => ReceivedSound(b, i)
  /\ b[i].kind = "conflicting_terminal" => TwoEnds(b[i].task) \/ ContradictionAt(b, i, b[i].task)

BatchSound == batch \in Seq(Lines) /\ \A i \in 1 .. Len(batch) : LineSound(batch, i)

NothingYet(t) ==
  /\ task[t].seen = {} /\ task[t].replays = {} /\ ~task[t].conflict /\ ~task[t].confirmed
  /\ task[t].attempts = 0 /\ task[t].lateAttempts = 0

\* The state is the state before any event, or what the event at max shows.
StateFollowsMax(t) ==
  \/ task[t].state = "CREATED" /\ task[t].max = <<0, 0>>
  \/ \E e \in task[t].seen : Key(e) = task[t].max /\ task[t].state = StateShowing(e)

EvidenceSound(t) ==
  /\ ~Known(t) => NothingYet(t)
  /\ Known(t) => Dev(t).boot # 0 /\ Dev(t).inc = Incarnation[t] /\ StateFollowsMax(t)
  /\ \A x, y \in task[t].seen : Key(x) = Key(y) => x = y
  /\ \A x \in Recorded(t) : x.seq # 0
  /\ task[t].conflict => TwoEnds(t)
  /\ IsTerminal(t) => \E x \in task[t].seen : x.kind = task[t].state
  /\ Known(t) /\ ~GateClosed(RobotOf[t]) => task[t].replays = {} /\ ~TwoEnds(t)
  /\ Clean(t) => \A x \in task[t].seen : x.inc = Incarnation[t] /\ InOrder(t, x)

\* The request being sent is durably attempted, and may be sent.
SendingSound ==
  /\ pc = "sending" =>
       /\ sending \in Tasks /\ Open(sending) /\ task[sending].state # "BLOCKED_AWAITING_HUMAN"
       /\ ~GateClosed(RobotOf[sending])
       /\ batch # <<>> => batch[1].kind \in {"task_publish_attempted", "task_created"}
       /\ (batch = <<>> \/ batch[1].kind = "task_created") => published[sending] < task[sending].attempts
  /\ pc = "waiting" => sending \in Tasks /\ published[sending] > 0

\* An event that is being handled is on record, or a line of the batch puts it there.
HandlingSound ==
  handling # NoEvent =>
    \/ handling.seq = 0 \/ handling \in Recorded(handling.task)
    \/ \E i \in 1 .. Len(batch) : batch[i].kind = "task_event_received" /\ batch[i].event = handling

OneOpenTask == \A t, u \in Tasks : Open(t) /\ Open(u) /\ RobotOf[t] = RobotOf[u] => t = u

EdgeInv ==
  /\ TypeOK /\ BatchSound /\ (\A t \in Tasks : EvidenceSound(t)) /\ SendingSound /\ HandlingSound
  /\ OneOpenTask /\ PublicationsAreBounded /\ AckedEvidenceIsDurable

-----------------------------------------------------------------------------
(* Types.                                                                  *)

TypeInv == TypeOK /\ batch \in Seq(Lines)

\* The reasons and kinds that lines carry.
LEMMA ReasonSets ==
  /\ Clearable \subseteq Clearable \cup StickyReasons
  /\ {"edge_restart", "transport_session_lost", "new_boot_session", "expired_unconfirmed", "heartbeat_mismatch",
      "progress_window_elapsed", "acceptance_window_elapsed"} = Clearable
  /\ {"post_terminal_activity", "unexpected_acceptance", "unexpected_rejection", "conflicting_replay",
      "conflicting_terminal", "session_regression"} = StickyReasons
  /\ ProgressReasons \subseteq Clearable /\ PresenceReasons \subseteq Clearable
BY DEF Clearable, StickyReasons, PresenceReasons, ProgressReasons, EvidenceConflictReasons

\* The bounds of the code as natural numbers.
LEMMA Bounds ==
  /\ ProgressCap \in Nat /\ QuietCap \in Nat
  /\ MinInterval \in Nat /\ Window \in Nat /\ MinInterval > 0 /\ Window > 0
  /\ Stale \in Nat /\ HalfStale \in Nat /\ Offline \in Nat /\ Grace \in Nat
BY EdgeAssumption DEF ProgressCap, QuietCap, AtLeast

\* An age that is capped stays an age.
LEMMA AtMostType ==
  ASSUME NEW cap \in Nat, NEW n \in 0 .. cap
  PROVE  AtMost(cap, n + 1) \in 0 .. cap
BY DEF AtMost

\* A line carries the fields of its kind.
LEMMA LineFields ==
  ASSUME NEW l \in Lines
  PROVE  /\ l.kind \in {"task_created", "task_publish_confirmed", "robot_request_rejected", "conflicting_terminal",
                        "task_publish_attempted", "task_reconciliation_flagged"} => l.task \in Tasks
         /\ l.kind = "task_publish_attempted" => l.late \in BOOLEAN
         /\ l.kind = "device_status" => l.status \in Statuses
         /\ l.kind \in {"device_heartbeat", "session_regression", "device_liveness_changed"} => l.robot \in Robots
         /\ l.kind = "device_liveness_changed" => l.to \in {"STALE", "OFFLINE"}
         /\ l.kind = "task_reconciliation_flagged" => l.reason \in Clearable \cup StickyReasons
         /\ l.kind = "task_event_received" =>
              l.event \in Events /\ l.disposition \in Dispositions /\ l.after \in States /\ l.reasons \in SUBSET StickyReasons
BY DEF Lines

\* The first line of a batch, and what remains when it is written.
LEMMA FirstLine ==
  ASSUME batch \in Seq(Lines), batch # <<>>
  PROVE  /\ Line \in Lines /\ Line = batch[1] /\ Len(batch) \in Nat /\ Len(batch) > 0
         /\ Tail(batch) \in Seq(Lines) /\ Len(Tail(batch)) = Len(batch) - 1
         /\ \A i \in 1 .. Len(Tail(batch)) : Tail(batch)[i] = batch[i + 1]
<1>1. Len(batch) \in Nat /\ Len(batch) > 0
  BY EmptySeq, LenProperties
<1>2. Head(batch) = batch[1] /\ Head(batch) \in Lines /\ Tail(batch) \in Seq(Lines) /\ Len(Tail(batch)) = Len(batch) - 1
  BY HeadTailProperties
<1>3. \A i \in 1 .. Len(Tail(batch)) : Tail(batch)[i] = batch[i + 1]
  BY <1>1, HeadTailProperties
<1> QED
  BY <1>1, <1>2, <1>3 DEF Line

\* The events and statuses that arrive.
LEMMA Arrivals ==
  /\ \A e \in Events : /\ e.task \in Tasks /\ e.boot \in Nat /\ e.boot # 0 /\ e.seq \in Nat
                       /\ e.inc \in Nat /\ e.inc # 0 /\ e.kind \in Kinds
                       /\ Key(e) \in Nat \X Nat /\ Key(e)[1] = e.boot /\ Key(e)[2] = e.seq
  /\ \A s \in Statuses : s.robot \in Robots /\ s.boot \in Nat /\ s.boot # 0 /\ s.inc \in Nat /\ s.inc # 0 /\ s.idle \in BOOLEAN
<1>1. \A e \in Events : e \in Event
  BY EdgeAssumption
<1>2. \A s \in Statuses : s \in Status
  BY EdgeAssumption
<1> QED
  BY <1>1, <1>2 DEF Event, Status, Key

\* The fields of the view of one task (_TaskView of cases.py).
LEMMA TaskFields ==
  ASSUME TypeOK, NEW t \in Tasks
  PROVE  /\ task[t] \in TaskView /\ task[t].state \in States /\ task[t].max \in Nat \X Nat
         /\ task[t].seen \subseteq Events /\ task[t].replays \subseteq Events /\ task[t].conflict \in BOOLEAN
         /\ task[t].reasons \subseteq Clearable \cup StickyReasons
         /\ task[t].attempts \in Nat /\ task[t].lateAttempts \in Nat /\ task[t].confirmed \in BOOLEAN
         /\ task[t].age \in Ages
         /\ RobotOf[t] \in Robots /\ Incarnation[t] \in Nat /\ Incarnation[t] # 0
BY EdgeAssumption DEF TypeOK, TaskView

\* The fields of the view of one robot.
LEMMA DeviceFields ==
  ASSUME TypeOK, NEW r \in Robots
  PROVE  /\ device[r] \in DeviceView /\ device[r].boot \in Nat /\ device[r].inc \in Nat
         /\ device[r].regression \in BOOLEAN /\ device[r].quiet \in 0 .. QuietCap
         /\ device[r].connectivity \in {"UNKNOWN", "ONLINE", "STALE", "OFFLINE"}
BY DEF TypeOK, DeviceView

-----------------------------------------------------------------------------
(* Writing a line keeps the types.                                         *)

\* Every open task is asked for again: the tasks keep their types.
LEMMA AskAgainType ==
  ASSUME TypeOK, NEW r \in Clearable, AskAgain(r)
  PROVE  task' \in [Tasks -> TaskView]
<1>1. ASSUME NEW t \in Tasks
      PROVE  [task[t] EXCEPT !.reasons = @ \cup {r}, !.unanswered = @ \cup {r}] \in TaskView
  BY TaskFields DEF TaskView
<1> QED
  BY <1>1, TaskFields DEF AskAgain

\* Every robot becomes UNKNOWN: the robots keep their types.
LEMMA AllUnknownType ==
  ASSUME TypeOK, AllUnknown
  PROVE  device' \in [Robots -> DeviceView]
<1>1. ASSUME NEW r \in Robots
      PROVE  [device[r] EXCEPT !.connectivity = "UNKNOWN", !.quiet = 0] \in DeviceView
  <2>1. 0 \in 0 .. QuietCap
    BY Bounds
  <2> QED
    BY <2>1, DeviceFields DEF DeviceView
<1> QED
  BY <1>1 DEF AllUnknown

\* A task that is created starts with the state and the ages of a new task.
LEMMA NewTaskType == NewTask \in TaskView /\ NoTaskYet \in TaskView
<1>1. [r \in ProgressReasons |-> Window] \in [ProgressReasons -> 0 .. Window]
  BY Bounds
<1>2. NewTask.age \in Ages
  BY <1>1, Bounds DEF NewTask, Ages
<1> QED
  BY <1>2 DEF NewTask, NoTaskYet, TaskView, States, OpenStates

\* An age that starts again, or a probe that is due again, is an age.
LEMMA AgeTypes ==
  ASSUME NEW k \in TaskView
  PROVE  /\ k.age \in Ages
         /\ [k.age EXCEPT !.attempt = 0] \in Ages /\ [k.age EXCEPT !.confirm = 0] \in Ages
         /\ [k.age EXCEPT !.progress = 0] \in Ages /\ [k.age EXCEPT !.probe = 0] \in Ages
         /\ [k.age EXCEPT !.probe = Window] \in Ages
BY Bounds DEF TaskView, Ages

\* note_evidence keeps the type of a task.
LEMMA AnsweredType ==
  ASSUME NEW k \in TaskView
  PROVE  Answered(k) \in TaskView
<1> DEFINE a == [k.age EXCEPT !.answer = [r \in ProgressReasons |-> IF r \in k.unanswered THEN 0 ELSE @[r]]]
<1>1. k.age \in Ages /\ k.age.answer \in [ProgressReasons -> 0 .. Window]
  BY DEF TaskView, Ages
<1>2. [r \in ProgressReasons |-> IF r \in k.unanswered THEN 0 ELSE k.age.answer[r]] \in [ProgressReasons -> 0 .. Window]
  BY <1>1, Bounds
<1>3. a \in Ages
  BY <1>1, <1>2 DEF Ages
<1>4. Answered(k) = [k EXCEPT !.unanswered = {}, !.age = a]
  BY DEF Answered
<1>5. [k EXCEPT !.unanswered = {}, !.age = a] \in TaskView
  <2> HIDE DEF a
  <2> QED
    BY <1>3 DEF TaskView
<1> QED
  BY <1>4, <1>5

\* A recorded event keeps the type of its task.
LEMMA AfterEvidenceType ==
  ASSUME NEW k \in TaskView, NEW l \in Lines, l.kind = "task_event_received"
  PROVE  AfterEvidence(k, l) \in TaskView
<1> DEFINE a     == Answered(k)
           known == [a EXCEPT !.bootFlagged = FALSE, !.reasons = (@ \ PresenceReasons) \cup l.reasons,
                              !.conflict = @ \/ Contradicts(l)]
<1>1. a \in TaskView
  BY AnsweredType
<1>2. l.event \in Events /\ l.disposition \in Dispositions /\ l.after \in States /\ l.reasons \subseteq StickyReasons
  BY LineFields
<1>3. Contradicts(l) \in BOOLEAN
  BY DEF Contradicts
<1>4. known \in TaskView
  <2> HIDE DEF a
  <2>1. a.conflict \in BOOLEAN /\ a.reasons \subseteq Clearable \cup StickyReasons
    BY <1>1 DEF TaskView
  <2>2. (a.conflict \/ Contradicts(l)) \in BOOLEAN
    BY <1>3, <2>1
  <2>3. (a.reasons \ PresenceReasons) \cup l.reasons \subseteq Clearable \cup StickyReasons
    BY <1>2, <2>1
  <2> QED
    BY <1>1, <2>2, <2>3 DEF TaskView
<1> HIDE DEF a
<1>5. CASE l.disposition = "duplicate"
  BY <1>4, <1>5 DEF AfterEvidence, a
<1>6. CASE l.disposition = "conflicting_replay"
  <2>1. [known EXCEPT !.replays = @ \cup {l.event}] \in TaskView
    <3> HIDE DEF known
    <3> QED
      BY <1>2, <1>4 DEF TaskView
  <2> QED
    BY <1>6, <2>1 DEF AfterEvidence, a
<1>7. CASE l.disposition = "evidence"
  <2>1. [known EXCEPT !.seen = @ \cup {l.event}] \in TaskView
    <3> HIDE DEF known
    <3> QED
      BY <1>2, <1>4 DEF TaskView
  <2> QED
    BY <1>7, <2>1 DEF AfterEvidence, a
<1>8. CASE l.disposition = "applied"
  <2> DEFINE applied ==
        [known EXCEPT !.seen = @ \cup {l.event}, !.reasons = @ \ ProgressReasons,
                      !.probed = {}, !.age.progress = 0, !.age.probe = Window,
                      !.max = Key(l.event), !.state = l.after,
                      !.conflict = IF l.event.kind \in TerminalKinds THEN Contradicts(l) ELSE @]
  <2>1. [known.age EXCEPT !.progress = 0, !.probe = Window] \in Ages
    <3> HIDE DEF known
    <3>1. known.age \in Ages /\ 0 \in 0 .. ProgressCap /\ Window \in 0 .. Window
      BY <1>4, Bounds DEF TaskView
    <3> QED
      BY <3>1 DEF Ages
  <2>2. (IF l.event.kind \in TerminalKinds THEN Contradicts(l) ELSE known.conflict) \in BOOLEAN
    <3> HIDE DEF known
    <3> QED
      BY <1>3, <1>4 DEF TaskView
  <2>3. known.reasons \ ProgressReasons \subseteq Clearable \cup StickyReasons /\ known.seen \cup {l.event} \subseteq Events
    <3> HIDE DEF known
    <3> QED
      BY <1>2, <1>4 DEF TaskView
  <2>4. Key(l.event) \in Nat \X Nat
    BY <1>2, Arrivals
  <2>5. applied = [known EXCEPT !.seen = @ \cup {l.event}, !.reasons = @ \ ProgressReasons, !.probed = {},
                                !.age = [known.age EXCEPT !.progress = 0, !.probe = Window],
                                !.max = Key(l.event), !.state = l.after,
                                !.conflict = IF l.event.kind \in TerminalKinds THEN Contradicts(l) ELSE @]
    <3> HIDE DEF known
    <3> QED
      OBVIOUS
  <2>6. applied \in TaskView
    <3> HIDE DEF known
    <3> QED
      BY <1>2, <1>4, <2>1, <2>2, <2>3, <2>4, <2>5 DEF TaskView
  <2> QED
    BY <1>8, <2>6 DEF AfterEvidence, a
<1> QED
  BY <1>2, <1>5, <1>6, <1>7, <1>8 DEF Dispositions

\* A flag keeps the type of its task.
LEMMA WithFlagType ==
  ASSUME NEW k \in TaskView, NEW r \in Clearable \cup StickyReasons
  PROVE  WithFlag(k, r) \in TaskView
<1> DEFINE B == k.bootFlagged \/ r = "new_boot_session"
           X == k.expiredFlagged \/ r = "expired_unconfirmed"
           R == k.reasons \cup {r}
           P == k.probed \cup ({r} \cap ProgressReasons)
           U == k.unanswered \cup ({r} \cap Clearable)
           A == [k.age EXCEPT !.probe = IF r \in ProgressReasons THEN 0 ELSE @]
<1>1. /\ k.bootFlagged \in BOOLEAN /\ k.expiredFlagged \in BOOLEAN
      /\ k.probed \subseteq ProgressReasons /\ k.unanswered \subseteq Clearable
      /\ k.reasons \subseteq Clearable \cup StickyReasons
  BY DEF TaskView
<1>2. B \in BOOLEAN /\ X \in BOOLEAN
  BY <1>1
<1>3. R \subseteq Clearable \cup StickyReasons /\ P \subseteq ProgressReasons /\ U \subseteq Clearable
  BY <1>1
<1>4. A \in Ages
  BY AgeTypes DEF TaskView, Ages
<1>5. WithFlag(k, r) = [k EXCEPT !.reasons = R, !.bootFlagged = B, !.probed = P, !.unanswered = U,
                                 !.age = A, !.expiredFlagged = X]
  BY DEF WithFlag
<1> HIDE DEF A, B, P, R, U, X
<1> QED
  BY <1>2, <1>3, <1>4, <1>5 DEF TaskView

\* Each record kind leaves a view of the right type.
LEMMA WriteLineType ==
  ASSUME TypeInv, WriteLine
  PROVE  task' \in [Tasks -> TaskView] /\ device' \in [Robots -> DeviceView]
<1> USE DEF TypeInv
<1>1. Line \in Lines
  BY FirstLine DEF WriteLine
<1>2. task \in [Tasks -> TaskView] /\ device \in [Robots -> DeviceView]
  BY DEF TypeOK
<1>3. CASE WriteStarted
  <2>1. "edge_restart" \in Clearable
    BY ReasonSets
  <2> QED
    BY <1>3, <2>1, AskAgainType, AllUnknownType DEF WriteStarted
<1>4. CASE WriteSessionLost
  <2>1. "transport_session_lost" \in Clearable
    BY ReasonSets
  <2> QED
    BY <1>4, <2>1, AskAgainType, AllUnknownType DEF WriteSessionLost
<1>5. CASE WriteCreated
  BY <1>1, <1>2, <1>5, NewTaskType DEF WriteCreated
<1>6. CASE WriteAttempted
  <2> DEFINE t == Line.task
             k == [task[t] EXCEPT !.attempts = @ + 1, !.age.attempt = 0,
                                  !.lateAttempts = IF Line.late THEN @ + 1 ELSE @]
  <2>1. t \in Tasks
    BY <1>1, <1>6, LineFields DEF WriteAttempted
  <2>2. task[t] \in TaskView /\ task[t].attempts + 1 \in Nat /\ task[t].lateAttempts + 1 \in Nat
    BY <2>1, TaskFields
  <2>3. k = [task[t] EXCEPT !.attempts = @ + 1, !.age = [task[t].age EXCEPT !.attempt = 0],
                            !.lateAttempts = IF Line.late THEN @ + 1 ELSE @]
    OBVIOUS
  <2>4. [task[t].age EXCEPT !.attempt = 0] \in Ages
    BY <2>2, AgeTypes
  <2>5. k \in TaskView
    BY <2>2, <2>3, <2>4 DEF TaskView
  <2>6. task' = [task EXCEPT ![t] = k]
    BY <1>6 DEF WriteAttempted
  <2> QED
    BY <1>2, <1>6, <2>1, <2>5, <2>6 DEF WriteAttempted
<1>7. CASE WriteConfirmed
  <2> DEFINE t == Line.task
             k == [task[t] EXCEPT !.confirmed = TRUE, !.age.confirm = 0]
  <2>1. t \in Tasks
    BY <1>1, <1>7, LineFields DEF WriteConfirmed
  <2>2. k = [task[t] EXCEPT !.confirmed = TRUE, !.age = [task[t].age EXCEPT !.confirm = 0]]
    OBVIOUS
  <2>3. task[t] \in TaskView /\ [task[t].age EXCEPT !.confirm = 0] \in Ages
    BY <2>1, TaskFields, AgeTypes
  <2>4. k \in TaskView
    BY <2>2, <2>3 DEF TaskView
  <2>5. task' = [task EXCEPT ![t] = k]
    BY <1>7 DEF WriteConfirmed
  <2> QED
    BY <1>2, <1>7, <2>1, <2>4, <2>5 DEF WriteConfirmed
<1>8. CASE WriteStatus
  <2>1. Line.status \in Statuses
    BY <1>1, <1>8, LineFields DEF WriteStatus
  <2>2. /\ Line.status.robot \in Robots /\ Line.status.boot \in Nat /\ Line.status.inc \in Nat
        /\ Line.status.idle \in BOOLEAN /\ 0 \in 0 .. QuietCap
    BY <2>1, Arrivals, Bounds
  <2>3. [device[Line.status.robot] EXCEPT !.connectivity = "ONLINE", !.quiet = 0, !.boot = Line.status.boot,
                                          !.inc = Line.status.inc, !.idle = Line.status.idle] \in DeviceView
    BY <2>2, DeviceFields DEF DeviceView
  <2> QED
    BY <1>2, <1>8, <2>2, <2>3 DEF WriteStatus
<1>9. CASE WriteHeartbeat
  <2>1. Line.robot \in Robots /\ 0 \in 0 .. QuietCap
    BY <1>1, <1>9, LineFields, Bounds DEF WriteHeartbeat
  <2>2. [device[Line.robot] EXCEPT !.quiet = 0] \in DeviceView
    BY <2>1, DeviceFields DEF DeviceView
  <2> QED
    BY <1>2, <1>9, <2>1, <2>2 DEF WriteHeartbeat
<1>10. CASE WriteLiveness
  <2>1. Line.robot \in Robots /\ Line.to \in {"STALE", "OFFLINE"}
    BY <1>1, <1>10, LineFields DEF WriteLiveness
  <2>2. [device[Line.robot] EXCEPT !.connectivity = Line.to] \in DeviceView
    BY <2>1, DeviceFields DEF DeviceView
  <2> QED
    BY <1>2, <1>10, <2>1, <2>2 DEF WriteLiveness
<1>11. CASE WriteRegression
  <2>1. Line.robot \in Robots
    BY <1>1, <1>11, LineFields DEF WriteRegression
  <2>2. [device[Line.robot] EXCEPT !.regression = TRUE] \in DeviceView
    BY <2>1, DeviceFields DEF DeviceView
  <2>3. ASSUME NEW t \in Tasks
        PROVE  [task[t] EXCEPT !.reasons = @ \cup {"session_regression"}] \in TaskView
    BY TaskFields, ReasonSets DEF TaskView
  <2> QED
    BY <1>2, <1>11, <2>1, <2>2, <2>3 DEF WriteRegression
<1>12. CASE WriteAnswered
  <2>1. Line.task \in Tasks
    BY <1>1, <1>12, LineFields DEF WriteAnswered
  <2>2. Answered(task[Line.task]) \in TaskView
    BY <2>1, <1>2, AnsweredType
  <2> QED
    BY <1>2, <1>12, <2>1, <2>2 DEF WriteAnswered
<1>13. CASE WriteReceived
  <2>1. Line.event.task \in Tasks
    BY <1>1, <1>13, LineFields, Arrivals DEF WriteReceived
  <2>2. AfterEvidence(task[Line.event.task], Line) \in TaskView
    BY <1>1, <1>2, <1>13, <2>1, AfterEvidenceType DEF WriteReceived
  <2> QED
    BY <1>2, <1>13, <2>1, <2>2 DEF WriteReceived
<1>14. CASE WriteFlag
  <2>1. Line.task \in Tasks /\ Line.reason \in Clearable \cup StickyReasons
    BY <1>1, <1>14, LineFields DEF WriteFlag
  <2>2. WithFlag(task[Line.task], Line.reason) \in TaskView
    BY <1>2, <2>1, WithFlagType
  <2> QED
    BY <1>2, <1>14, <2>1, <2>2 DEF WriteFlag
<1>15. CASE WriteConflict
  <2>1. Line.task \in Tasks
    BY <1>1, <1>15, LineFields DEF WriteConflict
  <2>2. [task[Line.task] EXCEPT !.conflict = TRUE] \in TaskView
    BY <2>1, TaskFields DEF TaskView
  <2> QED
    BY <1>2, <1>15, <2>1, <2>2 DEF WriteConflict
<1> QED
  BY <1>3, <1>4, <1>5, <1>6, <1>7, <1>8, <1>9, <1>10, <1>11, <1>12, <1>13, <1>14, <1>15 DEF WriteLine

-----------------------------------------------------------------------------
(* What the invariant reads of the view, and how it changes.               *)

\* What the evidence rules read of the view is as it was.
SameEvidence ==
  /\ \A t \in Tasks :
       /\ task'[t].state = task[t].state /\ task'[t].max = task[t].max
       /\ task'[t].seen = task[t].seen /\ task'[t].replays = task[t].replays
       /\ task'[t].conflict = task[t].conflict /\ task'[t].reasons = task[t].reasons
       /\ task'[t].confirmed = task[t].confirmed
       /\ ~Known(t) => task'[t].attempts = task[t].attempts /\ task'[t].lateAttempts = task[t].lateAttempts
  /\ \A r \in Robots :
       /\ device'[r].boot = device[r].boot /\ device'[r].inc = device[r].inc
       /\ device'[r].regression = device[r].regression

\* The queries on the view answer as before when the evidence is as it was.
LEMMA SameFacts ==
  ASSUME SameEvidence
  PROVE  /\ \A t \in Tasks :
              /\ (Known(t)' <=> Known(t)) /\ (Open(t)' <=> Open(t)) /\ (IsTerminal(t)' <=> IsTerminal(t))
              /\ Recorded(t)' = Recorded(t) /\ SeenKeys(t)' = SeenKeys(t)
         /\ \A r \in Robots : (GateClosed(r)' <=> GateClosed(r)) /\ OpenTasksOf(r)' = OpenTasksOf(r)
<1>1. \A t \in Tasks :
        /\ (Known(t)' <=> Known(t)) /\ (Open(t)' <=> Open(t)) /\ (IsTerminal(t)' <=> IsTerminal(t))
        /\ Recorded(t)' = Recorded(t) /\ SeenKeys(t)' = SeenKeys(t)
  BY DEF SameEvidence, Known, Open, IsTerminal, Recorded, SeenKeys
<1>2. \A r \in Robots : TasksOf(r)' = TasksOf(r)
  BY <1>1 DEF TasksOf
<1>3. \A r \in Robots : OpenTasksOf(r)' = OpenTasksOf(r)
  BY <1>1, <1>2 DEF OpenTasksOf, TasksOf
<1>4. \A r \in Robots : GateClosed(r)' <=> GateClosed(r)
  BY <1>2 DEF GateClosed, TasksOf, SameEvidence
<1> QED
  BY <1>1, <1>3, <1>4

\* Evidence stays sound as long as nothing it rests on changes.
LEMMA SameEvidenceSound ==
  ASSUME TypeOK, SameEvidence, NEW t \in Tasks, EvidenceSound(t)
  PROVE  EvidenceSound(t)'
<1>1. RobotOf[t] \in Robots
  BY TaskFields
<1>2. /\ (Known(t)' <=> Known(t)) /\ (IsTerminal(t)' <=> IsTerminal(t))
      /\ Recorded(t)' = Recorded(t) /\ (GateClosed(RobotOf[t])' <=> GateClosed(RobotOf[t]))
  BY <1>1, SameFacts
<1>3. TwoEnds(t)' <=> TwoEnds(t)
  BY <1>2 DEF TwoEnds
<1>4. Clean(t)' <=> Clean(t)
  BY <1>2 DEF Clean, Unquestioned, SameEvidence
<1>5. ~Known(t) => (NothingYet(t)' <=> NothingYet(t))
  BY DEF NothingYet, SameEvidence
<1>6. StateFollowsMax(t)' <=> StateFollowsMax(t)
  BY DEF StateFollowsMax, SameEvidence
<1>7. \A e \in task[t].seen : InOrder(t, e)' <=> InOrder(t, e)
  BY <1>2 DEF InOrder, SameEvidence
<1>8. task'[t].seen = task[t].seen /\ task'[t].replays = task[t].replays /\ task'[t].conflict = task[t].conflict
      /\ task'[t].state = task[t].state /\ Dev(t)'.boot = Dev(t).boot /\ Dev(t)'.inc = Dev(t).inc
  BY <1>1 DEF SameEvidence, Dev
<1> QED
  BY <1>2, <1>3, <1>4, <1>5, <1>6, <1>7, <1>8 DEF EvidenceSound

\* The evidence is as it was; what is held against it, and where the session stands, only grows.
OnlyGrows ==
  /\ \A t \in Tasks :
       /\ task'[t].state = task[t].state /\ task'[t].max = task[t].max
       /\ task'[t].seen = task[t].seen /\ task'[t].replays = task[t].replays
       /\ task'[t].attempts = task[t].attempts /\ task'[t].lateAttempts = task[t].lateAttempts
       /\ task[t].conflict => task'[t].conflict
       /\ task'[t].conflict => task[t].conflict \/ TwoEnds(t)
       /\ task[t].reasons \cap StickyReasons \subseteq task'[t].reasons
       /\ task'[t].confirmed => task[t].confirmed \/ published[t] > 0
  /\ \A r \in Robots :
       /\ device[r].regression => device'[r].regression
       /\ device[r].boot # 0 => device'[r].inc = device[r].inc /\ device'[r].boot >= device[r].boot

\* The queries on the view when only more is held against the evidence: closed gates stay closed.
LEMMA GrowsFacts ==
  ASSUME OnlyGrows
  PROVE  /\ \A t \in Tasks :
              /\ (Known(t)' <=> Known(t)) /\ (Open(t)' <=> Open(t)) /\ (IsTerminal(t)' <=> IsTerminal(t))
              /\ Recorded(t)' = Recorded(t) /\ SeenKeys(t)' = SeenKeys(t) /\ (TwoEnds(t)' <=> TwoEnds(t))
         /\ \A r \in Robots : (GateClosed(r) => GateClosed(r)') /\ OpenTasksOf(r)' = OpenTasksOf(r)
<1>1. \A t \in Tasks :
        /\ (Known(t)' <=> Known(t)) /\ (Open(t)' <=> Open(t)) /\ (IsTerminal(t)' <=> IsTerminal(t))
        /\ Recorded(t)' = Recorded(t) /\ SeenKeys(t)' = SeenKeys(t)
  BY DEF OnlyGrows, Known, Open, IsTerminal, Recorded, SeenKeys
<1>2. \A t \in Tasks : TwoEnds(t)' <=> TwoEnds(t)
  BY <1>1 DEF TwoEnds
<1>3. \A r \in Robots : TasksOf(r)' = TasksOf(r)
  BY <1>1 DEF TasksOf
<1>4. \A r \in Robots : OpenTasksOf(r)' = OpenTasksOf(r)
  BY <1>1, <1>3 DEF OpenTasksOf, TasksOf
<1>5. ASSUME NEW r \in Robots, GateClosed(r)
      PROVE  GateClosed(r)'
  <2>1. CASE device[r].regression
    BY <2>1 DEF OnlyGrows, GateClosed
  <2>2. CASE \E t \in TasksOf(r) : task[t].conflict \/ task[t].reasons \cap EvidenceConflictReasons # {}
    <3>1. PICK t \in TasksOf(r) : task[t].conflict \/ task[t].reasons \cap EvidenceConflictReasons # {}
      BY <2>2
    <3>2. t \in Tasks /\ t \in TasksOf(r)'
      BY <1>3 DEF TasksOf
    <3>3. task'[t].conflict \/ task'[t].reasons \cap EvidenceConflictReasons # {}
      BY <3>1, <3>2 DEF OnlyGrows, StickyReasons
    <3> QED
      BY <3>2, <3>3 DEF GateClosed
  <2> QED
    BY <1>5, <2>1, <2>2 DEF GateClosed
<1> QED
  BY <1>1, <1>2, <1>4, <1>5

\* Evidence stays sound when only more is held against it.
LEMMA GrowsSound ==
  ASSUME TypeOK, TypeOK', OnlyGrows, PublicationsAreBounded, NEW t \in Tasks, EvidenceSound(t)
  PROVE  EvidenceSound(t)'
<1>1. RobotOf[t] \in Robots
  BY TaskFields
<1>2. /\ (Known(t)' <=> Known(t)) /\ (IsTerminal(t)' <=> IsTerminal(t)) /\ Recorded(t)' = Recorded(t)
      /\ (TwoEnds(t)' <=> TwoEnds(t)) /\ (GateClosed(RobotOf[t]) => GateClosed(RobotOf[t])')
  BY <1>1, GrowsFacts
<1>3. /\ task'[t].state = task[t].state /\ task'[t].max = task[t].max
      /\ task'[t].seen = task[t].seen /\ task'[t].replays = task[t].replays
      /\ task[t].conflict => task'[t].conflict
      /\ task'[t].conflict => task[t].conflict \/ TwoEnds(t)
      /\ task[t].reasons \cap StickyReasons \subseteq task'[t].reasons
      /\ task'[t].confirmed => task[t].confirmed \/ published[t] > 0
  BY DEF OnlyGrows
<1>4. Clean(t)' => Clean(t)
  BY <1>2, <1>3 DEF Clean, Unquestioned
<1>5. ~Known(t)' => NothingYet(t)'
  <2>1. SUFFICES ASSUME NothingYet(t)
                 PROVE  NothingYet(t)'
    BY <1>2 DEF EvidenceSound
  <2>2. published[t] <= 0 /\ published[t] \in Nat
    BY <2>1 DEF NothingYet, PublicationsAreBounded, TypeOK
  <2>3. ~TwoEnds(t)
    BY <2>1 DEF NothingYet, TwoEnds, Recorded
  <2> QED
    BY <1>3, <2>1, <2>2, <2>3 DEF NothingYet, OnlyGrows
<1>6. StateFollowsMax(t)' <=> StateFollowsMax(t)
  BY <1>3 DEF StateFollowsMax
<1>7. \A e \in task[t].seen : InOrder(t, e)' <=> InOrder(t, e)
  BY <1>2, <1>3 DEF InOrder
<1>8. Dev(t).boot # 0 => Dev(t)'.boot # 0 /\ Dev(t)'.inc = Dev(t).inc
  <2>1. device[RobotOf[t]].boot \in Nat /\ device'[RobotOf[t]].boot \in Nat
    BY <1>1 DEF TypeOK, DeviceView
  <2> QED
    BY <1>1, <2>1 DEF OnlyGrows, Dev
<1> QED
  BY <1>2, <1>3, <1>4, <1>5, <1>6, <1>7, <1>8 DEF EvidenceSound

\* The invariant says this of the line that is written next.
LEMMA NextLine ==
  ASSUME BatchSound, WriteLine
  PROVE  /\ Line \in Lines /\ Line = batch[1] /\ LineSound(batch, 1) /\ batch' = Tail(batch)
         /\ Len(batch) \in Nat /\ Len(batch) > 0 /\ 1 \in 1 .. Len(batch)
         /\ batch' \in Seq(Lines) /\ Len(batch') = Len(batch) - 1
         /\ \A i \in 1 .. Len(batch') : i + 1 \in 2 .. Len(batch) /\ batch'[i] = batch[i + 1] /\ LineSound(batch, i + 1)
<1>1. batch \in Seq(Lines) /\ batch # <<>> /\ batch' = Tail(batch)
  BY DEF BatchSound, WriteLine
<1>2. /\ Line \in Lines /\ Line = batch[1] /\ Len(batch) \in Nat /\ Len(batch) > 0
      /\ Tail(batch) \in Seq(Lines) /\ Len(Tail(batch)) = Len(batch) - 1
      /\ \A i \in 1 .. Len(Tail(batch)) : Tail(batch)[i] = batch[i + 1]
  BY <1>1, FirstLine
<1> QED
  BY <1>1, <1>2 DEF BatchSound

\* The records that are neither a new task, an attempt nor an event leave the evidence as it is.
LEMMA QuietLine ==
  ASSUME TypeOK, BatchSound, WriteLine,
         Line.kind \notin {"task_created", "task_publish_attempted", "task_event_received"}
  PROVE  OnlyGrows
<1>1. Line \in Lines /\ LineSound(batch, 1) /\ Line = batch[1]
  BY NextLine
<1>2. \A t \in Tasks : task[t] \in TaskView /\ task[t].conflict \in BOOLEAN
  BY TaskFields
<1>3. \A r \in Robots : device[r] \in DeviceView /\ device[r].boot \in Nat
  BY DeviceFields
<1>4. task \in [Tasks -> TaskView] /\ device \in [Robots -> DeviceView]
  BY DEF TypeOK
<1>5. ASSUME AllUnknown, NEW r \in Clearable, AskAgain(r)
      PROVE  OnlyGrows
  <2>1. \A t \in Tasks :
          /\ task'[t].state = task[t].state /\ task'[t].max = task[t].max
          /\ task'[t].seen = task[t].seen /\ task'[t].replays = task[t].replays
          /\ task'[t].attempts = task[t].attempts /\ task'[t].lateAttempts = task[t].lateAttempts
          /\ task'[t].conflict = task[t].conflict /\ task'[t].confirmed = task[t].confirmed
          /\ task[t].reasons \subseteq task'[t].reasons
    BY <1>2, <1>5 DEF AskAgain, TaskView
  <2>2. \A q \in Robots : device'[q].regression = device[q].regression /\ device'[q].inc = device[q].inc /\ device'[q].boot = device[q].boot
    BY <1>3, <1>5 DEF AllUnknown, DeviceView
  <2> QED
    BY <1>3, <2>1, <2>2 DEF OnlyGrows
<1>6. CASE WriteStarted
  BY <1>5, <1>6, ReasonSets DEF WriteStarted
<1>7. CASE WriteSessionLost
  BY <1>5, <1>7, ReasonSets DEF WriteSessionLost
<1>8. CASE WriteConfirmed
  <2>1. Line.task \in Tasks /\ published[Line.task] > 0
    BY <1>1, <1>8, LineFields DEF WriteConfirmed, LineSound
  <2>2. task' = [task EXCEPT ![Line.task] = [task[Line.task] EXCEPT !.confirmed = TRUE, !.age.confirm = 0]] /\ device' = device
    BY <1>8 DEF WriteConfirmed
  <2> QED
    BY <1>2, <1>3, <1>4, <2>1, <2>2 DEF OnlyGrows, TaskView
<1>9. CASE WriteStatus
  <2> DEFINE s == Line.status
  <2>1. s \in Statuses /\ ~Regressed(s)
    BY <1>1, <1>9, LineFields DEF WriteStatus, LineSound
  <2>2. s.robot \in Robots /\ s.boot \in Nat
    BY <2>1, Arrivals
  <2>3. device[s.robot].boot # 0 => s.boot >= device[s.robot].boot /\ s.inc = device[s.robot].inc
    BY <1>3, <2>1, <2>2 DEF Regressed
  <2>4. \A q \in Robots : /\ device'[q].regression = device[q].regression
                          /\ q # s.robot => device'[q] = device[q]
    BY <1>3, <1>4, <1>9, <2>2 DEF WriteStatus, DeviceView
  <2>5. device'[s.robot].boot = s.boot /\ device'[s.robot].inc = s.inc
    BY <1>3, <1>4, <1>9, <2>2 DEF WriteStatus, DeviceView
  <2>6. task' = task
    BY <1>9 DEF WriteStatus
  <2> QED
    BY <1>3, <2>3, <2>4, <2>5, <2>6 DEF OnlyGrows
<1>10. CASE WriteHeartbeat
  BY <1>3, <1>4, <1>10 DEF WriteHeartbeat, OnlyGrows, DeviceView
<1>11. CASE WriteLiveness
  BY <1>3, <1>4, <1>11 DEF WriteLiveness, OnlyGrows, DeviceView
<1>12. CASE WriteRegression
  <2>1. \A t \in Tasks : task'[t] = task[t] \/ task'[t] = [task[t] EXCEPT !.reasons = @ \cup {"session_regression"}]
    BY <1>12 DEF WriteRegression
  <2>2. device' = [device EXCEPT ![Line.robot].regression = TRUE]
    BY <1>12 DEF WriteRegression
  <2>3. ASSUME NEW t \in Tasks
        PROVE  /\ task'[t].state = task[t].state /\ task'[t].max = task[t].max
               /\ task'[t].seen = task[t].seen /\ task'[t].replays = task[t].replays
               /\ task'[t].attempts = task[t].attempts /\ task'[t].lateAttempts = task[t].lateAttempts
               /\ task'[t].conflict = task[t].conflict /\ task'[t].confirmed = task[t].confirmed
               /\ task[t].reasons \subseteq task'[t].reasons
    <3>1. CASE task'[t] = task[t]
      BY <3>1
    <3>2. CASE task'[t] = [task[t] EXCEPT !.reasons = @ \cup {"session_regression"}]
      BY <1>2, <3>2 DEF TaskView
    <3> QED
      BY <2>1, <3>1, <3>2
  <2>4. \A q \in Robots : /\ device[q].regression => device'[q].regression
                          /\ device'[q].inc = device[q].inc /\ device'[q].boot = device[q].boot
    BY <1>3, <1>4, <2>2 DEF DeviceView
  <2> QED
    BY <1>3, <2>3, <2>4 DEF OnlyGrows
<1>13. CASE WriteAnswered
  <2>1. Line.task \in Tasks
    BY <1>1, <1>13, LineFields DEF WriteAnswered
  <2>2. task' = [task EXCEPT ![Line.task] = Answered(task[Line.task])] /\ device' = device
    BY <1>13 DEF WriteAnswered
  <2> QED
    BY <1>2, <1>3, <1>4, <2>1, <2>2 DEF OnlyGrows, Answered, TaskView
<1>14. CASE WriteFlag
  <2>1. Line.task \in Tasks
    BY <1>1, <1>14, LineFields DEF WriteFlag
  <2>2. task' = [task EXCEPT ![Line.task] = WithFlag(task[Line.task], Line.reason)] /\ device' = device
    BY <1>14 DEF WriteFlag
  <2> QED
    BY <1>2, <1>3, <1>4, <2>1, <2>2 DEF OnlyGrows, WithFlag, TaskView
<1>15. CASE WriteConflict
  <2>1. Line.task \in Tasks /\ TwoEnds(Line.task)
    BY <1>1, <1>15, LineFields DEF WriteConflict, LineSound, ContradictionAt
  <2>2. task' = [task EXCEPT ![Line.task] = [task[Line.task] EXCEPT !.conflict = TRUE]] /\ device' = device
    BY <1>15 DEF WriteConflict
  <2> QED
    BY <1>2, <1>3, <1>4, <2>1, <2>2 DEF OnlyGrows, TaskView
<1> QED
  BY <1>6, <1>7, <1>8, <1>9, <1>10, <1>11, <1>12, <1>13, <1>14, <1>15
     DEF WriteLine, WriteCreated, WriteAttempted, WriteReceived

\* What a written line leaves alone.
LEMMA WriteLineFrame ==
  ASSUME WriteLine
  PROVE  /\ pc' = pc /\ handling' = handling /\ plan' = plan /\ sending' = sending /\ connected' = connected
         /\ connectedOnce' = connectedOnce /\ expired' = expired /\ starts' = starts /\ losses' = losses
         /\ published' = published /\ acked' = acked
BY DEF WriteLine, worldVars, historyVars

\* The lines behind a quiet line keep what is true of them.
LEMMA QuietBatch ==
  ASSUME EdgeInv, TypeOK', WriteLine, OnlyGrows,
         Line.kind \notin {"task_created", "task_publish_attempted", "task_event_received"}
  PROVE  BatchSound'
<1>1. /\ Line = batch[1] /\ batch' \in Seq(Lines) /\ Len(batch') = Len(batch) - 1 /\ Len(batch) \in Nat
      /\ \A i \in 1 .. Len(batch') : i + 1 \in 2 .. Len(batch) /\ batch'[i] = batch[i + 1] /\ LineSound(batch, i + 1)
  BY NextLine DEF EdgeInv
<1>2. ASSUME NEW i \in 1 .. Len(batch')
      PROVE  LineSound(batch, i)'
  <2>0. PICK l \in Lines : l = batch[i + 1]
    BY <1>1, <1>2 DEF EdgeInv, BatchSound
  <2>1. l = batch'[i] /\ l \in Lines /\ LineSound(batch, i + 1) /\ i \in Nat /\ i >= 1 /\ Len(batch) # 1
    BY <1>1, <1>2, <2>0 DEF EdgeInv, BatchSound
  <2>2. l.kind \notin {"task_created", "task_publish_attempted", "device_status"}
    BY <2>0, <2>1 DEF LineSound
  <2>3. l.kind = "task_publish_confirmed" => published'[l.task] > 0
    BY <2>0, <2>1, WriteLineFrame DEF LineSound
  <2>4. ASSUME l.kind = "task_event_received"
        PROVE  ReceivedSound(batch, i)'
    <3> DEFINE e == l.event
               t == e.task
    <3>1. ReceivedSound(batch, i + 1) /\ e \in Events /\ t \in Tasks /\ RobotOf[t] \in Robots
      BY <2>0, <2>1, <2>4, LineFields, Arrivals, TaskFields DEF LineSound, EdgeInv
    <3>2. i = 1 /\ Line = LineRegression(RobotOf[t])
      BY <1>1, <2>0, <2>1, <3>1 DEF ReceivedSound
    <3>3. Dev(t)'.regression
      <4>1. WriteRegression /\ Line.robot = RobotOf[t]
        BY <3>2 DEF WriteLine, LineRegression, WriteStarted, WriteSessionLost, WriteCreated, WriteAttempted, WriteConfirmed,
                    WriteStatus, WriteHeartbeat, WriteLiveness, WriteAnswered, WriteReceived, WriteFlag, WriteConflict
      <4>2. device' = [device EXCEPT ![RobotOf[t]].regression = TRUE]
        BY <4>1 DEF WriteRegression
      <4>3. device \in [Robots -> DeviceView] /\ device[RobotOf[t]] \in DeviceView
        BY <3>1 DEF EdgeInv, TypeOK
      <4> QED
        BY <3>1, <4>2, <4>3 DEF Dev, DeviceView
    <3>4. /\ (Known(t)' <=> Known(t)) /\ Recorded(t)' = Recorded(t) /\ SeenKeys(t)' = SeenKeys(t)
          /\ (IsTerminal(t)' <=> IsTerminal(t)) /\ (GateClosed(RobotOf[t]) => GateClosed(RobotOf[t])')
          /\ task'[t].max = task[t].max /\ task'[t].state = task[t].state
      BY <3>1, GrowsFacts DEF OnlyGrows
    <3>5. Differs(e)' <=> Differs(e)
      BY <3>4 DEF Differs
    <3>6. InOrder(t, e)' <=> InOrder(t, e)
      BY <3>4 DEF InOrder
    <3>7. KeptSound(batch, i + 1) => KeptSound(batch, i)'
      BY <2>0, <2>1, <3>3, <3>4, <3>5, <3>6 DEF KeptSound, RegressionFirst
    <3>8. ~AppliedSound(batch, i + 1)
      BY <2>0, <2>1 DEF AppliedSound
    <3> QED
      BY <2>0, <2>1, <3>1, <3>2, <3>4, <3>5, <3>7, <3>8 DEF ReceivedSound
  <2>5. ASSUME l.kind = "conflicting_terminal"
        PROVE  TwoEnds(l.task)' \/ ContradictionAt(batch, i, l.task)'
    <3>1. l.task \in Tasks
      BY <2>1, <2>5, LineFields
    <3>2. CASE TwoEnds(l.task)
      BY <3>1, <3>2, GrowsFacts
    <3>3. CASE ContradictionAt(batch, i + 1, l.task)
      <4>1. PICK j \in 1 .. i : /\ batch[j].kind = "task_event_received" /\ batch[j].event.task = l.task
                                /\ "conflicting_terminal" \in batch[j].reasons
        BY <2>1, <3>3 DEF ContradictionAt
      <4>2. j # 1
        BY <1>1, <4>1
      <4>3. j - 1 \in 1 .. i - 1 /\ j - 1 \in 1 .. Len(batch') /\ batch'[j - 1] = batch[j - 1 + 1] /\ j - 1 + 1 = j
        BY <1>1, <1>2, <4>1, <4>2
      <4> QED
        BY <2>1, <4>1, <4>3 DEF ContradictionAt
    <3> QED
      BY <2>0, <2>1, <2>5, <3>2, <3>3 DEF LineSound
  <2> QED
    BY <2>1, <2>2, <2>3, <2>4, <2>5 DEF LineSound
<1> QED
  BY <1>1, <1>2 DEF BatchSound

\* A quiet line keeps the invariant.
LEMMA QuietKeeps ==
  ASSUME EdgeInv, TypeOK', WriteLine,
         Line.kind \notin {"task_created", "task_publish_attempted", "task_event_received"}
  PROVE  EdgeInv' /\ OnlyGrows
<1>1. OnlyGrows
  BY QuietLine DEF EdgeInv
<1>2. BatchSound'
  BY <1>1, QuietBatch
<1>3. \A t \in Tasks : EvidenceSound(t)'
  BY <1>1, GrowsSound DEF EdgeInv
<1>4. /\ Line = batch[1] /\ batch # <<>> /\ Len(batch') = Len(batch) - 1 /\ Len(batch) \in Nat
      /\ \A i \in 1 .. Len(batch') : i + 1 \in 2 .. Len(batch) /\ batch'[i] = batch[i + 1]
  BY NextLine DEF EdgeInv, WriteLine
<1>5. SendingSound'
  BY <1>4, WriteLineFrame DEF EdgeInv, SendingSound
<1>6. HandlingSound'
  <2>1. SUFFICES ASSUME handling # NoEvent, handling.seq # 0, handling \notin Recorded(handling.task)
                 PROVE  \E i \in 1 .. Len(batch') : batch'[i].kind = "task_event_received" /\ batch'[i].event = handling
    <3>1. handling # NoEvent => handling.task \in Tasks
      BY Arrivals DEF EdgeInv, TypeOK
    <3> QED
      BY <1>1, <3>1, GrowsFacts, WriteLineFrame DEF HandlingSound
  <2>2. PICK i \in 1 .. Len(batch) : batch[i].kind = "task_event_received" /\ batch[i].event = handling
    BY <2>1 DEF EdgeInv, HandlingSound
  <2>3. i # 1
    BY <1>4, <2>2
  <2>4. i - 1 \in 1 .. Len(batch') /\ batch'[i - 1] = batch[i - 1 + 1] /\ i - 1 + 1 = i
    BY <1>4, <2>2, <2>3
  <2> QED
    BY <2>2, <2>4
<1>7. OneOpenTask'
  BY <1>1, GrowsFacts DEF EdgeInv, OneOpenTask
<1>8. PublicationsAreBounded'
  BY <1>1, WriteLineFrame DEF EdgeInv, PublicationsAreBounded, OnlyGrows
<1>9. AckedEvidenceIsDurable'
  <2>1. \A e \in acked : e.task \in Tasks
    BY Arrivals DEF EdgeInv, TypeOK
  <2> QED
    BY <1>1, <2>1, GrowsFacts, WriteLineFrame DEF EdgeInv, AckedEvidenceIsDurable
<1> QED
  BY <1>1, <1>2, <1>3, <1>5, <1>6, <1>7, <1>8, <1>9 DEF EdgeInv

\* A record that is alone in its batch leaves nothing behind it.
LEMMA LastLine ==
  ASSUME BatchSound, WriteLine, Len(batch) = 1
  PROVE  batch' = <<>> /\ BatchSound'
<1>1. batch' \in Seq(Lines) /\ Len(batch') = 0
  BY NextLine
<1>2. batch' = <<>>
  BY <1>1, EmptySeq
<1> QED
  BY <1>1, <1>2 DEF BatchSound

\* What the record of a new task changes: the task, and nobody's gate.
CreatedStep(t) ==
  /\ Len(batch) = 1 /\ batch[1] = Line /\ CreatedSound(t) /\ device' = device
  /\ task'[t] = NewTask /\ \A u \in Tasks : u # t => task'[u] = task[u]
  /\ \A r \in Robots : GateClosed(r)' <=> GateClosed(r)

\* Writing a task_created line is such a step.
LEMMA CreatedFacts ==
  ASSUME EdgeInv, WriteLine, Line.kind = "task_created"
  PROVE  Line.task \in Tasks /\ CreatedStep(Line.task)
<1>1. PICK t \in Tasks : t = Line.task
  BY NextLine, LineFields DEF EdgeInv
<1>2. Len(batch) = 1 /\ batch[1] = Line /\ CreatedSound(t) /\ RobotOf[t] \in Robots
  BY <1>1, NextLine, TaskFields DEF EdgeInv, LineSound
<1>3. task' = [task EXCEPT ![t] = NewTask] /\ device' = device
  BY <1>1 DEF WriteLine, WriteStarted, WriteSessionLost, WriteCreated, WriteAttempted, WriteConfirmed, WriteStatus,
              WriteHeartbeat, WriteLiveness, WriteRegression, WriteAnswered, WriteReceived, WriteFlag, WriteConflict
<1>4. task'[t] = NewTask /\ \A u \in Tasks : u # t => task'[u] = task[u]
  BY <1>3 DEF EdgeInv, TypeOK
<1>6. /\ Known(t)' /\ Open(t)' /\ ~IsTerminal(t)' /\ Recorded(t)' = {} /\ Recorded(t) = {}
      /\ \A u \in Tasks : u # t => /\ (Known(u)' <=> Known(u)) /\ (Open(u)' <=> Open(u)) /\ (IsTerminal(u)' <=> IsTerminal(u))
                                   /\ Recorded(u)' = Recorded(u)
  BY <1>2, <1>4 DEF Known, Open, IsTerminal, Recorded, NewTask, OpenStates, TerminalKinds, EdgeInv, EvidenceSound,
                    NothingYet, CreatedSound
<1>7. \A r \in Robots : GateClosed(r)' <=> GateClosed(r)
  <2>1. \A r \in Robots : TasksOf(r)' = TasksOf(r) \cup {u \in {t} : RobotOf[u] = r}
    BY <1>6 DEF TasksOf
  <2>2. ~task'[t].conflict /\ task'[t].reasons = {} /\ t \notin TasksOf(RobotOf[t])
    BY <1>2, <1>4 DEF NewTask, TasksOf, CreatedSound
  <2>3. ASSUME NEW r \in Robots
        PROVE  (\E u \in TasksOf(r)' : task'[u].conflict \/ task'[u].reasons \cap EvidenceConflictReasons # {})
                 <=> (\E u \in TasksOf(r) : task[u].conflict \/ task[u].reasons \cap EvidenceConflictReasons # {})
    <3>1. \A u \in TasksOf(r) : u \in Tasks /\ u # t
      BY <1>2 DEF TasksOf, CreatedSound
    <3> QED
      BY <1>4, <2>1, <2>2, <3>1
  <2> QED
    BY <1>3, <2>3 DEF GateClosed
<1> QED
  BY <1>1, <1>2, <1>3, <1>4, <1>7 DEF CreatedStep

\* The record of a new task: it is the only task of its robot that is not over.
LEMMA CreatedKeeps ==
  ASSUME EdgeInv, TypeOK', WriteLine, Line.kind = "task_created"
  PROVE  EdgeInv'
<1>1. PICK t \in Tasks : t = Line.task /\ CreatedStep(t)
  BY CreatedFacts
<1>2. Len(batch) = 1 /\ batch[1] = Line /\ CreatedSound(t) /\ RobotOf[t] \in Robots
  BY <1>1, TaskFields DEF CreatedStep, EdgeInv
<1>3. device' = device
  BY <1>1 DEF CreatedStep
<1>4. task'[t] = NewTask /\ \A u \in Tasks : u # t => task'[u] = task[u]
  BY <1>1 DEF CreatedStep
<1>5. batch' = <<>> /\ BatchSound'
  BY <1>2, LastLine DEF EdgeInv
<1>6. /\ Known(t)' /\ Open(t)' /\ ~IsTerminal(t)' /\ Recorded(t)' = {} /\ Recorded(t) = {}
      /\ \A u \in Tasks : u # t => /\ (Known(u)' <=> Known(u)) /\ (Open(u)' <=> Open(u)) /\ (IsTerminal(u)' <=> IsTerminal(u))
                                   /\ Recorded(u)' = Recorded(u)
  BY <1>2, <1>4 DEF Known, Open, IsTerminal, Recorded, NewTask, OpenStates, TerminalKinds, EdgeInv, EvidenceSound,
                    NothingYet, CreatedSound
<1>7. \A r \in Robots : GateClosed(r)' <=> GateClosed(r)
  BY <1>1 DEF CreatedStep
<1>8. ASSUME NEW u \in Tasks
      PROVE  EvidenceSound(u)'
  <2>1. CASE u = t
    <3>1. ~TwoEnds(t)' /\ StateFollowsMax(t)'
      BY <1>4, <1>6 DEF TwoEnds, StateFollowsMax, NewTask
    <3>2. /\ task'[t].seen = {} /\ task'[t].replays = {} /\ ~task'[t].conflict
          /\ Dev(t)'.boot # 0 /\ Dev(t)'.inc = Incarnation[t]
      BY <1>2, <1>3, <1>4 DEF NewTask, Dev, CreatedSound
    <3> QED
      BY <1>6, <2>1, <3>1, <3>2 DEF EvidenceSound
  <2>2. CASE u # t
    <3>1. EvidenceSound(u) /\ RobotOf[u] \in Robots /\ task'[u] = task[u]
      BY <1>4, <2>2, TaskFields DEF EdgeInv
    <3>2. (TwoEnds(u)' <=> TwoEnds(u)) /\ (StateFollowsMax(u)' <=> StateFollowsMax(u)) /\ (NothingYet(u)' <=> NothingYet(u))
      BY <3>1 DEF TwoEnds, StateFollowsMax, NothingYet, Recorded
    <3>3. (Clean(u)' <=> Clean(u)) /\ \A x \in task[u].seen : InOrder(u, x)' <=> InOrder(u, x)
      BY <1>7, <3>1 DEF Clean, InOrder, Unquestioned, Known, IsTerminal
    <3>4. (Known(u)' <=> Known(u)) /\ (IsTerminal(u)' <=> IsTerminal(u)) /\ Recorded(u)' = Recorded(u) /\ Dev(u)' = Dev(u)
      BY <1>3, <1>6, <2>2 DEF Dev
    <3> QED
      BY <1>7, <3>1, <3>2, <3>3, <3>4 DEF EvidenceSound
  <2> QED
    BY <2>1, <2>2
<1>9. SendingSound'
  <2>1. pc = "sending" => sending # t /\ sending \in Tasks /\ RobotOf[sending] \in Robots
    BY <1>2, TaskFields DEF EdgeInv, SendingSound, CreatedSound, Known, Open, OpenStates
  <2>2. batch # <<>> /\ batch[1].kind = "task_created"
    BY <1>2 DEF WriteLine
  <2> QED
    BY <1>4, <1>5, <1>6, <1>7, <2>1, <2>2, WriteLineFrame DEF EdgeInv, SendingSound
<1>10. HandlingSound'
  <2>1. \A i \in 1 .. Len(batch) : batch[i].kind # "task_event_received"
    BY <1>2
  <2>2. handling # NoEvent => handling.task \in Tasks
    BY Arrivals DEF EdgeInv, TypeOK
  <2> QED
    BY <1>6, <2>1, <2>2, WriteLineFrame DEF EdgeInv, HandlingSound
<1>11. OneOpenTask'
  <2>1. \A u \in Tasks : u # t /\ Open(u) => RobotOf[u] # RobotOf[t]
    BY <1>2 DEF CreatedSound, OpenTasksOf, TasksOf, Known, Open, OpenStates
  <2> QED
    BY <1>6, <2>1 DEF EdgeInv, OneOpenTask
<1>12. PublicationsAreBounded'
  <2>1. published[t] <= 0 /\ MaxAttempts \in Nat
    BY <1>2, EdgeAssumption DEF EdgeInv, EvidenceSound, NothingYet, PublicationsAreBounded, CreatedSound
  <2>2. published' = published /\ task'[t].attempts = 0 /\ task'[t].lateAttempts = 0 /\ ~task'[t].confirmed
    BY <1>4, WriteLineFrame DEF NewTask
  <2> QED
    BY <1>4, <2>1, <2>2 DEF EdgeInv, PublicationsAreBounded
<1>13. AckedEvidenceIsDurable'
  <2>1. \A e \in acked : e.task \in Tasks
    BY Arrivals DEF EdgeInv, TypeOK
  <2> QED
    BY <1>6, <2>1, WriteLineFrame DEF EdgeInv, AckedEvidenceIsDurable
<1> QED
  BY <1>5, <1>8, <1>9, <1>10, <1>11, <1>12, <1>13 DEF EdgeInv

\* What the record of an attempt changes: no evidence, and the attempts of the task.
AttemptStep(t) ==
  /\ Len(batch) = 1 /\ batch[1] = Line /\ AttemptSound(Line) /\ Line.task = t /\ Line.late \in BOOLEAN
  /\ Open(t) /\ SameEvidence
  /\ task'[t].attempts = task[t].attempts + 1
  /\ task'[t].lateAttempts = IF Line.late THEN task[t].lateAttempts + 1 ELSE task[t].lateAttempts
  /\ \A u \in Tasks : u # t => task'[u] = task[u]

\* Writing a task_publish_attempted line is such a step.
LEMMA AttemptFacts ==
  ASSUME EdgeInv, WriteLine, Line.kind = "task_publish_attempted"
  PROVE  Line.task \in Tasks /\ AttemptStep(Line.task)
<1>1. PICK t \in Tasks : t = Line.task
  BY NextLine, LineFields DEF EdgeInv
<1>2. Len(batch) = 1 /\ batch[1] = Line /\ AttemptSound(Line) /\ Line.late \in BOOLEAN /\ pc = "sending" /\ sending = t
  BY <1>1, NextLine, LineFields DEF EdgeInv, LineSound, AttemptSound
<1>3. /\ task' = [task EXCEPT ![t].attempts = @ + 1, ![t].age.attempt = 0,
                              ![t].lateAttempts = IF Line.late THEN @ + 1 ELSE @]
      /\ device' = device
  BY <1>1 DEF WriteLine, WriteStarted, WriteSessionLost, WriteCreated, WriteAttempted, WriteConfirmed, WriteStatus,
              WriteHeartbeat, WriteLiveness, WriteRegression, WriteAnswered, WriteReceived, WriteFlag, WriteConflict
<1>4. task[t] \in TaskView /\ task \in [Tasks -> TaskView]
  BY TaskFields DEF EdgeInv, TypeOK
<1>5. /\ task'[t].state = task[t].state /\ task'[t].max = task[t].max /\ task'[t].seen = task[t].seen
      /\ task'[t].replays = task[t].replays /\ task'[t].conflict = task[t].conflict
      /\ task'[t].reasons = task[t].reasons /\ task'[t].confirmed = task[t].confirmed
      /\ task'[t].attempts = task[t].attempts + 1
      /\ task'[t].lateAttempts = IF Line.late THEN task[t].lateAttempts + 1 ELSE task[t].lateAttempts
      /\ \A u \in Tasks : u # t => task'[u] = task[u]
  BY <1>3, <1>4 DEF TaskView
<1>6. Open(t) /\ Known(t)
  BY <1>2 DEF EdgeInv, SendingSound, Open, Known, OpenStates
<1>7. SameEvidence
  BY <1>3, <1>5, <1>6 DEF SameEvidence
<1> QED
  BY <1>1, <1>2, <1>5, <1>6, <1>7 DEF AttemptStep

\* The record of an attempt: it is counted before the request is sent.
LEMMA AttemptKeeps ==
  ASSUME EdgeInv, TypeOK', WriteLine, Line.kind = "task_publish_attempted"
  PROVE  EdgeInv'
<1>1. PICK t \in Tasks : t = Line.task /\ AttemptStep(t)
  BY AttemptFacts
<1>2. Len(batch) = 1 /\ batch[1] = Line /\ AttemptSound(Line) /\ Line.late \in BOOLEAN /\ pc = "sending" /\ sending = t
  BY <1>1 DEF AttemptStep, AttemptSound
<1>4. task[t] \in TaskView
  BY TaskFields DEF EdgeInv
<1>5. /\ task'[t].state = task[t].state /\ task'[t].confirmed = task[t].confirmed
      /\ task'[t].attempts = task[t].attempts + 1
      /\ task'[t].lateAttempts = IF Line.late THEN task[t].lateAttempts + 1 ELSE task[t].lateAttempts
      /\ \A u \in Tasks : u # t => task'[u] = task[u]
  BY <1>1 DEF AttemptStep, SameEvidence
<1>7. SameEvidence
  BY <1>1 DEF AttemptStep
<1>8. batch' = <<>> /\ BatchSound'
  BY <1>2, LastLine DEF EdgeInv
<1>9. \A u \in Tasks : EvidenceSound(u)'
  BY <1>7, SameEvidenceSound DEF EdgeInv
<1>10. task[t].attempts \in Nat /\ published[t] \in Nat /\ task[t].lateAttempts \in Nat /\ MaxAttempts \in Nat
  BY <1>4, EdgeAssumption DEF EdgeInv, TypeOK, TaskView
<1>11. PublicationsAreBounded'
  <2>1. published[t] <= task[t].attempts + 1 /\ task[t].attempts + 1 <= MaxAttempts
    BY <1>1, <1>2, <1>10 DEF EdgeInv, PublicationsAreBounded, AttemptSound
  <2>2. (IF Line.late THEN task[t].lateAttempts + 1 ELSE task[t].lateAttempts) <= 1
    BY <1>1, <1>2, <1>10 DEF EdgeInv, PublicationsAreBounded, AttemptSound
  <2>3. published' = published
    BY WriteLineFrame
  <2> QED
    BY <1>5, <2>1, <2>2, <2>3 DEF EdgeInv, PublicationsAreBounded
<1>12. SendingSound'
  <2>1. RobotOf[t] \in Robots /\ pc' = pc /\ sending' = sending /\ published' = published
    BY TaskFields, WriteLineFrame DEF EdgeInv
  <2>2. Open(t)' /\ task'[t].state # "BLOCKED_AWAITING_HUMAN" /\ ~GateClosed(RobotOf[t])'
    BY <1>2, <1>5, <1>7, <2>1, SameFacts DEF EdgeInv, SendingSound
  <2>3. published'[t] < task'[t].attempts
    BY <1>5, <1>10, <2>1 DEF EdgeInv, PublicationsAreBounded
  <2> QED
    BY <1>2, <1>8, <2>1, <2>2, <2>3 DEF SendingSound
<1>13. HandlingSound'
  <2>1. \A i \in 1 .. Len(batch) : batch[i].kind # "task_event_received"
    BY <1>2
  <2>2. handling # NoEvent => handling.task \in Tasks
    BY Arrivals DEF EdgeInv, TypeOK
  <2> QED
    BY <1>7, <2>1, <2>2, SameFacts, WriteLineFrame DEF EdgeInv, HandlingSound
<1>14. OneOpenTask'
  BY <1>7, SameFacts DEF EdgeInv, OneOpenTask
<1>15. AckedEvidenceIsDurable'
  <2>1. \A e \in acked : e.task \in Tasks
    BY Arrivals DEF EdgeInv, TypeOK
  <2> QED
    BY <1>7, <2>1, SameFacts, WriteLineFrame DEF EdgeInv, AckedEvidenceIsDurable
<1> QED
  BY <1>8, <1>9, <1>11, <1>12, <1>13, <1>14, <1>15 DEF EdgeInv

\* order_key is a total order.
LEMMA AboveOrder ==
  ASSUME NEW k \in Nat \X Nat, NEW l \in Nat \X Nat, NEW m \in Nat \X Nat
  PROVE  /\ ~Above(k, k)
         /\ ~Above(k, l) /\ Above(m, l) => ~Above(k, m)
         /\ ~Above(k, l) /\ ~Above(l, k) => k = l
BY DEF Above

\* The fields of the task k after the line l recorded an event (_apply of cases.py).
FieldsAfter(k, l, k2) ==
  /\ k2.state = IF l.disposition = "applied" THEN l.after ELSE k.state
  /\ k2.max = IF l.disposition = "applied" THEN Key(l.event) ELSE k.max
  /\ k2.seen = IF l.disposition \in {"evidence", "applied"} THEN k.seen \cup {l.event} ELSE k.seen
  /\ k2.replays = IF l.disposition = "conflicting_replay" THEN k.replays \cup {l.event} ELSE k.replays
  /\ Contradicts(l) => k2.conflict
  /\ k2.conflict => k.conflict \/ Contradicts(l)
  /\ k.conflict => k2.conflict \/ (l.disposition = "applied" /\ l.event.kind \in TerminalKinds)
  /\ l.reasons \subseteq k2.reasons /\ k.reasons \cap StickyReasons \subseteq k2.reasons
  /\ k2.attempts = k.attempts /\ k2.lateAttempts = k.lateAttempts /\ k2.confirmed = k.confirmed

\* AfterEvidence computes these fields.
LEMMA AfterEvidenceFields ==
  ASSUME NEW k \in TaskView, NEW l \in Lines, l.kind = "task_event_received"
  PROVE  FieldsAfter(k, l, AfterEvidence(k, l))
<1> DEFINE a == Answered(k)
           known == [a EXCEPT !.bootFlagged = FALSE, !.reasons = (@ \ PresenceReasons) \cup l.reasons,
                              !.conflict = @ \/ Contradicts(l)]
<1>1. /\ a.state = k.state /\ a.max = k.max /\ a.seen = k.seen /\ a.replays = k.replays /\ a.conflict = k.conflict
      /\ a.reasons = k.reasons /\ a.attempts = k.attempts /\ a.lateAttempts = k.lateAttempts /\ a.confirmed = k.confirmed
      /\ a \in TaskView
  BY AnsweredType DEF Answered, TaskView
<1>2. l.disposition \in Dispositions /\ l.reasons \subseteq StickyReasons
  BY LineFields
<1>3. StickyReasons \cap ProgressReasons = {} /\ StickyReasons \cap PresenceReasons = {}
  BY DEF StickyReasons, EvidenceConflictReasons, ProgressReasons, PresenceReasons
<1> HIDE DEF a
<1>4. /\ known.state = k.state /\ known.max = k.max /\ known.seen = k.seen /\ known.replays = k.replays
      /\ known.conflict = (k.conflict \/ Contradicts(l)) /\ known.reasons = (k.reasons \ PresenceReasons) \cup l.reasons
      /\ known.attempts = k.attempts /\ known.lateAttempts = k.lateAttempts /\ known.confirmed = k.confirmed
      /\ DOMAIN known = DOMAIN k
  BY <1>1 DEF TaskView
<1>5. k.conflict \in BOOLEAN /\ Contradicts(l) \in BOOLEAN /\ k.reasons \subseteq Clearable \cup StickyReasons
  BY DEF TaskView, Contradicts
<1>6. CASE l.disposition = "duplicate"
  <2>1. AfterEvidence(k, l) = known
    BY <1>6 DEF AfterEvidence, a
  <2> HIDE DEF known
  <2> QED
    BY <1>2, <1>3, <1>4, <1>5, <1>6, <2>1 DEF FieldsAfter
<1>7. CASE l.disposition = "conflicting_replay"
  <2>1. AfterEvidence(k, l) = [known EXCEPT !.replays = @ \cup {l.event}]
    BY <1>7 DEF AfterEvidence, a
  <2> HIDE DEF known
  <2> QED
    BY <1>2, <1>3, <1>4, <1>5, <1>7, <2>1 DEF TaskView, FieldsAfter
<1>8. CASE l.disposition = "evidence"
  <2>1. AfterEvidence(k, l) = [known EXCEPT !.seen = @ \cup {l.event}]
    BY <1>8 DEF AfterEvidence, a
  <2> HIDE DEF known
  <2> QED
    BY <1>2, <1>3, <1>4, <1>5, <1>8, <2>1 DEF TaskView, FieldsAfter
<1>9. CASE l.disposition = "applied"
  <2>1. AfterEvidence(k, l) =
          [known EXCEPT !.seen = @ \cup {l.event}, !.reasons = @ \ ProgressReasons,
                        !.probed = {}, !.age.progress = 0, !.age.probe = Window,
                        !.max = Key(l.event), !.state = l.after,
                        !.conflict = IF l.event.kind \in TerminalKinds THEN Contradicts(l) ELSE @]
    BY <1>9 DEF AfterEvidence, a
  <2> HIDE DEF known
  <2> QED
    BY <1>2, <1>3, <1>4, <1>5, <1>9, <2>1 DEF TaskView, FieldsAfter
<1> QED
  BY <1>2, <1>6, <1>7, <1>8, <1>9 DEF Dispositions

\* What a task_event_received line does to the evidence of its task.
EvidenceStep(l, e, t) ==
  /\ device' = device /\ \A u \in Tasks : u # t => task'[u] = task[u]
  /\ ReceivedSound(batch, 1) /\ batch[1] = l
  /\ task'[t].state = IF l.disposition = "applied" THEN l.after ELSE task[t].state
  /\ task'[t].max = IF l.disposition = "applied" THEN Key(e) ELSE task[t].max
  /\ task'[t].seen = IF l.disposition \in {"evidence", "applied"} THEN task[t].seen \cup {e} ELSE task[t].seen
  /\ task'[t].replays = IF l.disposition = "conflicting_replay" THEN task[t].replays \cup {e} ELSE task[t].replays
  /\ Recorded(t)' = Recorded(t) \cup {e}
  /\ task'[t].conflict <=> (task[t].conflict \/ Contradicts(l))
  /\ l.reasons \subseteq task'[t].reasons /\ task[t].reasons \cap StickyReasons \subseteq task'[t].reasons
  /\ task'[t].attempts = task[t].attempts /\ task'[t].lateAttempts = task[t].lateAttempts
  /\ task'[t].confirmed = task[t].confirmed

\* Writing a task_event_received line is such a step.
LEMMA ReceivedFacts ==
  ASSUME EdgeInv, WriteLine, NEW l \in Lines, l = Line, l.kind = "task_event_received",
         NEW e \in Events, e = l.event, NEW t \in Tasks, t = e.task
  PROVE  EvidenceStep(l, e, t)
<1>1. task \in [Tasks -> TaskView] /\ task[t] \in TaskView
  BY DEF EdgeInv, TypeOK
<1>2. task' = [task EXCEPT ![t] = AfterEvidence(task[t], l)] /\ device' = device
  BY DEF WriteLine, WriteStarted, WriteSessionLost, WriteCreated, WriteAttempted, WriteConfirmed, WriteStatus,
         WriteHeartbeat, WriteLiveness, WriteRegression, WriteAnswered, WriteReceived, WriteFlag, WriteConflict
<1>3. task'[t] = AfterEvidence(task[t], l) /\ \A u \in Tasks : u # t => task'[u] = task[u]
  BY <1>1, <1>2
<1>4. LineSound(batch, 1) /\ batch[1] = l
  BY NextLine DEF EdgeInv
<1>5. ReceivedSound(batch, 1) /\ l.disposition \in Dispositions
  BY <1>4, LineFields DEF LineSound
<1>6. /\ task'[t].state = IF l.disposition = "applied" THEN l.after ELSE task[t].state
      /\ task'[t].max = IF l.disposition = "applied" THEN Key(e) ELSE task[t].max
      /\ task'[t].seen = IF l.disposition \in {"evidence", "applied"} THEN task[t].seen \cup {e} ELSE task[t].seen
      /\ task'[t].replays = IF l.disposition = "conflicting_replay" THEN task[t].replays \cup {e} ELSE task[t].replays
      /\ Contradicts(l) => task'[t].conflict
      /\ task'[t].conflict => task[t].conflict \/ Contradicts(l)
      /\ task[t].conflict => task'[t].conflict \/ (l.disposition = "applied" /\ e.kind \in TerminalKinds)
      /\ l.reasons \subseteq task'[t].reasons /\ task[t].reasons \cap StickyReasons \subseteq task'[t].reasons
      /\ task'[t].attempts = task[t].attempts /\ task'[t].lateAttempts = task[t].lateAttempts
      /\ task'[t].confirmed = task[t].confirmed
  <2>1. FieldsAfter(task[t], l, task'[t])
    BY <1>1, <1>3, AfterEvidenceFields
  <2> QED
    BY <2>1 DEF FieldsAfter
<1>7. Recorded(t)' = Recorded(t) \cup {e}
  <2>1. l.disposition = "duplicate" => e \in Recorded(t)
    BY <1>4, <1>5 DEF ReceivedSound
  <2> QED
    BY <1>5, <1>6, <2>1 DEF Recorded, Dispositions
<1>8. task[t].conflict => task'[t].conflict
  <2>1. SUFFICES ASSUME task[t].conflict, l.disposition = "applied", e.kind \in TerminalKinds
                 PROVE  Contradicts(l)
    BY <1>6
  <2>2. PICK x, y \in Recorded(t) : x.kind \in TerminalKinds /\ y.kind \in TerminalKinds /\ x.kind # y.kind
    BY <2>1 DEF EdgeInv, EvidenceSound, TwoEnds
  <2>3. Differs(e)
    BY <2>1, <2>2 DEF Differs
  <2> QED
    BY <1>4, <1>5, <2>1, <2>3 DEF ReceivedSound, AppliedSound, Contradicts
<1> QED
  BY <1>2, <1>3, <1>4, <1>5, <1>6, <1>7, <1>8 DEF EvidenceStep

\* What is held against a task, and with it a closed gate, outlives every event.
LEMMA ReceivedGate ==
  ASSUME EdgeInv, WriteLine, NEW l \in Lines, l = Line, l.kind = "task_event_received",
         NEW e \in Events, e = l.event, NEW t \in Tasks, t = e.task
  PROVE  /\ \A u \in Tasks : (Known(u)' <=> Known(u)) /\ Recorded(u) \subseteq Recorded(u)' /\ (TwoEnds(u) => TwoEnds(u)')
         /\ \A r \in Robots : GateClosed(r) => GateClosed(r)'
         /\ task'[t].conflict \/ l.reasons \cap EvidenceConflictReasons # {} \/ Dev(t).regression => GateClosed(RobotOf[t])'
<1>1. EvidenceStep(l, e, t)
  BY ReceivedFacts
<1>2. Known(t) /\ Known(t)'
  <2>1. Known(t)
    BY <1>1 DEF ReceivedSound, EvidenceStep
  <2>2. l.disposition = "applied" => l.after = StateShowing(e) /\ e.kind \in Kinds
    BY <1>1, Arrivals DEF ReceivedSound, AppliedSound, EvidenceStep
  <2> QED
    BY <1>1, <2>1, <2>2 DEF Known, StateShowing, Kinds, TerminalKinds, EvidenceStep
<1>3. \A u \in Tasks : (Known(u)' <=> Known(u)) /\ Recorded(u) \subseteq Recorded(u)'
  BY <1>1, <1>2 DEF Known, Recorded, EvidenceStep
<1>4. \A u \in Tasks : TwoEnds(u) => TwoEnds(u)'
  BY <1>3 DEF TwoEnds
<1>5. \A r \in Robots : TasksOf(r)' = TasksOf(r)
  BY <1>3 DEF TasksOf
<1>6. EvidenceConflictReasons \subseteq StickyReasons
  BY DEF StickyReasons
<1>7. \A u \in Tasks : /\ task[u].conflict => task'[u].conflict
                       /\ task[u].reasons \cap EvidenceConflictReasons \subseteq task'[u].reasons
  BY <1>1, <1>6 DEF EvidenceStep
<1>8. \A r \in Robots : GateClosed(r) => GateClosed(r)'
  <2>1. SUFFICES ASSUME NEW r \in Robots, GateClosed(r), ~device[r].regression
                 PROVE  \E u \in TasksOf(r)' : task'[u].conflict \/ task'[u].reasons \cap EvidenceConflictReasons # {}
    BY <1>1 DEF GateClosed, EvidenceStep
  <2>2. PICK u \in TasksOf(r) : task[u].conflict \/ task[u].reasons \cap EvidenceConflictReasons # {}
    BY <2>1 DEF GateClosed
  <2>3. u \in Tasks /\ u \in TasksOf(r)'
    BY <1>5, <2>2 DEF TasksOf
  <2> QED
    BY <1>7, <2>2, <2>3
<1>9. task'[t].conflict \/ l.reasons \cap EvidenceConflictReasons # {} \/ Dev(t).regression => GateClosed(RobotOf[t])'
  <2>1. t \in TasksOf(RobotOf[t])'
    BY <1>2 DEF TasksOf
  <2> QED
    BY <1>1, <2>1 DEF GateClosed, Dev, EvidenceStep
<1> QED
  BY <1>3, <1>4, <1>8, <1>9

\* The evidence of a task stays sound when an event is recorded.
LEMMA ReceivedEvidence ==
  ASSUME EdgeInv, TypeOK', WriteLine, NEW l \in Lines, l = Line, l.kind = "task_event_received",
         NEW e \in Events, e = l.event, NEW t \in Tasks, t = e.task
  PROVE  EvidenceSound(t)'
<1>1. EvidenceStep(l, e, t)
  BY ReceivedFacts
<1>2. /\ Known(t) /\ Known(t)' /\ (GateClosed(RobotOf[t]) => GateClosed(RobotOf[t])') /\ (TwoEnds(t) => TwoEnds(t)')
      /\ task'[t].conflict \/ l.reasons \cap EvidenceConflictReasons # {} \/ Dev(t).regression => GateClosed(RobotOf[t])'
      /\ RobotOf[t] \in Robots
  BY <1>1, ReceivedGate, TaskFields DEF EdgeInv, EvidenceStep, ReceivedSound
<1>3. EvidenceSound(t) /\ ReceivedSound(batch, 1) /\ batch[1] = l /\ l.disposition \in Dispositions
  BY <1>1, LineFields DEF EdgeInv, EvidenceStep
<1>4. l.disposition = "applied" => AppliedSound(batch, 1)
  BY <1>3 DEF ReceivedSound
<1>5. l.disposition = "evidence" => KeptSound(batch, 1)
  BY <1>3 DEF ReceivedSound
<1>6. "conflicting_terminal" \in l.reasons <=> Contradicts(l)
  BY DEF Contradicts
<1>7. Contradicts(l) => Differs(e)
  BY <1>3, <1>6 DEF ReceivedSound
<1>8. Differs(e) => TwoEnds(t)'
  BY <1>1 DEF Differs, TwoEnds, EvidenceStep
<1>9. task'[t].conflict => TwoEnds(t)'
  BY <1>1, <1>2, <1>3, <1>7, <1>8 DEF EvidenceStep, EvidenceSound
<1>10. /\ Key(e) \in Nat \X Nat /\ task[t].max \in Nat \X Nat /\ e.kind \in Kinds
       /\ \A x \in task[t].seen : x \in Events /\ Key(x) \in Nat \X Nat
  BY Arrivals, TaskFields DEF EdgeInv
<1>11. Clean(t)' => Clean(t)
  BY <1>1, <1>2 DEF Clean, Unquestioned, EvidenceStep
<1>12. \/ ~Clean(t)'
       \/ ~Contradicts(l) /\ l.reasons \cap EvidenceConflictReasons = {}
          /\ ("session_regression" \in l.reasons => ~Dev(t).regression)
  <2>1. l.reasons \subseteq StickyReasons
    BY LineFields
  <2>2. Contradicts(l) => task'[t].conflict
    BY <1>1 DEF EvidenceStep
  <2>3. CASE ~GateClosed(RobotOf[t])'
    BY <1>2, <2>2, <2>3
  <2>4. CASE Unquestioned(t)'
    <3>1. ~task'[t].conflict /\ task'[t].reasons \cap StickyReasons = {} /\ l.reasons \subseteq task'[t].reasons
      BY <1>1, <2>4 DEF Unquestioned, EvidenceStep
    <3>2. l.reasons = {}
      BY <2>1, <3>1
    <3> QED
      BY <2>2, <3>1, <3>2
  <2> QED
    BY <2>3, <2>4 DEF Clean
<1>13. CASE l.disposition = "applied"
  <2>1. /\ Open(t) /\ e.inc = Incarnation[t] /\ Key(e) \notin SeenKeys(t) /\ Above(Key(e), task[t].max)
        /\ l.after = StateShowing(e) /\ (Differs(e) => Contradicts(l))
    BY <1>3, <1>4, <1>6, <1>13 DEF AppliedSound
  <2>2. /\ task'[t].seen = task[t].seen \cup {e} /\ task'[t].replays = task[t].replays
        /\ task'[t].state = StateShowing(e) /\ task'[t].max = Key(e)
    BY <1>1, <1>13, <2>1 DEF EvidenceStep
  <2>3. StateFollowsMax(t)'
    BY <2>2 DEF StateFollowsMax
  <2>4. \A x, y \in task'[t].seen : Key(x) = Key(y) => x = y
    BY <1>3, <2>1, <2>2 DEF EvidenceSound, SeenKeys
  <2>5. IsTerminal(t)' => \E x \in task'[t].seen : x.kind = task'[t].state
    BY <1>10, <2>2 DEF IsTerminal, StateShowing, Kinds, TerminalKinds
  <2>6. ~GateClosed(RobotOf[t])' => task'[t].replays = {} /\ ~TwoEnds(t)'
    <3>1. SUFFICES ASSUME ~GateClosed(RobotOf[t])'
                   PROVE  task'[t].replays = {} /\ ~TwoEnds(t)'
      OBVIOUS
    <3>2. ~task'[t].conflict /\ ~Contradicts(l) /\ ~Differs(e) /\ task[t].replays = {} /\ ~TwoEnds(t)
      BY <1>1, <1>2, <1>3, <2>1, <3>1 DEF EvidenceStep, EvidenceSound
    <3>3. ~TwoEnds(t)'
      BY <1>1, <3>2 DEF TwoEnds, Differs, EvidenceStep
    <3> QED
      BY <2>2, <3>2, <3>3
  <2>7. Clean(t)' => \A x \in task'[t].seen : x.inc = Incarnation[t] /\ InOrder(t, x)'
    <3>1. SUFFICES ASSUME Clean(t), NEW x \in task[t].seen \cup {e}
                   PROVE  x.inc = Incarnation[t] /\ ~Above(Key(x), Key(e))
      BY <1>11, <2>2 DEF InOrder
    <3>2. CASE x = e
      BY <1>10, <2>1, <3>2, AboveOrder
    <3>3. CASE x \in task[t].seen
      <4>1. x.inc = Incarnation[t] /\ InOrder(t, x)
        BY <1>3, <3>1, <3>3 DEF EvidenceSound
      <4>2. ~IsTerminal(t)
        BY <2>1 DEF Open, IsTerminal, OpenStates, TerminalKinds
      <4>3. ~Above(Key(x), task[t].max)
        BY <4>1, <4>2 DEF InOrder
      <4> QED
        BY <1>10, <2>1, <3>3, <4>1, <4>3, AboveOrder
    <3> QED
      BY <3>1, <3>2, <3>3
  <2> QED
    BY <1>1, <1>2, <1>3, <1>9, <2>3, <2>4, <2>5, <2>6, <2>7 DEF EvidenceSound, EvidenceStep, Dev, ReceivedSound
<1>14. CASE l.disposition # "applied"
  <2>1. /\ task'[t].state = task[t].state /\ task'[t].max = task[t].max /\ task[t].seen \subseteq task'[t].seen
        /\ (IsTerminal(t)' <=> IsTerminal(t))
    BY <1>1, <1>14 DEF EvidenceStep, IsTerminal
  <2>2. /\ l.disposition = "evidence" => Key(e) \notin SeenKeys(t) /\ task'[t].seen = task[t].seen \cup {e}
        /\ l.disposition # "evidence" => task'[t].seen = task[t].seen
    BY <1>1, <1>3, <1>5, <1>14 DEF KeptSound, EvidenceStep
  <2>3. StateFollowsMax(t)'
    BY <1>2, <1>3, <2>1 DEF StateFollowsMax, EvidenceSound
  <2>4. \A x, y \in task'[t].seen : Key(x) = Key(y) => x = y
    BY <1>3, <2>2 DEF EvidenceSound, SeenKeys
  <2>5. IsTerminal(t)' => \E x \in task'[t].seen : x.kind = task'[t].state
    BY <1>3, <2>1 DEF EvidenceSound
  <2>6. ~GateClosed(RobotOf[t])' => task'[t].replays = {} /\ ~TwoEnds(t)'
    <3>1. SUFFICES ASSUME ~GateClosed(RobotOf[t])'
                   PROVE  task'[t].replays = {} /\ ~TwoEnds(t)'
      OBVIOUS
    <3>2. /\ ~task'[t].conflict /\ ~Contradicts(l) /\ task[t].replays = {} /\ ~TwoEnds(t) /\ ~Dev(t).regression
          /\ l.reasons \cap EvidenceConflictReasons = {}
      BY <1>1, <1>2, <1>3, <3>1 DEF EvidenceStep, EvidenceSound
    <3>3. l.disposition # "conflicting_replay"
      BY <1>3, <3>2 DEF ReceivedSound, EvidenceConflictReasons
    <3>4. l.disposition = "evidence" => ~Differs(e)
      BY <1>2, <1>3, <1>5, <1>6, <3>1, <3>2 DEF KeptSound, RegressionFirst
    <3>5. l.disposition = "duplicate" => Recorded(t)' = Recorded(t)
      BY <1>1, <1>3 DEF ReceivedSound, EvidenceStep
    <3>6. ~TwoEnds(t)'
      <4>1. CASE l.disposition = "duplicate"
        BY <3>2, <3>5, <4>1 DEF TwoEnds
      <4>2. CASE l.disposition = "evidence"
        BY <1>1, <3>2, <3>4, <4>2 DEF TwoEnds, Differs, EvidenceStep
      <4> QED
        BY <1>3, <1>14, <3>3, <4>1, <4>2 DEF Dispositions
    <3> QED
      BY <1>1, <3>2, <3>3, <3>6 DEF EvidenceStep
  <2>7. Clean(t)' => \A x \in task'[t].seen : x.inc = Incarnation[t] /\ InOrder(t, x)'
    <3>1. SUFFICES ASSUME Clean(t)', Clean(t), NEW x \in task'[t].seen
                   PROVE  x.inc = Incarnation[t] /\ InOrder(t, x)
      BY <1>11, <2>1 DEF InOrder
    <3>2. CASE x \in task[t].seen
      BY <1>3, <3>1, <3>2 DEF EvidenceSound
    <3>3. CASE x \notin task[t].seen
      <4>1. x = e /\ l.disposition = "evidence"
        BY <2>2, <3>1, <3>3
      <4> QED
        BY <1>3, <1>5, <1>6, <1>12, <3>1, <4>1 DEF KeptSound, RegressionFirst
    <3> QED
      BY <3>2, <3>3
  <2> QED
    BY <1>1, <1>2, <1>3, <1>9, <2>3, <2>4, <2>5, <2>6, <2>7 DEF EvidenceSound, EvidenceStep, Dev, ReceivedSound
<1> QED
  BY <1>13, <1>14

\* A recorded event keeps the invariant.
LEMMA ReceivedKeeps ==
  ASSUME EdgeInv, TypeOK', WriteLine, Line.kind = "task_event_received"
  PROVE  EdgeInv'
<1>1. PICK l \in Lines, e \in Events, t \in Tasks : l = Line /\ e = l.event /\ t = e.task /\ l.kind = "task_event_received"
  BY NextLine, LineFields, Arrivals DEF EdgeInv
<1>2. EvidenceStep(l, e, t) /\ EvidenceSound(t)'
  BY <1>1, ReceivedFacts, ReceivedEvidence
<1>3. /\ \A u \in Tasks : (Known(u)' <=> Known(u)) /\ Recorded(u) \subseteq Recorded(u)' /\ (TwoEnds(u) => TwoEnds(u)')
      /\ \A r \in Robots : GateClosed(r) => GateClosed(r)'
  BY <1>1, ReceivedGate
<1>4. /\ Line = batch[1] /\ batch # <<>> /\ Len(batch') = Len(batch) - 1 /\ Len(batch) \in Nat /\ batch' \in Seq(Lines)
      /\ \A i \in 1 .. Len(batch') : i + 1 \in 2 .. Len(batch) /\ batch'[i] = batch[i + 1] /\ LineSound(batch, i + 1)
  BY NextLine DEF EdgeInv, WriteLine
<1>5. ASSUME NEW u \in Tasks
      PROVE  EvidenceSound(u)'
  <2>1. CASE u = t
    BY <1>2, <2>1
  <2>2. CASE u # t
    <3>1. EvidenceSound(u) /\ RobotOf[u] \in Robots /\ task'[u] = task[u] /\ device' = device
      BY <1>2, <2>2, TaskFields DEF EdgeInv, EvidenceStep
    <3>2. (TwoEnds(u)' <=> TwoEnds(u)) /\ (StateFollowsMax(u)' <=> StateFollowsMax(u)) /\ (NothingYet(u)' <=> NothingYet(u))
      BY <3>1 DEF TwoEnds, StateFollowsMax, NothingYet, Recorded
    <3>3. (Clean(u)' => Clean(u)) /\ \A x \in task[u].seen : InOrder(u, x)' <=> InOrder(u, x)
      BY <1>3, <3>1 DEF Clean, InOrder, Unquestioned, Known, IsTerminal
    <3>4. (Known(u)' <=> Known(u)) /\ (IsTerminal(u)' <=> IsTerminal(u)) /\ Recorded(u)' = Recorded(u) /\ Dev(u)' = Dev(u)
      BY <3>1 DEF Known, IsTerminal, Recorded, Dev
    <3> QED
      BY <1>3, <3>1, <3>2, <3>3, <3>4 DEF EvidenceSound
  <2> QED
    BY <2>1, <2>2
<1>6. BatchSound'
  <2>1. SUFFICES ASSUME NEW i \in 1 .. Len(batch')
                 PROVE  LineSound(batch, i)'
    BY <1>4 DEF BatchSound
  <2>2. PICK k \in Lines : k = batch'[i] /\ k = batch[i + 1]
    <3>1. batch'[i] = batch[i + 1]
      BY <1>4, Zenon
    <3>2. batch'[i] \in Lines
      BY <1>4, ElementOfSeq, Zenon
    <3> QED
      BY <3>1, <3>2
  <2>3. LineSound(batch, i + 1) /\ i \in Nat /\ i >= 1 /\ Len(batch) # 1
    <3>1. i \in 1 .. Len(batch) - 1 /\ Len(batch) \in Nat
      BY <1>4
    <3>2. LineSound(batch, i + 1)
      BY <1>4, Zenon
    <3> QED
      BY <3>1, <3>2
  <2>4. k.kind \notin {"task_created", "task_publish_attempted", "device_status"}
    BY <2>2, <2>3 DEF LineSound
  <2>5. k.kind # "task_event_received"
    <3>1. SUFFICES ASSUME k.kind = "task_event_received"
                   PROVE  FALSE
      OBVIOUS
    <3>2. i = 1 /\ batch[1] = LineRegression(RobotOf[k.event.task])
      BY <2>2, <2>3, <3>1 DEF LineSound, ReceivedSound
    <3> QED
      BY <1>1, <1>4, <3>2 DEF LineRegression
  <2>6. k.kind = "task_publish_confirmed" => published'[k.task] > 0
    BY <2>2, <2>3, WriteLineFrame DEF LineSound
  <2>7. k.kind = "conflicting_terminal" => TwoEnds(k.task)' \/ ContradictionAt(batch, i, k.task)'
    <3>1. SUFFICES ASSUME k.kind = "conflicting_terminal", ~TwoEnds(k.task)'
                   PROVE  ContradictionAt(batch, i, k.task)'
      OBVIOUS
    <3>2. k.task \in Tasks /\ ~TwoEnds(k.task)
      BY <1>3, <3>1, LineFields
    <3>3. PICK j \in 1 .. i : /\ batch[j].kind = "task_event_received" /\ batch[j].event.task = k.task
                              /\ "conflicting_terminal" \in batch[j].reasons
      BY <2>2, <2>3, <3>1, <3>2 DEF LineSound, ContradictionAt
    <3>4. j # 1
      <4>1. SUFFICES ASSUME j = 1
                     PROVE  TwoEnds(k.task)'
        BY <3>1
      <4>2. k.task = t /\ Differs(e)
        BY <1>1, <1>2, <1>4, <3>3, <4>1 DEF EvidenceStep, ReceivedSound
      <4> QED
        BY <1>1, <1>2, <4>2 DEF Differs, TwoEnds, EvidenceStep
    <3>5. j - 1 \in 1 .. i - 1 /\ j - 1 \in 1 .. Len(batch') /\ batch'[j - 1] = batch[j - 1 + 1] /\ j - 1 + 1 = j
      BY <1>4, <2>3, <3>3, <3>4
    <3> QED
      BY <3>3, <3>5 DEF ContradictionAt
  <2> QED
    BY <2>2, <2>4, <2>5, <2>6, <2>7 DEF LineSound
<1>7. SendingSound'
  <2>1. pc # "sending"
    BY <1>1, <1>4 DEF EdgeInv, SendingSound
  <2> QED
    BY <2>1, WriteLineFrame DEF EdgeInv, SendingSound
<1>8. HandlingSound'
  <2>1. SUFFICES ASSUME handling # NoEvent, handling.seq # 0, handling \notin Recorded(handling.task)'
                 PROVE  \E i \in 1 .. Len(batch') : batch'[i].kind = "task_event_received" /\ batch'[i].event = handling
    BY WriteLineFrame DEF HandlingSound
  <2>2. handling.task \in Tasks /\ handling' = handling
    BY <2>1, Arrivals, WriteLineFrame DEF EdgeInv, TypeOK
  <2>3. PICK i \in 1 .. Len(batch) : batch[i].kind = "task_event_received" /\ batch[i].event = handling
    BY <1>3, <2>1, <2>2 DEF EdgeInv, HandlingSound
  <2>4. i # 1
    <3>1. SUFFICES ASSUME i = 1
                   PROVE  handling \in Recorded(handling.task)'
      BY <2>1
    <3>2. handling = e /\ handling.task = t
      BY <1>1, <1>4, <2>3, <3>1
    <3>3. e \in Recorded(t)'
      BY <1>2 DEF EvidenceStep
    <3> QED
      BY <2>2, <3>2, <3>3
  <2>5. i - 1 \in 1 .. Len(batch') /\ batch'[i - 1] = batch[i - 1 + 1] /\ i - 1 + 1 = i
    BY <1>4, <2>3, <2>4
  <2> QED
    BY <2>3, <2>5
<1>9. OneOpenTask'
  <2>1. \A u \in Tasks : Open(u)' => Open(u)
    <3>1. l.disposition = "applied" => Open(t)
      BY <1>1, <1>2 DEF EvidenceStep, ReceivedSound, AppliedSound
    <3>2. \A u \in Tasks : task'[u].state = task[u].state \/ (u = t /\ Open(t))
      BY <1>2, <3>1 DEF EvidenceStep
    <3> QED
      BY <3>2 DEF Open
  <2> QED
    BY <2>1 DEF EdgeInv, OneOpenTask
<1>10. PublicationsAreBounded'
  <2>1. \A u \in Tasks : /\ task'[u].attempts = task[u].attempts /\ task'[u].lateAttempts = task[u].lateAttempts
                         /\ task'[u].confirmed = task[u].confirmed
    BY <1>2 DEF EvidenceStep
  <2> QED
    BY <2>1, WriteLineFrame DEF EdgeInv, PublicationsAreBounded
<1>11. AckedEvidenceIsDurable'
  <2>1. \A x \in acked : x.task \in Tasks
    BY Arrivals DEF EdgeInv, TypeOK
  <2> QED
    BY <1>3, <2>1, WriteLineFrame DEF EdgeInv, AckedEvidenceIsDurable
<1> QED
  BY <1>5, <1>6, <1>7, <1>8, <1>9, <1>10, <1>11 DEF EdgeInv

-----------------------------------------------------------------------------
(* The batches that decisions make.                                        *)

\* The records of which nothing has to be known.
HarmlessKinds == {"edge_started", "transport_session", "device_heartbeat", "session_regression",
                  "device_liveness_changed", "robot_request_rejected", "task_reconciliation_flagged"}

\* They are sound anywhere in any batch.
LEMMA HarmlessSound ==
  ASSUME NEW b, NEW i, b[i].kind \in HarmlessKinds
  PROVE  LineSound(b, i)
BY DEF HarmlessKinds, LineSound

\* Every line of the code is one of the lines.
LEMMA LineTypes ==
  /\ LineStarted \in Lines /\ LineSessionLost \in Lines
  /\ \A t \in Tasks : /\ LineCreated(t) \in Lines /\ LineAttempted(t) \in Lines /\ LineConfirmed(t) \in Lines
                      /\ LineAnswered(t) \in Lines /\ LineConflict(t) \in Lines
                      /\ \A r \in Clearable \cup StickyReasons : LineFlag(t, r) \in Lines
  /\ \A s \in Statuses : LineStatus(s) \in Lines
  /\ \A r \in Robots : /\ LineHeartbeat(r) \in Lines /\ LineRegression(r) \in Lines
                       /\ \A c \in {"STALE", "OFFLINE"} : LineLiveness(r, c) \in Lines
  /\ \A e \in Events, d \in Dispositions, s \in States, reasons \in SUBSET StickyReasons :
       LineReceived(e, d, s, reasons) \in Lines
BY DEF Lines, LineStarted, LineSessionLost, LineCreated, LineAttempted, LineConfirmed, LineAnswered, LineConflict,
       LineFlag, LineStatus, LineHeartbeat, LineRegression, LineLiveness, LineReceived

\* A single line is a batch.
LEMMA OneLine ==
  ASSUME NEW l \in Lines
  PROVE  <<l>> \in Seq(Lines) /\ Len(<<l>>) = 1 /\ <<l>>[1] = l
OBVIOUS

\* The lines of a finite set, in any order.
LEMMA OrderedLines ==
  ASSUME NEW S \in SUBSET Lines, IsFiniteSet(S), NEW b \in Orders(S)
  PROVE  b \in Seq(Lines) /\ \A i \in 1 .. Len(b) : b[i] \in S
<1>1. Cardinality(S) \in Nat
  BY FS_CardinalityType
<1>2. b \in [1 .. Cardinality(S) -> S]
  BY DEF Orders, SetToSeqs
<1>3. b \in Seq(S) /\ Len(b) = Cardinality(S)
  BY <1>1, <1>2
<1> QED
  BY <1>2, <1>3

\* The flags for one reason are finitely many: there are finitely many tasks.
LEMMA FiniteFlags ==
  ASSUME NEW T \in SUBSET Tasks, NEW r \in Clearable \cup StickyReasons
  PROVE  LET S == {LineFlag(t, r) : t \in T}
         IN  IsFiniteSet(S) /\ S \subseteq Lines /\ \A l \in S : l.kind \in HarmlessKinds
<1> DEFINE S == {LineFlag(t, r) : t \in T}
           f == [t \in T |-> LineFlag(t, r)]
<1>1. IsFiniteSet(T)
  BY EdgeAssumption, FS_Subset
<1>2. f \in Surjection(T, S)
  BY DEF Surjection
<1>3. IsFiniteSet(S)
  <2> HIDE DEF f, S
  <2> QED
    BY <1>1, <1>2, FS_Surjection
<1>4. S \subseteq Lines
  BY LineTypes
<1>5. \A l \in S : l.kind \in HarmlessKinds
  BY DEF LineFlag, HarmlessKinds
<1> QED
  BY <1>3, <1>4, <1>5

\* The liveness records are finitely many: there are finitely many robots.
LEMMA FiniteLiveness ==
  ASSUME NEW R \in SUBSET Robots, NEW c \in {"STALE", "OFFLINE"}
  PROVE  LET S == {LineLiveness(r, c) : r \in R}
         IN  IsFiniteSet(S) /\ S \subseteq Lines /\ \A l \in S : l.kind \in HarmlessKinds
<1> DEFINE S == {LineLiveness(r, c) : r \in R}
           f == [r \in R |-> LineLiveness(r, c)]
<1>1. IsFiniteSet(R)
  BY EdgeAssumption, FS_Subset
<1>2. f \in Surjection(R, S)
  BY DEF Surjection
<1>3. IsFiniteSet(S)
  <2> HIDE DEF f, S
  <2> QED
    BY <1>1, <1>2, FS_Surjection
<1>4. S \subseteq Lines
  BY LineTypes
<1>5. \A l \in S : l.kind \in HarmlessKinds
  BY DEF LineLiveness, HarmlessKinds
<1> QED
  BY <1>3, <1>4, <1>5

\* A set of lines that a decision may record in any order.
Recordable(S) == IsFiniteSet(S) /\ S \subseteq Lines /\ \A l \in S : l.kind \in HarmlessKinds

\* Two sets of such lines are one.
LEMMA RecordableUnion ==
  ASSUME NEW S, NEW U, Recordable(S), Recordable(U)
  PROVE  Recordable(S \cup U)
BY FS_Union DEF Recordable

\* The flags of a decision, for one reason.
LEMMA FlagsRecordable ==
  ASSUME NEW T \in SUBSET Tasks, NEW r \in Clearable \cup StickyReasons
  PROVE  Recordable({LineFlag(t, r) : t \in T})
BY FiniteFlags DEF Recordable

\* The lines of a tick and of a status.
LEMMA TickRecordable == Recordable(TickLines)
<1>1. /\ Recordable({LineLiveness(r, "OFFLINE") : r \in {x \in Robots : device[x].connectivity = "UNKNOWN" /\ device[x].quiet >= Grace}})
      /\ Recordable({LineLiveness(r, "STALE") : r \in {x \in Robots : device[x].connectivity = "ONLINE" /\ device[x].quiet >= Stale}})
      /\ Recordable({LineLiveness(r, "OFFLINE") : r \in {x \in Robots : device[x].connectivity = "STALE" /\ device[x].quiet >= Offline}})
  BY FiniteLiveness DEF Recordable
<1>2. Recordable(LivenessLines)
  BY <1>1, RecordableUnion DEF LivenessLines
<1>3. {"expired_unconfirmed", "progress_window_elapsed", "acceptance_window_elapsed"} \subseteq Clearable \cup StickyReasons
  BY ReasonSets
<1>4. /\ Recordable({LineFlag(t, "expired_unconfirmed") : t \in {x \in Tasks : ExpiredUnconfirmed(x)}})
      /\ Recordable({LineFlag(t, "progress_window_elapsed") : t \in {x \in Tasks : ProgressWindowElapsed(x)}})
      /\ Recordable({LineFlag(t, "acceptance_window_elapsed") : t \in {x \in Tasks : AcceptanceWindowElapsed(x)}})
  BY <1>3, FlagsRecordable
<1> QED
  BY <1>2, <1>4, RecordableUnion DEF TickLines

\* The flags of a status can be recorded in any order.
LEMMA StatusRecordable ==
  ASSUME NEW s \in Statuses
  PROVE  Recordable(StatusFlags(s))
<1> DEFINE d == device[s.robot]
           newSession == d.boot = 0 \/ s.boot > d.boot
           boots == {t \in OpenTasksOf(s.robot) : newSession /\ ~task[t].bootFlagged}
           mismatched == {t \in OpenTasksOf(s.robot) \ boots :
                            /\ task[t].state \in {"ACCEPTED", "RUNNING"} /\ s.idle
                            /\ ReprobeDue(t, "heartbeat_mismatch") /\ task[t].age.progress >= Stale}
<1>1. boots \subseteq Tasks /\ mismatched \subseteq Tasks
  BY DEF OpenTasksOf, TasksOf
<1>2. StatusFlags(s) = {LineFlag(t, "new_boot_session") : t \in boots} \cup {LineFlag(t, "heartbeat_mismatch") : t \in mismatched}
  BY DEF StatusFlags
<1> HIDE DEF boots, mismatched
<1>3. {"new_boot_session", "heartbeat_mismatch"} \subseteq Clearable \cup StickyReasons
  BY ReasonSets
<1>4. Recordable({LineFlag(t, "new_boot_session") : t \in boots}) /\ Recordable({LineFlag(t, "heartbeat_mismatch") : t \in mismatched})
  BY <1>1, <1>3, FlagsRecordable
<1> QED
  BY <1>2, <1>4, RecordableUnion

\* The batch of an event: its line l at place p, behind the loss of continuity if there is one,
\* and before the companions of the line.
EventBatch(b, e, l, p) ==
  /\ b \in Seq(Lines) /\ p \in {1, 2} /\ Len(b) >= p /\ b[p] = l /\ l.kind = "task_event_received" /\ l.event = e
  /\ p = 2 => b[1] = LineRegression(RobotOf[e.task])
  /\ \A i \in 1 .. Len(b) :
       \/ i = p \/ b[i].kind \in HarmlessKinds
       \/ i > p /\ b[i] = LineConflict(e.task) /\ "conflicting_terminal" \in l.reasons

\* A flag or a repeated contradiction behind it changes nothing.
LEMMA AppendLine ==
  ASSUME NEW b, NEW e, NEW l, NEW p, EventBatch(b, e, l, p), NEW f \in Lines,
         f.kind \in HarmlessKinds \/ (f = LineConflict(e.task) /\ "conflicting_terminal" \in l.reasons)
  PROVE  EventBatch(b \o <<f>>, e, l, p)
<1>1. b \in Seq(Lines) /\ <<f>> \in Seq(Lines) /\ Len(b) \in Nat
  BY DEF EventBatch
<1>2. PICK c \in Seq(Lines) : c = b \o <<f>>
  BY <1>1, ConcatProperties
<1>3. Len(c) = Len(b) + 1 /\ (\A i \in 1 .. Len(b) : c[i] = b[i]) /\ c[Len(b) + 1] = f
  BY <1>1, <1>2, ConcatProperties
<1>4. \A i \in 1 .. Len(c) : (i \in 1 .. Len(b) /\ c[i] = b[i]) \/ (i = Len(b) + 1 /\ c[i] = f)
  BY <1>1, <1>3
<1>5. EventBatch(c, e, l, p)
  BY <1>1, <1>3, <1>4 DEF EventBatch
<1> QED
  BY <1>2, <1>5

\* Evidence makes such a batch.
LEMMA EvidenceShape ==
  ASSUME NEW e \in Events, NEW d \in Dispositions, NEW s \in States, NEW reasons \in SUBSET StickyReasons,
         NEW c \in BOOLEAN, NEW l, l = LineReceived(e, d, s, reasons \cup (IF c THEN {"conflicting_terminal"} ELSE {}))
  PROVE  l \in Lines /\ EventBatch(Evidence(e, d, s, reasons, c), e, l, 1)
<1>1. "conflicting_terminal" \in StickyReasons /\ e.task \in Tasks
  BY ReasonSets, Arrivals
<1>2. PICK reasons2 \in SUBSET StickyReasons : reasons2 = reasons \cup (IF c THEN {"conflicting_terminal"} ELSE {})
  BY <1>1
<1>3. l \in Lines /\ LineConflict(e.task) \in Lines /\ LineFlag(e.task, "conflicting_terminal") \in Lines
  BY <1>1, <1>2, LineTypes
<1>4. /\ l.kind = "task_event_received" /\ l.event = e /\ l.reasons = reasons2
      /\ LineFlag(e.task, "conflicting_terminal").kind \in HarmlessKinds
  BY <1>2 DEF LineReceived, LineFlag, HarmlessKinds
<1>5. CASE ~c
  <2>1. Evidence(e, d, s, reasons, c) = <<l>>
    BY <1>5 DEF Evidence
  <2> QED
    BY <1>3, <1>4, <2>1 DEF EventBatch
<1>6. CASE c
  <2>1. PICK m \in Lines : m = LineConflict(e.task)
    BY <1>3
  <2>2. PICK f \in Lines : f = LineFlag(e.task, "conflicting_terminal")
    BY <1>3
  <2>3. Evidence(e, d, s, reasons, c) = <<l>> \o (IF task[e.task].conflict THEN <<>> ELSE <<m>>) \o <<f>>
    BY <1>6, <2>1, <2>2 DEF Evidence
  <2>4. "conflicting_terminal" \in l.reasons
    BY <1>2, <1>4, <1>6
  <2>5. EventBatch(<<l>>, e, l, 1)
    BY <1>3, <1>4 DEF EventBatch
  <2>6. CASE task[e.task].conflict
    <3>1. Evidence(e, d, s, reasons, c) = <<l>> \o <<>> \o <<f>>
      BY <2>3, <2>6
    <3>2. <<l>> \o <<>> = <<l>>
      BY <1>3
    <3>3. EventBatch(<<l>> \o <<f>>, e, l, 1)
      BY <1>4, <2>2, <2>5, AppendLine
    <3> QED
      BY <1>3, <3>1, <3>2, <3>3
  <2>7. CASE ~task[e.task].conflict
    <3>1. Evidence(e, d, s, reasons, c) = <<l>> \o <<m>> \o <<f>>
      BY <2>3, <2>7
    <3>2. EventBatch(<<l>> \o <<m>>, e, l, 1)
      BY <2>1, <2>4, <2>5, AppendLine
    <3>3. EventBatch(<<l>> \o <<m>> \o <<f>>, e, l, 1)
      BY <1>4, <2>2, <3>2, AppendLine
    <3> QED
      BY <1>3, <3>1, <3>3
  <2> QED
    BY <2>6, <2>7
<1> QED
  BY <1>3, <1>5, <1>6

\* Nor does the loss of continuity before it.
LEMMA PrependRegression ==
  ASSUME NEW b, NEW e \in Events, NEW l, EventBatch(b, e, l, 1)
  PROVE  EventBatch(<<LineRegression(RobotOf[e.task])>> \o b, e, l, 2)
<1>1. PICK m \in Lines : m = LineRegression(RobotOf[e.task]) /\ m.kind \in HarmlessKinds
  <2>1. RobotOf[e.task] \in Robots
    BY Arrivals, EdgeAssumption
  <2> QED
    BY <2>1, LineTypes DEF LineRegression, HarmlessKinds
<1>2. b \in Seq(Lines) /\ <<m>> \in Seq(Lines) /\ Len(b) \in Nat
  BY DEF EventBatch
<1>3. PICK c \in Seq(Lines) : c = <<m>> \o b
  BY <1>2, ConcatProperties
<1>4. Len(c) = Len(b) + 1 /\ c[1] = m /\ (\A i \in 2 .. Len(c) : i - 1 \in 1 .. Len(b) /\ c[i] = b[i - 1])
  BY <1>2, <1>3
<1>5. EventBatch(c, e, l, 2)
  BY <1>1, <1>2, <1>4 DEF EventBatch
<1> QED
  BY <1>1, <1>3, <1>5

\* What is true of the line of the event makes the whole batch sound.
LEMMA EventBatchSound ==
  ASSUME NEW b, NEW e, NEW l, NEW p, EventBatch(b, e, l, p), ReceivedSound(b, p), NEW i \in 1 .. Len(b)
  PROVE  LineSound(b, i)
<1>1. CASE i = p
  BY <1>1 DEF EventBatch, LineSound
<1>2. CASE b[i].kind \in HarmlessKinds
  BY <1>2, HarmlessSound
<1>3. CASE i > p /\ b[i] = LineConflict(e.task) /\ "conflicting_terminal" \in l.reasons
  <2>1. b[i].kind = "conflicting_terminal" /\ b[i].task = e.task
    BY <1>3 DEF LineConflict
  <2>2. p \in 1 .. i - 1 /\ b[p] = l /\ l.kind = "task_event_received" /\ l.event = e
    BY <1>3 DEF EventBatch
  <2>3. ContradictionAt(b, i, e.task)
    BY <1>3, <2>2 DEF ContradictionAt
  <2> QED
    BY <2>1, <2>3 DEF LineSound
<1> QED
  BY <1>1, <1>2, <1>3 DEF EventBatch

\* What a line needs of the view is as true after a decision as before it.
LEMMA LineStaysSound ==
  ASSUME task' = task, device' = device, published' = published,
         NEW b, batch' = b, NEW i, LineSound(b, i), b[i].kind # "task_publish_attempted"
  PROVE  LineSound(batch, i)'
<1>1. /\ \A t : /\ (Known(t)' <=> Known(t)) /\ (Open(t)' <=> Open(t)) /\ (IsTerminal(t)' <=> IsTerminal(t))
                /\ Recorded(t)' = Recorded(t) /\ SeenKeys(t)' = SeenKeys(t) /\ Dev(t)' = Dev(t)
      /\ \A r : TasksOf(r)' = TasksOf(r) /\ OpenTasksOf(r)' = OpenTasksOf(r)
  BY DEF Known, Open, IsTerminal, Recorded, SeenKeys, Dev, TasksOf, OpenTasksOf
<1>2. \A r : GateClosed(r)' <=> GateClosed(r)
  BY <1>1 DEF GateClosed
<1>3. \A t : TwoEnds(t)' <=> TwoEnds(t)
  BY <1>1 DEF TwoEnds
<1>4. \A e : Differs(e)' <=> Differs(e)
  BY <1>1 DEF Differs
<1>5. \A t, e : InOrder(t, e)' <=> InOrder(t, e)
  BY <1>1 DEF InOrder
<1>6. \A t : CreatedSound(t)' <=> CreatedSound(t)
  BY <1>1, <1>2 DEF CreatedSound
<1>7. KeptSound(b, i) => KeptSound(batch, i)'
  BY <1>1, <1>2, <1>4, <1>5 DEF KeptSound, RegressionFirst
<1>8. AppliedSound(b, i) => AppliedSound(batch, i)'
  BY <1>1, <1>4 DEF AppliedSound
<1>9. ReceivedSound(b, i) => ReceivedSound(batch, i)'
  BY <1>1, <1>4, <1>7, <1>8 DEF ReceivedSound
<1>10. \A t : ContradictionAt(b, i, t) => ContradictionAt(batch, i, t)'
  BY DEF ContradictionAt
<1>11. \A s : Regressed(s)' <=> Regressed(s)
  BY DEF Regressed
<1> QED
  BY <1>3, <1>6, <1>9, <1>10, <1>11 DEF LineSound

\* A decision leaves the view as it is: its lines, and what is being sent or handled, have to be sound.
LEMMA DecisionKeeps ==
  ASSUME EdgeInv, TypeOK', task' = task, device' = device, published' = published, acked' = acked,
         BatchSound', SendingSound', HandlingSound'
  PROVE  EdgeInv'
<1>1. SameEvidence
  BY DEF SameEvidence
<1>2. \A t \in Tasks : EvidenceSound(t)'
  BY <1>1, SameEvidenceSound DEF EdgeInv
<1>3. OneOpenTask'
  BY <1>1, SameFacts DEF EdgeInv, OneOpenTask
<1>4. PublicationsAreBounded'
  BY DEF EdgeInv, PublicationsAreBounded
<1>5. AckedEvidenceIsDurable'
  BY DEF EdgeInv, AckedEvidenceIsDurable, Recorded
<1> QED
  BY <1>2, <1>3, <1>4, <1>5 DEF EdgeInv

\* The batch of a decision that sends nothing.
LEMMA DecidedBatch ==
  ASSUME task' = task, device' = device, published' = published, NEW b \in Seq(Lines), batch' = b,
         \A i \in 1 .. Len(b) : LineSound(b, i) /\ b[i].kind # "task_publish_attempted"
  PROVE  BatchSound'
BY LineStaysSound DEF BatchSound

\* Records of which nothing has to be known, decided together.
LEMMA HarmlessBatch ==
  ASSUME task' = task, device' = device, published' = published, NEW b \in Seq(Lines), batch' = b,
         \A i \in 1 .. Len(b) : b[i].kind \in HarmlessKinds
  PROVE  BatchSound'
<1>1. \A i \in 1 .. Len(b) : LineSound(b, i) /\ b[i].kind # "task_publish_attempted"
  BY HarmlessSound DEF HarmlessKinds
<1> QED
  BY <1>1, DecidedBatch

\* A batch that waits while nothing it rests on changes.
LEMMA BatchStays ==
  ASSUME EdgeInv, task' = task, device' = device, published' = published, pc' = pc, sending' = sending, batch' = batch
  PROVE  BatchSound'
<1>1. PICK b \in Seq(Lines) : b = batch /\ \A i \in 1 .. Len(b) : LineSound(b, i)
  BY DEF EdgeInv, BatchSound
<1>2. ASSUME NEW i \in 1 .. Len(b)
      PROVE  LineSound(batch, i)'
  <2>1. LineSound(b, i)
    BY <1>1
  <2>2. CASE b[i].kind # "task_publish_attempted"
    BY <1>1, <2>1, <2>2, LineStaysSound
  <2>3. CASE b[i].kind = "task_publish_attempted"
    <3>1. Len(b) = 1 /\ AttemptSound(b[i])'
      BY <2>1, <2>3 DEF LineSound, AttemptSound
    <3> QED
      BY <1>1, <2>3, <3>1 DEF LineSound
  <2> QED
    BY <2>2, <2>3
<1> QED
  BY <1>1, <1>2 DEF BatchSound

\* A batch that is written, or lost, says nothing.
LEMMA NoBatch ==
  ASSUME batch' = <<>>
  PROVE  BatchSound'
<1>1. <<>> \in Seq(Lines) /\ Len(<<>>) = 0
  BY EmptySeq
<1> QED
  BY <1>1 DEF BatchSound

-----------------------------------------------------------------------------
(* One step for each action.                                               *)

\* The other process creates a task.
LEMMA CreateTaskKeeps ==
  ASSUME EdgeInv, NEW t \in Tasks, CreateTask(t)
  PROVE  EdgeInv'
<1>1. PICK l \in Lines : l = LineCreated(t) /\ l.kind = "task_created" /\ l.task = t
  BY LineTypes DEF LineCreated
<1>2. /\ task' = task /\ device' = device /\ published' = published /\ acked' = acked /\ pc' = pc /\ handling' = handling
      /\ plan' = plan /\ sending' = sending /\ connected' = connected /\ connectedOnce' = connectedOnce
      /\ expired' = expired /\ starts' = starts /\ losses' = losses /\ batch = <<>> /\ batch' = <<l>> /\ Creatable(t)
  BY <1>1 DEF CreateTask, viewVars, worldVars, historyVars
<1>3. <<l>> \in Seq(Lines) /\ Len(<<l>>) = 1 /\ <<l>>[1] = l
  BY OneLine
<1>4. LineSound(<<l>>, 1)
  BY <1>1, <1>2, <1>3 DEF LineSound, Creatable, CreatedSound
<1>5. BatchSound'
  <2>1. \A i \in 1 .. Len(<<l>>) : i = 1
    BY <1>3
  <2>2. \A i \in 1 .. Len(<<l>>) : LineSound(<<l>>, i) /\ <<l>>[i].kind # "task_publish_attempted"
    BY <1>1, <1>3, <1>4, <2>1
  <2> QED
    BY <1>2, <1>3, <2>2, DecidedBatch
<1>6. TypeOK'
  BY <1>2 DEF EdgeInv, TypeOK
<1>7. SendingSound'
  <2>1. batch'[1].kind = "task_created"
    BY <1>1, <1>2, <1>3
  <2>2. \A u : (Open(u)' <=> Open(u)) /\ \A r : GateClosed(r)' <=> GateClosed(r)
    BY <1>2 DEF Open, GateClosed, TasksOf, Known
  <2> QED
    BY <1>2, <2>1, <2>2 DEF EdgeInv, SendingSound
<1>8. HandlingSound'
  BY <1>2 DEF EdgeInv, HandlingSound, Recorded
<1> QED
  BY <1>2, <1>5, <1>6, <1>7, <1>8, DecisionKeeps

\* The lines of a delivery.
LEMMA HandleKeeps ==
  ASSUME EdgeInv, Listening, NEW b \in Seq(Lines), Handle(b), handling' \in Events \cup {NoEvent},
         \A i \in 1 .. Len(b) : LineSound(b, i) /\ b[i].kind # "task_publish_attempted",
         handling' # NoEvent =>
           \/ handling'.seq = 0 \/ handling' \in Recorded(handling'.task)
           \/ \E i \in 1 .. Len(b) : b[i].kind = "task_event_received" /\ b[i].event = handling'
  PROVE  EdgeInv'
<1>1. /\ task' = task /\ device' = device /\ published' = published /\ acked' = acked /\ pc' = pc
      /\ plan' = plan /\ sending' = sending /\ connected' = connected /\ connectedOnce' = connectedOnce
      /\ expired' = expired /\ starts' = starts /\ losses' = losses /\ batch' = b /\ pc \in {"idle", "waiting"}
  BY DEF Handle, Listening, viewVars, worldVars, historyVars
<1>2. TypeOK'
  BY <1>1 DEF EdgeInv, TypeOK
<1>3. BatchSound'
  BY <1>1, DecidedBatch
<1>4. SendingSound'
  BY <1>1 DEF EdgeInv, SendingSound
<1>5. HandlingSound'
  BY <1>1 DEF HandlingSound, Recorded
<1> QED
  BY <1>1, <1>2, <1>3, <1>4, <1>5, DecisionKeeps

\* The only place of a sequence of at most one element.
LEMMA OnlyPlace ==
  ASSUME NEW n \in Nat, n <= 1, NEW i \in Nat, i >= 1, i <= n
  PROVE  i = 1 /\ n = 1
OBVIOUS

\* decide_status.
LEMMA StatusKeeps ==
  ASSUME EdgeInv, NEW s \in Statuses, ReceiveRegressedStatus(s) \/ ReceiveStatus(s)
  PROVE  EdgeInv'
<1>1. s.robot \in Robots /\ TypeOK
  BY Arrivals DEF EdgeInv
<1>2. Listening /\ handling' = handling /\ handling = NoEvent
  BY DEF ReceiveRegressedStatus, ReceiveStatus, Listening
<1>3. CASE ReceiveRegressedStatus(s)
  <2>1. PICK l \in Lines : l = LineRegression(s.robot) /\ l.kind \in HarmlessKinds
    BY <1>1, LineTypes DEF LineRegression, HarmlessKinds
  <2>2. <<l>> \in Seq(Lines) /\ Handle(<<l>>) /\ \A i \in 1 .. Len(<<l>>) : <<l>>[i].kind \in HarmlessKinds
    BY <1>3, <2>1 DEF ReceiveRegressedStatus
  <2>3. \A i \in 1 .. Len(<<l>>) : LineSound(<<l>>, i) /\ <<l>>[i].kind # "task_publish_attempted"
    BY <2>2, HarmlessSound DEF HarmlessKinds
  <2> QED
    BY <1>2, <2>2, <2>3, HandleKeeps
<1>4. CASE ReceiveStatus(s)
  <2>1. PICK flags \in Orders(StatusFlags(s)) : Handle(Receipt(s) \o flags)
    BY <1>4 DEF ReceiveStatus
  <2>2. flags \in Seq(Lines) /\ \A i \in 1 .. Len(flags) : flags[i].kind \in HarmlessKinds
    BY <2>1, StatusRecordable, OrderedLines DEF Recordable
  <2>3. PICK l \in Lines : l = LineStatus(s) /\ l.kind = "device_status" /\ l.status = s
    BY LineTypes DEF LineStatus
  <2>4. PICK m \in Lines : m = LineHeartbeat(s.robot) /\ m.kind \in HarmlessKinds
    BY <1>1, LineTypes DEF LineHeartbeat, HarmlessKinds
  <2>5. ~Regressed(s)
    BY <1>4 DEF ReceiveStatus
  <2>6. PICK a \in Seq(Lines) : a = Receipt(s) /\ Len(a) <= 1 /\ (Len(a) = 1 => a[1] = l \/ a[1] = m)
    <3>1. device[s.robot].quiet \in Nat /\ HalfStale \in Nat
      BY <1>1, DeviceFields, Bounds
    <3>2. Receipt(s) \in {<<l>>, <<m>>, <<>>}
      BY <2>3, <2>4, <3>1 DEF Receipt
    <3>3. /\ <<l>> \in Seq(Lines) /\ Len(<<l>>) = 1 /\ <<l>>[1] = l
          /\ <<m>> \in Seq(Lines) /\ Len(<<m>>) = 1 /\ <<m>>[1] = m
          /\ <<>> \in Seq(Lines) /\ Len(<<>>) = 0
      BY OneLine, EmptySeq
    <3>4. ASSUME NEW a, a = <<l>> \/ a = <<m>> \/ a = <<>>
          PROVE  a \in Seq(Lines) /\ Len(a) <= 1 /\ (Len(a) = 1 => a[1] = l \/ a[1] = m)
      <4>1. CASE a = <<l>>
        BY <3>3, <4>1
      <4>2. CASE a = <<m>>
        BY <3>3, <4>2
      <4>3. CASE a = <<>>
        BY <3>3, <4>3
      <4> QED
        BY <3>4, <4>1, <4>2, <4>3
    <3> QED
      BY <3>2, <3>4, Zenon
  <2>7. PICK b \in Seq(Lines) : /\ b = a \o flags /\ Len(b) = Len(a) + Len(flags)
                                /\ \A i \in 1 .. Len(a) + Len(flags) : b[i] = IF i <= Len(a) THEN a[i] ELSE flags[i - Len(a)]
    <3>1. /\ a \o flags \in Seq(Lines) /\ Len(a \o flags) = Len(a) + Len(flags)
          /\ \A i \in 1 .. Len(a) + Len(flags) : (a \o flags)[i] = IF i <= Len(a) THEN a[i] ELSE flags[i - Len(a)]
      BY <2>2, <2>6, ConcatProperties, Zenon
    <3> QED
      BY <3>1, Zenon
  <2>8. \A i \in 1 .. Len(b) : b[i].kind \in HarmlessKinds \/ (i = 1 /\ b[i] = l)
    <3>1. Len(a) \in Nat /\ Len(flags) \in Nat
      BY <2>2, <2>6
    <3>2. ASSUME NEW i \in 1 .. Len(b), i <= Len(a)
          PROVE  i = 1 /\ (b[i] = l \/ b[i] = m)
      <4>1. i = 1 /\ Len(a) = 1
        <5>1. i \in Nat /\ i >= 1
          BY <2>7, <3>1, <3>2
        <5>2. Len(a) <= 1 /\ i <= Len(a)
          BY <2>6, <3>2
        <5> QED
          BY <3>1, <5>1, <5>2, OnlyPlace
      <4>2. b[i] = a[i]
        BY <2>7, <3>2
      <4> QED
        BY <2>6, <4>1, <4>2
    <3>3. ASSUME NEW i \in 1 .. Len(b), ~(i <= Len(a))
          PROVE  b[i].kind \in HarmlessKinds
      <4>1. i - Len(a) \in 1 .. Len(flags) /\ b[i] = flags[i - Len(a)]
        BY <2>7, <3>1, <3>3
      <4> QED
        BY <2>2, <4>1
    <3> QED
      BY <2>4, <3>2, <3>3
  <2>9. ASSUME NEW i \in 1 .. Len(b)
        PROVE  LineSound(b, i) /\ b[i].kind # "task_publish_attempted"
    <3>1. CASE b[i].kind \in HarmlessKinds
      BY <3>1, HarmlessSound DEF HarmlessKinds
    <3>2. CASE i = 1 /\ b[i] = l
      BY <2>3, <2>5, <3>2 DEF LineSound
    <3> QED
      BY <2>8, <3>1, <3>2
  <2> QED
    BY <1>2, <2>1, <2>6, <2>7, <2>9, HandleKeeps
<1> QED
  BY <1>3, <1>4

\* decide_tick.
LEMMA TickKeeps ==
  ASSUME EdgeInv, Tick
  PROVE  EdgeInv'
<1>1. PICK b \in Orders(TickLines) : b = batch'
  BY DEF Tick
<1>2. b \in Seq(Lines) /\ \A i \in 1 .. Len(b) : b[i].kind \in HarmlessKinds
  BY TickRecordable, OrderedLines DEF Recordable
<1>3. /\ task' = task /\ device' = device /\ published' = published /\ acked' = acked /\ pc' = "ticking"
      /\ plan' = plan /\ sending' = sending /\ connected' = connected /\ connectedOnce' = connectedOnce
      /\ expired' = expired /\ starts' = starts /\ losses' = losses /\ handling' = handling /\ handling = NoEvent
  BY DEF Tick, AtRest, viewVars, worldVars, historyVars
<1>4. TypeOK'
  BY <1>3 DEF EdgeInv, TypeOK
<1>5. BatchSound'
  BY <1>1, <1>2, <1>3, HarmlessBatch
<1>6. SendingSound' /\ HandlingSound'
  BY <1>3 DEF SendingSound, HandlingSound
<1> QED
  BY <1>3, <1>4, <1>5, <1>6, DecisionKeeps

\* The attempt is decided from the view as it is now.
LEMMA AttemptDecisionKeeps ==
  ASSUME EdgeInv, NEW t \in Tasks, Attempt(t)
  PROVE  EdgeInv'
<1>1. /\ task' = task /\ device' = device /\ published' = published /\ acked' = acked /\ handling' = handling
      /\ connected' = connected /\ connectedOnce' = connectedOnce /\ expired' = expired /\ starts' = starts /\ losses' = losses
      /\ plan' = plan \ {t} /\ batch = <<>> /\ pc = "publishing"
  BY DEF Attempt, viewVars, worldVars, historyVars
<1>2. HandlingSound' /\ plan' \subseteq Tasks
  <2>1. handling # NoEvent => handling.seq = 0 \/ handling \in Recorded(handling.task)
    <3>1. Len(batch) = 0
      BY <1>1
    <3> QED
      BY <3>1 DEF EdgeInv, HandlingSound
  <2> QED
    BY <1>1, <2>1 DEF HandlingSound, Recorded, EdgeInv, TypeOK
<1>3. CASE ~StillCandidate(t)
  <2>1. batch' = <<>> /\ sending' = sending /\ pc' = pc
    BY <1>1, <1>3 DEF Attempt
  <2>2. TypeOK'
    BY <1>1, <1>2, <2>1 DEF EdgeInv, TypeOK
  <2>3. SendingSound'
    BY <1>1, <2>1 DEF SendingSound
  <2> QED
    BY <1>1, <1>2, <2>1, <2>2, <2>3, NoBatch, DecisionKeeps
<1>4. CASE StillCandidate(t)
  <2>1. PICK l \in Lines : l = LineAttempted(t) /\ l.kind = "task_publish_attempted" /\ l.task = t /\ (l.late <=> t \in expired)
    BY LineTypes DEF LineAttempted
  <2>2. batch' = <<l>> /\ sending' = t /\ pc' = "sending"
    BY <1>4, <2>1 DEF Attempt
  <2>3. <<l>> \in Seq(Lines) /\ Len(<<l>>) = 1 /\ <<l>>[1] = l
    BY OneLine
  <2>4. /\ Open(t) /\ task[t].state # "BLOCKED_AWAITING_HUMAN" /\ ~GateClosed(RobotOf[t])
        /\ task[t].attempts < MaxAttempts /\ (t \in expired => task[t].lateAttempts = 0)
    BY <1>4 DEF StillCandidate, Candidate, AttemptLeft
  <2>5. BatchSound'
    <3>1. AttemptSound(l)'
      BY <1>1, <2>1, <2>2, <2>4 DEF AttemptSound
    <3>2. LineSound(batch, 1)' /\ batch' \in Seq(Lines) /\ Len(batch') = 1
      BY <2>1, <2>2, <2>3, <3>1 DEF LineSound
    <3> QED
      BY <3>2 DEF BatchSound
  <2>6. SendingSound'
    <3>1. Open(t)' /\ ~GateClosed(RobotOf[t])'
      BY <1>1, <2>4 DEF Open, GateClosed, TasksOf, Known
    <3>2. batch'[1].kind = "task_publish_attempted" /\ batch' # <<>>
      BY <2>1, <2>2, <2>3
    <3> QED
      BY <1>1, <2>2, <2>4, <3>1, <3>2 DEF SendingSound
  <2>7. TypeOK'
    BY <1>1, <1>2, <2>2 DEF EdgeInv, TypeOK
  <2> QED
    BY <1>1, <1>2, <2>5, <2>6, <2>7, DecisionKeeps
<1> QED
  BY <1>3, <1>4

\* Nothing waits to be written, and what is handled is on record.
LEMMA WrittenHandling ==
  ASSUME EdgeInv, batch = <<>>
  PROVE  handling # NoEvent => handling \in Events /\ (handling.seq = 0 \/ handling \in Recorded(handling.task))
<1>1. Len(batch) = 0
  BY EmptySeq
<1> QED
  BY <1>1 DEF EdgeInv, HandlingSound, TypeOK

\* Batches of the process and its loop.
LEMMA ShortBatch ==
  ASSUME task' = task, device' = device, published' = published, NEW l \in Lines, batch' = <<l>>,
         l.kind \in HarmlessKinds \/ (l.kind = "task_publish_confirmed" /\ published[l.task] > 0)
  PROVE  BatchSound'
<1>1. <<l>> \in Seq(Lines) /\ Len(<<l>>) = 1 /\ <<l>>[1] = l
  BY OneLine
<1>2. l.kind \in HarmlessKinds => LineSound(<<l>>, 1) /\ l.kind # "task_publish_attempted"
  BY <1>1, HarmlessSound DEF HarmlessKinds
<1>3. l.kind = "task_publish_confirmed" /\ published[l.task] > 0 => LineSound(<<l>>, 1) /\ l.kind # "task_publish_attempted"
  BY <1>1 DEF LineSound
<1>4. \A i \in 1 .. Len(<<l>>) : LineSound(<<l>>, i) /\ <<l>>[i].kind # "task_publish_attempted"
  <2>1. \A i \in 1 .. Len(<<l>>) : i = 1
    BY <1>1
  <2> QED
    BY <1>1, <1>2, <1>3, <2>1
<1> QED
  BY <1>1, <1>4, DecidedBatch

\* The hop-1 wait ends.
LEMMA EndWaitKeeps ==
  ASSUME EdgeInv, EndWait
  PROVE  EdgeInv'
<1>1. /\ task' = task /\ device' = device /\ published' = published /\ acked' = acked /\ handling' = handling /\ plan' = plan
      /\ connected' = connected /\ connectedOnce' = connectedOnce /\ expired' = expired /\ starts' = starts /\ losses' = losses
      /\ pc = "waiting" /\ pc' = "publishing" /\ sending' = NoTask /\ handling = NoEvent
  BY DEF EndWait, viewVars, worldVars, historyVars
<1>2. TypeOK' /\ SendingSound' /\ HandlingSound'
  BY <1>1 DEF EdgeInv, TypeOK, SendingSound, HandlingSound
<1>3. PICK t \in Tasks : t = sending /\ published[t] > 0
  BY <1>1 DEF EdgeInv, SendingSound
<1>4. PICK l \in Lines : l = LineConfirmed(t) /\ l.kind = "task_publish_confirmed" /\ l.task = t
  BY LineTypes DEF LineConfirmed
<1>5. BatchSound'
  <2>1. batch' = <<>> \/ batch' = <<l>>
    BY <1>3, <1>4 DEF EndWait
  <2>2. CASE batch' = <<>>
    BY <2>2, NoBatch
  <2>3. CASE batch' = <<l>>
    BY <1>1, <1>3, <1>4, <2>3, ShortBatch
  <2> QED
    BY <2>1, <2>2, <2>3
<1> QED
  BY <1>1, <1>2, <1>5, DecisionKeeps

\* A start of the gateway.
LEMMA StartKeeps ==
  ASSUME EdgeInv, Start
  PROVE  EdgeInv'
<1>1. /\ task' = task /\ device' = device /\ published' = published /\ acked' = acked /\ handling' = handling /\ plan' = plan
      /\ connected' = connected /\ connectedOnce' = connectedOnce /\ expired' = expired /\ starts' = starts + 1 /\ losses' = losses
      /\ pc' = "idle" /\ sending' = sending /\ batch = <<>>
  BY DEF Start, viewVars, historyVars
<1>2. PICK l \in Lines : l = LineStarted /\ l.kind \in HarmlessKinds /\ batch' = <<l>>
  BY LineTypes DEF LineStarted, HarmlessKinds, Start
<1>3. TypeOK' /\ SendingSound'
  BY <1>1 DEF EdgeInv, TypeOK, SendingSound
<1>4. HandlingSound'
  BY <1>1, WrittenHandling DEF HandlingSound, Recorded
<1> QED
  BY <1>1, <1>2, <1>3, <1>4, ShortBatch, DecisionKeeps

\* A connection, with its session or without it.
LEMMA ConnectKeeps ==
  ASSUME EdgeInv, NEW sessionPresent \in BOOLEAN, Connect(sessionPresent)
  PROVE  EdgeInv'
<1>1. /\ task' = task /\ device' = device /\ published' = published /\ acked' = acked /\ handling' = handling /\ plan' = plan
      /\ connected' = TRUE /\ connectedOnce' = TRUE /\ expired' = expired /\ starts' = starts
      /\ pc' = pc /\ pc = "idle" /\ sending' = sending /\ batch = <<>> /\ handling = NoEvent
  BY DEF Connect, AtRest, viewVars, historyVars
<1>2. PICK l \in Lines : l = LineSessionLost /\ l.kind \in HarmlessKinds
  BY LineTypes DEF LineSessionLost, HarmlessKinds
<1>3. (losses' = losses + 1 /\ batch' = <<l>>) \/ (losses' = losses /\ batch' = <<>>)
  BY <1>1, <1>2 DEF Connect
<1>4. TypeOK' /\ SendingSound' /\ HandlingSound'
  BY <1>1, <1>3 DEF EdgeInv, TypeOK, SendingSound, HandlingSound
<1>5. BatchSound'
  <2>1. CASE batch' = <<l>>
    BY <1>1, <1>2, <2>1, ShortBatch
  <2>2. CASE batch' = <<>>
    BY <2>2, NoBatch
  <2> QED
    BY <1>3, <2>1, <2>2
<1> QED
  BY <1>1, <1>4, <1>5, DecisionKeeps

\* The steps that decide nothing: the process is between two batches.
LEMMA PlanKeeps ==
  ASSUME EdgeInv, PlanPublications \/ EndTick \/ Disconnect
  PROVE  EdgeInv'
<1>1. /\ task' = task /\ device' = device /\ published' = published /\ acked' = acked /\ handling' = handling
      /\ connected' \in BOOLEAN /\ connectedOnce' = connectedOnce /\ expired' = expired /\ starts' = starts /\ losses' = losses
      /\ sending' = sending /\ batch = <<>> /\ batch' = <<>> /\ plan' \subseteq Tasks
      /\ pc' \in {"idle", "publishing", "waiting"} /\ (pc' = "waiting" => pc = "waiting")
  BY DEF PlanPublications, EndTick, Disconnect, Listening, viewVars, worldVars, historyVars, EdgeInv, TypeOK
<1>2. TypeOK' /\ SendingSound'
  BY <1>1 DEF EdgeInv, TypeOK, SendingSound
<1>3. HandlingSound'
  BY <1>1, WrittenHandling DEF HandlingSound, Recorded
<1> QED
  BY <1>1, <1>2, <1>3, NoBatch, DecisionKeeps

\* A crash loses what is not written, and nothing else.
LEMMA CrashKeeps ==
  ASSUME EdgeInv, Crash
  PROVE  EdgeInv'
<1>1. /\ task' = task /\ device' = device /\ published' = published /\ acked' = acked /\ handling' = NoEvent
      /\ connected' = FALSE /\ connectedOnce' = FALSE /\ expired' = expired /\ starts' = starts /\ losses' = losses
      /\ sending' = NoTask /\ batch' = <<>> /\ plan' = {} /\ pc' = "down"
  BY DEF Crash, viewVars, worldVars, historyVars
<1>2. TypeOK' /\ SendingSound' /\ HandlingSound'
  BY <1>1 DEF EdgeInv, TypeOK, SendingSound, HandlingSound
<1> QED
  BY <1>1, <1>2, NoBatch, DecisionKeeps

\* The expiry of a task passes.
LEMMA ExpireKeeps ==
  ASSUME EdgeInv, NEW t \in Tasks, Expire(t)
  PROVE  EdgeInv'
<1>1. /\ task' = task /\ device' = device /\ published' = published /\ acked' = acked /\ handling' = handling
      /\ connected' = connected /\ connectedOnce' = connectedOnce /\ expired' = expired \cup {t} /\ starts' = starts /\ losses' = losses
      /\ sending' = sending /\ batch' = batch /\ plan' = plan /\ pc' = pc
  BY DEF Expire, viewVars, processVars, historyVars
<1>2. TypeOK' /\ HandlingSound'
  BY <1>1 DEF EdgeInv, TypeOK, HandlingSound, Recorded
<1>3. SendingSound'
  BY <1>1 DEF EdgeInv, SendingSound, Open, GateClosed, TasksOf, Known
<1>4. BatchSound'
  BY <1>1, BatchStays
<1> QED
  BY <1>1, <1>2, <1>3, <1>4, DecisionKeeps

\* The delivery is acknowledged: what was handled is on record.
LEMMA AckKeeps ==
  ASSUME EdgeInv, AckEvent
  PROVE  EdgeInv'
<1>1. /\ task' = task /\ device' = device /\ published' = published /\ acked' = acked \cup {handling} /\ handling' = NoEvent
      /\ connected' = connected /\ connectedOnce' = connectedOnce /\ expired' = expired /\ starts' = starts /\ losses' = losses
      /\ sending' = sending /\ batch' = <<>> /\ batch = <<>> /\ plan' = plan /\ pc' = pc /\ handling # NoEvent
  BY DEF AckEvent, viewVars, worldVars
<1>2. handling \in Events /\ (handling.seq = 0 \/ handling \in Recorded(handling.task))
  BY <1>1, WrittenHandling
<1>3. TypeOK' /\ HandlingSound'
  BY <1>1, <1>2 DEF EdgeInv, TypeOK, HandlingSound
<1>4. SendingSound'
  BY <1>1 DEF EdgeInv, SendingSound, Open, GateClosed, TasksOf, Known
<1>5. SameEvidence
  BY <1>1 DEF SameEvidence
<1>6. \A t \in Tasks : EvidenceSound(t)'
  BY <1>5, SameEvidenceSound DEF EdgeInv
<1>7. OneOpenTask'
  BY <1>5, SameFacts DEF EdgeInv, OneOpenTask
<1>8. PublicationsAreBounded'
  BY <1>1 DEF EdgeInv, PublicationsAreBounded
<1>9. AckedEvidenceIsDurable'
  BY <1>1, <1>2 DEF EdgeInv, AckedEvidenceIsDurable, Recorded
<1> QED
  BY <1>1, <1>3, <1>4, <1>6, <1>7, <1>8, <1>9, NoBatch DEF EdgeInv

\* The transport call: it was counted before.
LEMMA SendKeeps ==
  ASSUME EdgeInv, Send
  PROVE  EdgeInv'
<1>1. /\ task' = task /\ device' = device /\ acked' = acked /\ handling' = handling /\ plan' = plan
      /\ connected' = connected /\ connectedOnce' = connectedOnce /\ expired' = expired /\ starts' = starts /\ losses' = losses
      /\ batch' = <<>> /\ batch = <<>> /\ pc = "sending"
  BY DEF Send, viewVars, worldVars
<1>2. PICK t \in Tasks : t = sending /\ Open(t) /\ published[t] < task[t].attempts
  BY <1>1 DEF EdgeInv, SendingSound
<1>3. HandlingSound'
  BY <1>1, WrittenHandling DEF HandlingSound, Recorded
<1>4. CASE ~connected
  <2>1. pc' = "publishing" /\ sending' = NoTask /\ published' = published
    BY <1>4 DEF Send
  <2>2. TypeOK' /\ SendingSound'
    BY <1>1, <2>1 DEF EdgeInv, TypeOK, SendingSound
  <2> QED
    BY <1>1, <1>3, <2>1, <2>2, NoBatch, DecisionKeeps
<1>5. CASE connected
  <2>1. pc' = "waiting" /\ sending' = t /\ published' = [published EXCEPT ![t] = @ + 1]
    BY <1>2, <1>5 DEF Send
  <2>2. published \in [Tasks -> Nat] /\ task[t].attempts \in Nat
    BY TaskFields DEF EdgeInv, TypeOK
  <2>3. published'[t] = published[t] + 1 /\ \A u \in Tasks : u # t => published'[u] = published[u]
    BY <2>1, <2>2
  <2>4. TypeOK'
    BY <1>1, <2>1, <2>2 DEF EdgeInv, TypeOK
  <2>5. SendingSound'
    BY <2>1, <2>2, <2>3 DEF SendingSound
  <2>6. SameEvidence
    BY <1>1 DEF SameEvidence
  <2>7. \A u \in Tasks : EvidenceSound(u)'
    BY <2>6, SameEvidenceSound DEF EdgeInv
  <2>8. OneOpenTask'
    BY <2>6, SameFacts DEF EdgeInv, OneOpenTask
  <2>9. PublicationsAreBounded'
    <3>1. published'[t] <= task[t].attempts /\ published'[t] > 0
      BY <1>2, <2>2, <2>3
    <3> QED
      BY <1>1, <2>3, <3>1 DEF EdgeInv, PublicationsAreBounded
  <2>10. AckedEvidenceIsDurable'
    BY <1>1 DEF EdgeInv, AckedEvidenceIsDurable, Recorded
  <2> QED
    BY <1>1, <1>3, <2>4, <2>5, <2>7, <2>8, <2>9, <2>10, NoBatch DEF EdgeInv
<1> QED
  BY <1>4, <1>5

\* An older task is the same task, with other ages.
LEMMA OlderType ==
  ASSUME NEW k \in TaskView
  PROVE  /\ Older(k) \in TaskView
         /\ Older(k).state = k.state /\ Older(k).max = k.max /\ Older(k).seen = k.seen /\ Older(k).replays = k.replays
         /\ Older(k).conflict = k.conflict /\ Older(k).reasons = k.reasons /\ Older(k).confirmed = k.confirmed
         /\ Older(k).attempts = k.attempts /\ Older(k).lateAttempts = k.lateAttempts
<1>1. PICK a : a = [ attempt  |-> AtMost(MinInterval, k.age.attempt + 1),
                     confirm  |-> AtMost(Window, k.age.confirm + 1),
                     progress |-> AtMost(ProgressCap, k.age.progress + 1),
                     probe    |-> AtMost(Window, k.age.probe + 1),
                     answer   |-> [r \in ProgressReasons |-> AtMost(Window, k.age.answer[r] + 1)] ]
  OBVIOUS
<1>2. Older(k) = [k EXCEPT !.age = a]
  BY <1>1 DEF Older
<1>3. a \in Ages
  <2>1. /\ k.age.attempt \in 0 .. MinInterval /\ k.age.confirm \in 0 .. Window /\ k.age.progress \in 0 .. ProgressCap
        /\ k.age.probe \in 0 .. Window /\ k.age.answer \in [ProgressReasons -> 0 .. Window]
    BY DEF TaskView, Ages
  <2>2. [r \in ProgressReasons |-> AtMost(Window, k.age.answer[r] + 1)] \in [ProgressReasons -> 0 .. Window]
    BY <2>1, Bounds, AtMostType
  <2>3. /\ AtMost(MinInterval, k.age.attempt + 1) \in 0 .. MinInterval /\ AtMost(Window, k.age.confirm + 1) \in 0 .. Window
        /\ AtMost(ProgressCap, k.age.progress + 1) \in 0 .. ProgressCap /\ AtMost(Window, k.age.probe + 1) \in 0 .. Window
    BY <2>1, Bounds, AtMostType
  <2> QED
    BY <1>1, <2>2, <2>3 DEF Ages
<1> QED
  BY <1>2, <1>3 DEF TaskView

\* What time changes: ages, and nothing that the invariant reads.
LEMMA ElapseFacts ==
  ASSUME EdgeInv, Elapse
  PROVE  /\ SameEvidence
         /\ \A t \in Tasks : /\ task'[t] \in TaskView /\ task'[t].state = task[t].state /\ task'[t].confirmed = task[t].confirmed
                             /\ task'[t].attempts = task[t].attempts /\ task'[t].lateAttempts = task[t].lateAttempts
         /\ \A r \in Robots : device'[r] \in DeviceView
<1>2. ASSUME NEW t \in Tasks
      PROVE  /\ task'[t] \in TaskView /\ task'[t].state = task[t].state /\ task'[t].max = task[t].max
             /\ task'[t].seen = task[t].seen /\ task'[t].replays = task[t].replays
             /\ task'[t].conflict = task[t].conflict /\ task'[t].reasons = task[t].reasons
             /\ task'[t].confirmed = task[t].confirmed
             /\ task'[t].attempts = task[t].attempts /\ task'[t].lateAttempts = task[t].lateAttempts
  <2>1. task[t] \in TaskView /\ (task'[t] = Older(task[t]) \/ task'[t] = task[t])
    BY TaskFields DEF Elapse, EdgeInv
  <2> QED
    BY <2>1, OlderType
<1>3. ASSUME NEW r \in Robots
      PROVE  /\ device'[r] \in DeviceView /\ device'[r].boot = device[r].boot /\ device'[r].inc = device[r].inc
             /\ device'[r].regression = device[r].regression
  <2>1. device[r] \in DeviceView /\ AtMost(QuietCap, device[r].quiet + 1) \in 0 .. QuietCap
    BY DeviceFields, Bounds, AtMostType DEF EdgeInv
  <2>2. device'[r] = [device[r] EXCEPT !.quiet = AtMost(QuietCap, device[r].quiet + 1)]
    BY DEF Elapse
  <2> QED
    BY <2>1, <2>2 DEF DeviceView
<1> QED
  BY <1>2, <1>3 DEF SameEvidence

\* Time passes.
LEMMA ElapseKeeps ==
  ASSUME EdgeInv, Elapse
  PROVE  EdgeInv'
<1>1. /\ published' = published /\ acked' = acked /\ handling' = handling /\ plan' = plan /\ pc' = pc /\ sending' = sending
      /\ connected' = connected /\ connectedOnce' = connectedOnce /\ expired' = expired /\ starts' = starts /\ losses' = losses
      /\ batch' = <<>> /\ batch = <<>>
  BY DEF Elapse, processVars, worldVars, historyVars
<1>2. \A t \in Tasks : /\ task'[t] \in TaskView /\ task'[t].state = task[t].state /\ task'[t].confirmed = task[t].confirmed
                      /\ task'[t].attempts = task[t].attempts /\ task'[t].lateAttempts = task[t].lateAttempts
  BY ElapseFacts
<1>3. \A r \in Robots : device'[r] \in DeviceView
  BY ElapseFacts
<1>4. TypeOK'
  <2>1. task' \in [Tasks -> TaskView] /\ device' \in [Robots -> DeviceView]
    BY <1>2, <1>3 DEF Elapse
  <2> QED
    BY <1>1, <2>1 DEF EdgeInv, TypeOK
<1>5. SameEvidence
  BY ElapseFacts
<1>6. \A t \in Tasks : EvidenceSound(t)'
  BY <1>5, SameEvidenceSound DEF EdgeInv
<1>7. OneOpenTask'
  BY <1>5, SameFacts DEF EdgeInv, OneOpenTask
<1>8. PublicationsAreBounded'
  BY <1>1, <1>2 DEF EdgeInv, PublicationsAreBounded
<1>9. \A e \in Events : Recorded(e.task)' = Recorded(e.task)
  BY <1>5, SameFacts, Arrivals
<1>10. AckedEvidenceIsDurable'
  BY <1>1, <1>9 DEF EdgeInv, AckedEvidenceIsDurable, TypeOK
<1>11. HandlingSound'
  BY <1>1, <1>9, WrittenHandling DEF HandlingSound
<1>12. SendingSound'
  <2>1. pc = "sending" => sending \in Tasks /\ RobotOf[sending] \in Robots
    BY TaskFields DEF EdgeInv, SendingSound
  <2> QED
    BY <1>1, <1>2, <1>5, <2>1, SameFacts DEF EdgeInv, SendingSound
<1> QED
  BY <1>1, <1>4, <1>6, <1>7, <1>8, <1>10, <1>11, <1>12, NoBatch DEF EdgeInv

-----------------------------------------------------------------------------
(* decide_event.                                                           *)

\* The lines of an event whose own line is sound.
LEMMA EventKeeps ==
  ASSUME EdgeInv, NEW e \in Events, NEW b, NEW l, NEW p, EventBatch(b, e, l, p), ReceivedSound(b, p), Take(e, b)
  PROVE  EdgeInv'
<1>1. b \in Seq(Lines) /\ p \in 1 .. Len(b) /\ b[p].kind = "task_event_received" /\ b[p].event = e
  BY DEF EventBatch
<1>2. Listening /\ Handle(b) /\ handling' = e
  BY DEF Take
<1>3. \A i \in 1 .. Len(b) : LineSound(b, i) /\ b[i].kind # "task_publish_attempted"
  <2>1. \A i \in 1 .. Len(b) : LineSound(b, i)
    BY EventBatchSound
  <2>2. \A i \in 1 .. Len(b) : b[i].kind # "task_publish_attempted"
    BY DEF EventBatch, HarmlessKinds, LineConflict
  <2> QED
    BY <2>1, <2>2
<1> QED
  BY <1>1, <1>2, <1>3, HandleKeeps

\* The fields of the line that evidence starts with.
LEMMA ReceivedFields ==
  ASSUME NEW e, NEW d, NEW s, NEW reasons
  PROVE  LET l == LineReceived(e, d, s, reasons)
         IN  l.kind = "task_event_received" /\ l.event = e /\ l.disposition = d /\ l.after = s /\ l.reasons = reasons
BY DEF LineReceived

\* The session of a known task is the one it was created for.
LEMMA KnownSession ==
  ASSUME EdgeInv, NEW e \in Events, Known(e.task)
  PROVE  /\ e.task \in Tasks /\ task[e.task].state \in States /\ EvidenceSound(e.task)
         /\ Dev(e.task).boot # 0 /\ Dev(e.task).inc = Incarnation[e.task]
         /\ ~Foreign(e) => e.inc = Incarnation[e.task]
<1>1. e.task \in Tasks /\ task[e.task].state \in States /\ EvidenceSound(e.task)
  BY Arrivals, TaskFields DEF EdgeInv
<1> QED
  BY <1>1 DEF EvidenceSound, Foreign

\* A request-level rejection.
LEMMA RequestRejectionKeeps ==
  ASSUME EdgeInv, NEW e \in Events, ReceiveRequestRejection(e)
  PROVE  EdgeInv'
<1>1. e.task \in Tasks /\ RobotOf[e.task] \in Robots /\ e.seq = 0
  BY Arrivals, EdgeAssumption DEF ReceiveRequestRejection
<1>2. PICK l \in Lines : l = LineAnswered(e.task) /\ l.kind \in HarmlessKinds
  BY <1>1, LineTypes DEF LineAnswered, HarmlessKinds
<1>3. PICK m \in Lines : m = LineRegression(RobotOf[e.task]) /\ m.kind \in HarmlessKinds
  BY <1>1, LineTypes DEF LineRegression, HarmlessKinds
<1>4. PICK b \in Seq(Lines) : b = RegressionOf(e) \o <<l>> /\ \A i \in 1 .. Len(b) : b[i].kind \in HarmlessKinds
  <2>1. CASE RegressionOf(e) = <<>>
    <3>1. <<>> \o <<l>> = <<l>> /\ <<l>> \in Seq(Lines) /\ \A i \in 1 .. Len(<<l>>) : <<l>>[i].kind \in HarmlessKinds
      BY <1>2
    <3> QED
      BY <2>1, <3>1
  <2>2. CASE RegressionOf(e) = <<m>>
    <3>1. PICK c \in Seq(Lines) : c = <<m>> \o <<l>>
      <4>1. <<m>> \in Seq(Lines) /\ <<l>> \in Seq(Lines)
        BY OneLine
      <4> QED
        BY <4>1, ConcatProperties
    <3>2. Len(c) = 2 /\ c[1] = m /\ c[2] = l
      BY <3>1
    <3>3. \A i \in 1 .. Len(c) : i = 1 \/ i = 2
      BY <3>2
    <3>4. \A i \in 1 .. Len(c) : c[i].kind \in HarmlessKinds
      BY <1>2, <1>3, <3>2, <3>3
    <3> QED
      BY <2>2, <3>1, <3>4
  <2> QED
    BY <1>3, <2>1, <2>2 DEF RegressionOf
<1>5. Listening /\ Handle(b) /\ handling' = e
  BY <1>2, <1>4 DEF ReceiveRequestRejection, Take
<1>6. \A i \in 1 .. Len(b) : LineSound(b, i) /\ b[i].kind # "task_publish_attempted"
  <2>1. \A i \in 1 .. Len(b) : LineSound(b, i)
    BY <1>4, HarmlessSound
  <2>2. \A i \in 1 .. Len(b) : b[i].kind # "task_publish_attempted"
    BY <1>4 DEF HarmlessKinds
  <2> QED
    BY <2>1, <2>2
<1> QED
  BY <1>1, <1>5, <1>6, HandleKeeps

\* An event that is on record.
LEMMA DuplicateKeeps ==
  ASSUME EdgeInv, NEW e \in Events, ReceiveDuplicate(e)
  PROVE  EdgeInv'
<1>1. Known(e.task) /\ e.seq # 0 /\ e \in Recorded(e.task) /\ task[e.task].state \in States
  BY KnownSession DEF ReceiveDuplicate
<1>2. PICK s \in States : s = task[e.task].state
  BY <1>1
<1>3. PICK l : l = LineReceived(e, "duplicate", s, {} \cup (IF FALSE THEN {"conflicting_terminal"} ELSE {}))
  OBVIOUS
<1>4. PICK b : b = Evidence(e, "duplicate", s, {}, FALSE)
  OBVIOUS
<1>5. EventBatch(b, e, l, 1)
  BY <1>3, <1>4, EvidenceShape DEF Dispositions
<1>6. l.disposition = "duplicate" /\ l.reasons = {} /\ b[1] = l /\ l.event = e
  BY <1>3, <1>5, ReceivedFields DEF EventBatch
<1>7. ReceivedSound(b, 1)
  BY <1>1, <1>6 DEF ReceivedSound
<1> QED
  BY <1>2, <1>4, <1>5, <1>7, EventKeeps DEF ReceiveDuplicate

\* Other content at a key that is on record.
LEMMA ConflictingReplayKeeps ==
  ASSUME EdgeInv, NEW e \in Events, ReceiveConflictingReplay(e)
  PROVE  EdgeInv'
<1>1. Known(e.task) /\ e.seq # 0 /\ e.task \in Tasks /\ task[e.task].state \in States
  BY KnownSession DEF ReceiveConflictingReplay
<1>2. PICK s \in States, c \in BOOLEAN : s = task[e.task].state /\ c = Differs(e)
  BY <1>1 DEF Differs
<1>3. PICK l : l = LineReceived(e, "conflicting_replay", s, {"conflicting_replay"} \cup (IF c THEN {"conflicting_terminal"} ELSE {}))
  OBVIOUS
<1>4. PICK f \in Lines : f = LineFlag(e.task, "conflicting_replay") /\ f.kind \in HarmlessKinds
  <2>1. LineFlag(e.task, "conflicting_replay") \in Lines
    BY <1>1, LineTypes, ReasonSets
  <2> QED
    BY <2>1 DEF LineFlag, HarmlessKinds
<1>5. PICK b : b = Evidence(e, "conflicting_replay", s, {"conflicting_replay"}, c) \o <<f>>
  OBVIOUS
<1>6. EventBatch(Evidence(e, "conflicting_replay", s, {"conflicting_replay"}, c), e, l, 1)
  BY <1>3, EvidenceShape, ReasonSets DEF Dispositions
<1>7. EventBatch(b, e, l, 1)
  BY <1>4, <1>5, <1>6, AppendLine
<1>8. /\ l.disposition = "conflicting_replay" /\ b[1] = l /\ l.event = e
      /\ l.reasons = {"conflicting_replay"} \cup (IF c THEN {"conflicting_terminal"} ELSE {})
  BY <1>3, <1>7, ReceivedFields DEF EventBatch
<1>9. ReceivedSound(b, 1)
  BY <1>1, <1>2, <1>8 DEF ReceivedSound
<1> QED
  BY <1>2, <1>4, <1>5, <1>7, <1>9, EventKeeps DEF ReceiveConflictingReplay

\* The batch b keeps the event e as evidence, in its line l.
KeepBatch(b, e, l, reasons, c) ==
  /\ EventBatch(b, e, l, 1) /\ b[1] = l /\ l.event = e /\ l.disposition = "evidence"
  /\ l.reasons = reasons \cup (IF c THEN {"conflicting_terminal"} ELSE {})
  /\ Known(e.task) /\ e.seq # 0 /\ Key(e) \notin SeenKeys(e.task)

\* The lines of an event that is kept as evidence.
LEMMA KeepShape ==
  ASSUME EdgeInv, NEW e \in Events, Fresh(e), NEW reasons \in SUBSET StickyReasons, NEW c \in BOOLEAN,
         NEW b, b = Keep(e, reasons, c)
  PROVE  \E l : KeepBatch(b, e, l, reasons, c)
<1>1. Known(e.task) /\ e.seq # 0 /\ task[e.task].state \in States /\ Key(e) \notin SeenKeys(e.task)
  BY KnownSession DEF Fresh
<1>2. PICK s \in States : s = task[e.task].state
  BY <1>1
<1>3. PICK l : l = LineReceived(e, "evidence", s, reasons \cup (IF c THEN {"conflicting_terminal"} ELSE {}))
  OBVIOUS
<1>4. b = Evidence(e, "evidence", s, reasons, c)
  BY <1>2 DEF Keep
<1>5. EventBatch(b, e, l, 1)
  BY <1>3, <1>4, EvidenceShape DEF Dispositions
<1>6. /\ l.disposition = "evidence" /\ b[1] = l /\ l.event = e
      /\ l.reasons = reasons \cup (IF c THEN {"conflicting_terminal"} ELSE {})
  BY <1>3, <1>5, ReceivedFields DEF EventBatch
<1> QED
  BY <1>1, <1>5, <1>6 DEF KeepBatch

\* An event of a robot whose continuity is gone.
LEMMA FromRegressedKeeps ==
  ASSUME EdgeInv, NEW e \in Events, ReceiveFromRegressed(e)
  PROVE  EdgeInv'
<1>1. Fresh(e) /\ (Foreign(e) \/ Dev(e.task).regression)
  BY DEF ReceiveFromRegressed
<1>2. PICK c \in BOOLEAN : c = Differs(e)
  BY DEF Differs
<1>3. PICK b : b = Keep(e, {"session_regression"}, c)
  OBVIOUS
<1>4. PICK l : KeepBatch(b, e, l, {"session_regression"}, c)
  BY <1>1, <1>3, KeepShape, ReasonSets
<1>5. Take(e, RegressionOf(e) \o b)
  BY <1>2, <1>3 DEF ReceiveFromRegressed
<1>6. CASE Dev(e.task).regression
  <2>1. RegressionOf(e) \o b = b
    <3>1. b \in Seq(Lines) /\ RegressionOf(e) = <<>>
      BY <1>4, <1>6 DEF KeepBatch, RegressionOf, EventBatch
    <3> QED
      BY <3>1, ConcatEmptySeq
  <2>2. ReceivedSound(b, 1)
    BY <1>2, <1>4, <1>6 DEF KeepBatch, ReceivedSound, KeptSound, RegressionFirst
  <2> QED
    BY <1>4, <1>5, <2>1, <2>2, EventKeeps DEF KeepBatch
<1>7. CASE ~Dev(e.task).regression
  <2>1. PICK d : d = <<LineRegression(RobotOf[e.task])>> \o b
    OBVIOUS
  <2>2. Take(e, d)
    BY <1>1, <1>5, <1>7, <2>1 DEF RegressionOf
  <2>3. EventBatch(d, e, l, 2)
    BY <1>4, <2>1, PrependRegression DEF KeepBatch
  <2>4. d[2] = l /\ d[1] = LineRegression(RobotOf[e.task])
    BY <2>3 DEF EventBatch
  <2>5. ReceivedSound(d, 2)
    BY <1>2, <1>4, <2>4 DEF KeepBatch, ReceivedSound, KeptSound, RegressionFirst
  <2> QED
    BY <2>2, <2>3, <2>5, EventKeeps
<1> QED
  BY <1>6, <1>7

\* An event that is kept and flagged.
LEMMA FlaggedKeeps ==
  ASSUME EdgeInv, NEW e \in Events, Fresh(e), NEW r \in EvidenceConflictReasons, Take(e, Flagged(e, r))
  PROVE  EdgeInv'
<1>1. r \in StickyReasons /\ r # "conflicting_terminal" /\ e.task \in Tasks
  BY Arrivals DEF StickyReasons, EvidenceConflictReasons
<1>a. PICK reasons \in SUBSET StickyReasons, c \in BOOLEAN : reasons = {r} /\ ~c
  BY <1>1
<1>b. PICK b : b = Keep(e, reasons, c)
  OBVIOUS
<1>2. reasons = {r} /\ ~c /\ b = Keep(e, reasons, c) /\ b = Keep(e, {r}, FALSE)
  BY <1>a, <1>b
<1>3. PICK l : KeepBatch(b, e, l, reasons, c)
  <2>1. b = Keep(e, reasons, c)
    BY <1>2
  <2> QED
    BY <2>1, KeepShape
<1>4. PICK f \in Lines : f = LineFlag(e.task, r) /\ f.kind \in HarmlessKinds
  <2>1. LineFlag(e.task, r) \in Lines
    BY <1>1, LineTypes
  <2> QED
    BY <2>1 DEF LineFlag, HarmlessKinds
<1>5. PICK d : d = b \o <<f>>
  OBVIOUS
<1>6. EventBatch(d, e, l, 1) /\ d[1] = l
  BY <1>3, <1>4, <1>5, AppendLine DEF KeepBatch, EventBatch
<1>7. l.reasons = {r} /\ l.reasons \cap EvidenceConflictReasons # {}
  BY <1>2, <1>3 DEF KeepBatch
<1>8. ReceivedSound(d, 1)
  BY <1>1, <1>3, <1>6, <1>7 DEF KeepBatch, ReceivedSound, KeptSound
<1>9. Take(e, d)
  BY <1>2, <1>4, <1>5 DEF Flagged
<1> QED
  BY <1>6, <1>8, <1>9, EventKeeps

\* An event in order, kept without being applied.
LEMMA InOrderKeeps ==
  ASSUME EdgeInv, NEW e \in Events, Trusted(e), NEW c \in BOOLEAN, c => Differs(e),
         ~c => InOrder(e.task, e), ~c /\ Differs(e) => GateClosed(RobotOf[e.task]), Take(e, Keep(e, {}, c))
  PROVE  EdgeInv'
<1>1. Fresh(e) /\ ~Foreign(e)
  BY DEF Trusted
<1>a. PICK reasons \in SUBSET StickyReasons : reasons = {}
  OBVIOUS
<1>b. PICK b : b = Keep(e, reasons, c)
  OBVIOUS
<1>2. reasons = {} /\ b = Keep(e, reasons, c) /\ b = Keep(e, {}, c)
  BY <1>a, <1>b
<1>3. PICK l : KeepBatch(b, e, l, reasons, c)
  <2>1. b = Keep(e, reasons, c)
    BY <1>2
  <2> QED
    BY <1>1, <2>1, KeepShape
<1>4. e.inc = Incarnation[e.task]
  BY <1>1, <1>3, KnownSession DEF KeepBatch
<1>5. KeptSound(b, 1)
  BY <1>2, <1>3, <1>4 DEF KeepBatch, KeptSound
<1>6. ReceivedSound(b, 1)
  BY <1>2, <1>3, <1>5 DEF KeepBatch, ReceivedSound
<1> QED
  BY <1>2, <1>3, <1>6, EventKeeps DEF KeepBatch

\* An event of a task that is over.
LEMMA AfterTerminalKeeps ==
  ASSUME EdgeInv, NEW e \in Events, ReceiveAfterTerminal(e)
  PROVE  EdgeInv'
<1>1. PICK t \in Tasks : t = e.task
  BY Arrivals
<1>2. Trusted(e) /\ IsTerminal(t) /\ EvidenceSound(t) /\ Known(t) /\ Fresh(e)
  BY <1>1 DEF ReceiveAfterTerminal, EdgeInv, Trusted, Fresh
<1>3. PICK x \in task[t].seen : x.kind = task[t].state /\ x.kind \in TerminalKinds /\ x \in Recorded(t)
  BY <1>2 DEF EvidenceSound, IsTerminal, Recorded
<1>4. CASE e.kind \in TerminalKinds \/ ~Above(Key(e), task[t].max)
  <2>1. PICK c \in BOOLEAN : c = (e.kind \in TerminalKinds /\ e.kind # task[t].state)
    OBVIOUS
  <2>2. Take(e, Keep(e, {}, c))
    BY <1>1, <1>4, <2>1 DEF ReceiveAfterTerminal
  <2>3. c => Differs(e)
    BY <1>1, <1>3, <2>1 DEF Differs
  <2>4. ~c => InOrder(t, e)
    BY <1>2, <1>4, <2>1 DEF InOrder
  <2>5. ~c /\ Differs(e) => GateClosed(RobotOf[t])
    <3>1. SUFFICES ASSUME ~c, Differs(e)
                   PROVE  TwoEnds(t)
      BY <1>2 DEF EvidenceSound
    <3>2. PICK y \in Recorded(t) : y.kind \in TerminalKinds \ {e.kind}
      BY <1>1, <3>1 DEF Differs
    <3>3. e.kind = x.kind
      BY <1>3, <2>1, <3>1 DEF Differs
    <3> QED
      BY <1>3, <3>2, <3>3 DEF TwoEnds
  <2> QED
    BY <1>1, <1>2, <2>2, <2>3, <2>4, <2>5, InOrderKeeps
<1>5. CASE ~(e.kind \in TerminalKinds \/ ~Above(Key(e), task[t].max))
  <2>1. Take(e, Flagged(e, "post_terminal_activity"))
    BY <1>1, <1>5 DEF ReceiveAfterTerminal
  <2> QED
    BY <1>2, <2>1, FlaggedKeeps DEF EvidenceConflictReasons
<1> QED
  BY <1>4, <1>5

\* Late evidence of a task that is open.
LEMMA LateKeeps ==
  ASSUME EdgeInv, NEW e \in Events, ReceiveLate(e)
  PROVE  EdgeInv'
<1>1. PICK c \in BOOLEAN : c = Differs(e)
  BY DEF Differs
<1>2. Trusted(e) /\ InOrder(e.task, e) /\ Take(e, Keep(e, {}, c))
  BY <1>1 DEF ReceiveLate, InOrder
<1> QED
  BY <1>1, <1>2, InOrderKeeps

\* An event above the applied maximum that is not expected there.
LEMMA UnexpectedKeeps ==
  ASSUME EdgeInv, NEW e \in Events, ReceiveUnexpected(e)
  PROVE  EdgeInv'
<1>1. PICK r \in EvidenceConflictReasons : r = IF e.kind = "ACCEPTED" THEN "unexpected_acceptance" ELSE "unexpected_rejection"
  BY DEF EvidenceConflictReasons
<1>2. Fresh(e) /\ Take(e, Flagged(e, r))
  BY <1>1 DEF ReceiveUnexpected, Ahead, Trusted
<1> QED
  BY <1>2, FlaggedKeeps

\* An event that is applied.
LEMMA ExpectedKeeps ==
  ASSUME EdgeInv, NEW e \in Events, ReceiveExpected(e)
  PROVE  EdgeInv'
<1>1. /\ Trusted(e) /\ Fresh(e) /\ ~Foreign(e) /\ ~Dev(e.task).regression /\ Open(e.task) /\ Above(Key(e), task[e.task].max)
      /\ After(e) # "NONE" /\ Known(e.task) /\ e.seq # 0 /\ Key(e) \notin SeenKeys(e.task)
  BY DEF ReceiveExpected, Ahead, Trusted, Fresh
<1>2. e.inc = Incarnation[e.task] /\ e.kind \in Kinds
  BY <1>1, KnownSession, Arrivals
<1>3. PICK s \in States, c \in BOOLEAN : s = After(e) /\ c = Differs(e) /\ s = StateShowing(e)
  <2>1. After(e) = StateShowing(e) /\ StateShowing(e) \in States
    BY <1>1, <1>2 DEF After, StateShowing, Kinds, TerminalKinds, States, OpenStates
  <2> QED
    BY <2>1 DEF Differs
<1>4. PICK l : l = LineReceived(e, "applied", s, {} \cup (IF c THEN {"conflicting_terminal"} ELSE {}))
  OBVIOUS
<1>5. PICK b : b = Evidence(e, "applied", s, {}, c)
  OBVIOUS
<1>6. EventBatch(b, e, l, 1)
  BY <1>4, <1>5, EvidenceShape DEF Dispositions
<1>7. /\ l.disposition = "applied" /\ b[1] = l /\ l.event = e /\ l.after = s
      /\ l.reasons = IF c THEN {"conflicting_terminal"} ELSE {}
  BY <1>4, <1>6, ReceivedFields DEF EventBatch
<1>8. AppliedSound(b, 1)
  BY <1>1, <1>2, <1>3, <1>7 DEF AppliedSound
<1>9. ReceivedSound(b, 1)
  BY <1>1, <1>3, <1>7, <1>8 DEF ReceivedSound
<1>10. Take(e, b)
  BY <1>3, <1>5 DEF ReceiveExpected
<1> QED
  BY <1>6, <1>9, <1>10, EventKeeps

-----------------------------------------------------------------------------
(* The invariant is inductive.                                             *)

\* Before the first start nothing is recorded.
LEMMA InitKeeps ==
  ASSUME Init
  PROVE  EdgeInv
<1>1. \A t \in Tasks : task[t] = NoTaskYet
  BY DEF Init
<1>2. \A t \in Tasks : /\ task[t].state = "NONE" /\ task[t].seen = {} /\ task[t].replays = {} /\ ~task[t].conflict
                       /\ ~task[t].confirmed /\ task[t].attempts = 0 /\ task[t].lateAttempts = 0
  BY <1>1 DEF NoTaskYet, NewTask
<1>3. TypeOK
  <2>1. NewDevice \in DeviceView
    BY Bounds DEF NewDevice, DeviceView
  <2> QED
    BY <2>1, NewTaskType DEF Init, TypeOK
<1>4. BatchSound
  BY EmptySeq DEF Init, BatchSound
<1>5. ASSUME NEW t \in Tasks
      PROVE  EvidenceSound(t)
  <2>1. NothingYet(t) /\ ~Known(t) /\ ~IsTerminal(t) /\ Recorded(t) = {}
    BY <1>2 DEF NothingYet, Known, IsTerminal, TerminalKinds, Recorded
  <2> QED
    BY <1>2, <2>1 DEF EvidenceSound, Clean
<1>6. SendingSound /\ HandlingSound /\ AckedEvidenceIsDurable
  BY DEF Init, SendingSound, HandlingSound, AckedEvidenceIsDurable
<1>7. OneOpenTask
  BY <1>2 DEF OneOpenTask, Open, OpenStates
<1>8. PublicationsAreBounded
  BY <1>2, EdgeAssumption DEF Init, PublicationsAreBounded
<1> QED
  BY <1>3, <1>4, <1>5, <1>6, <1>7, <1>8 DEF EdgeInv

\* Every record that is written keeps the invariant.
LEMMA WriteLineKeeps ==
  ASSUME EdgeInv, WriteLine
  PROVE  EdgeInv'
<1>1. TypeOK'
  <2>1. task' \in [Tasks -> TaskView] /\ device' \in [Robots -> DeviceView]
    BY WriteLineType DEF EdgeInv, BatchSound, TypeInv
  <2> QED
    BY <2>1, WriteLineFrame DEF EdgeInv, TypeOK
<1> QED
  BY <1>1, QuietKeeps, CreatedKeeps, AttemptKeeps, ReceivedKeeps

\* Every step keeps the invariant.
LEMMA NextKeeps ==
  ASSUME EdgeInv, [Next]_vars
  PROVE  EdgeInv'
<1>1. CASE WriteLine
  BY <1>1, WriteLineKeeps
<1>2. CASE AckEvent
  BY <1>2, AckKeeps
<1>3. CASE Receive
  <2>1. CASE \E s \in Statuses : ReceiveRegressedStatus(s) \/ ReceiveStatus(s)
    BY <2>1, StatusKeeps
  <2>2. CASE \E e \in Events : ReceiveEvent(e)
    <3>1. PICK e \in Events : ReceiveEvent(e)
      BY <2>2
    <3> QED
      BY <3>1, RequestRejectionKeeps, DuplicateKeeps, ConflictingReplayKeeps, FromRegressedKeeps, AfterTerminalKeeps,
         LateKeeps, UnexpectedKeeps, ExpectedKeeps DEF ReceiveEvent
  <2> QED
    BY <1>3, <2>1, <2>2 DEF Receive
<1>4. CASE Publish
  BY <1>4, TickKeeps, PlanKeeps, AttemptDecisionKeeps, SendKeeps, EndWaitKeeps DEF Publish
<1>5. CASE Session
  BY <1>5, StartKeeps, ConnectKeeps, PlanKeeps, CrashKeeps DEF Session
<1>6. CASE Environment
  BY <1>6, CreateTaskKeeps, ExpireKeeps, ElapseKeeps DEF Environment
<1>7. CASE UNCHANGED vars
  <2>1. /\ task' = task /\ device' = device /\ pc' = pc /\ batch' = batch /\ handling' = handling /\ plan' = plan
        /\ sending' = sending /\ connected' = connected /\ connectedOnce' = connectedOnce /\ expired' = expired
        /\ starts' = starts /\ losses' = losses /\ published' = published /\ acked' = acked
    BY <1>7 DEF vars, viewVars, processVars, worldVars, historyVars
  <2>2. TypeOK' /\ HandlingSound'
    BY <2>1 DEF EdgeInv, TypeOK, HandlingSound, Recorded
  <2>3. SendingSound'
    BY <2>1 DEF EdgeInv, SendingSound, Open, GateClosed, TasksOf, Known
  <2>4. BatchSound'
    BY <2>1, BatchStays
  <2> QED
    BY <2>1, <2>2, <2>3, <2>4, DecisionKeeps
<1> QED
  BY <1>1, <1>2, <1>3, <1>4, <1>5, <1>6, <1>7 DEF Next

\* The inductive invariant holds of every behaviour of the Edge.
THEOREM EdgeInvariant == Spec => []EdgeInv
<1>1. Init => EdgeInv
  BY InitKeeps
<1>2. EdgeInv /\ [Next]_vars => EdgeInv'
  BY NextKeeps
<1> QED
  BY <1>1, <1>2, PTL DEF Spec

-----------------------------------------------------------------------------
(* What follows from it.                                                   *)

\* The variables of the Edge keep their types.
THEOREM TypeCorrect == Spec => []TypeOK
<1>1. EdgeInv => TypeOK
  BY DEF EdgeInv
<1> QED
  BY <1>1, EdgeInvariant, PTL

\* Every transport call is a durable attempt first, and the attempts are bounded.
THEOREM PublicationsBounded == Spec => []PublicationsAreBounded
<1>1. EdgeInv => PublicationsAreBounded
  BY DEF EdgeInv
<1> QED
  BY <1>1, EdgeInvariant, PTL

\* Two processes decide about a robot, and it never has two tasks that are not over.
THEOREM OneTaskPerRobot == Spec => []OneOpenTaskPerRobot
<1>1. ASSUME EdgeInv, NEW r \in Robots
      PROVE  Cardinality(OpenTasksOf(r)) <= 1
  <2>1. \A t, u \in OpenTasksOf(r) : t = u
    BY <1>1 DEF EdgeInv, OneOpenTask, OpenTasksOf, TasksOf
  <2>2. CASE OpenTasksOf(r) = {}
    BY <2>2, FS_EmptySet
  <2>3. CASE OpenTasksOf(r) # {}
    <3>1. PICK t : OpenTasksOf(r) = {t}
      BY <2>1, <2>3
    <3> QED
      BY <3>1, FS_Singleton
  <2> QED
    BY <2>2, <2>3
<1>2. EdgeInv => OneOpenTaskPerRobot
  BY <1>1 DEF OneOpenTaskPerRobot
<1> QED
  BY <1>2, EdgeInvariant, PTL

\* Contradictory evidence has closed the gate.
LEMMA ContradictionCloses ==
  ASSUME EdgeInv
  PROVE  EvidenceClosesGate
<1>1. SUFFICES ASSUME NEW t \in Tasks, Contradictory(t), ~GateClosed(RobotOf[t])
               PROVE  FALSE
  BY DEF EvidenceClosesGate
<1>2. EvidenceSound(t)
  BY DEF EdgeInv
<1>3. PICK x \in Recorded(t) :
        \/ x.inc # Incarnation[t]
        \/ IsTerminal(t) /\ x.kind \notin TerminalKinds /\ Above(Key(x), task[t].max)
        \/ \E y \in Recorded(t) \ {x} :
             Key(x) = Key(y) \/ ({x.kind, y.kind} \subseteq TerminalKinds /\ x.kind # y.kind)
  BY <1>1 DEF Contradictory
<1>4. Known(t)
  BY <1>2 DEF EvidenceSound, NothingYet, Recorded
<1>5. task[t].replays = {} /\ ~TwoEnds(t) /\ Clean(t) /\ Recorded(t) = task[t].seen
  BY <1>1, <1>2, <1>4 DEF EvidenceSound, Clean, Recorded
<1>6. x.inc = Incarnation[t] /\ InOrder(t, x)
  BY <1>2, <1>5 DEF EvidenceSound
<1>7. ~(IsTerminal(t) /\ x.kind \notin TerminalKinds /\ Above(Key(x), task[t].max))
  BY <1>6 DEF InOrder, IsTerminal
<1>8. \A y \in Recorded(t) \ {x} : Key(x) # Key(y)
  BY <1>2, <1>5 DEF EvidenceSound
<1>9. \A y \in Recorded(t) : ~(x.kind \in TerminalKinds /\ y.kind \in TerminalKinds /\ x.kind # y.kind)
  BY <1>5 DEF TwoEnds
<1> QED
  BY <1>3, <1>6, <1>7, <1>8, <1>9

\* An unquestioned task is where its highest event puts it.
LEMMA HighestDecides ==
  ASSUME EdgeInv
  PROVE  StateIsTheHighestEvidence
<1>1. SUFFICES ASSUME NEW t \in Tasks, Unquestioned(t)
               PROVE  /\ task[t].seen = {} => task[t].state = "CREATED"
                      /\ \A e \in task[t].seen : /\ e.inc = Incarnation[t]
                                                 /\ Highest(e, task[t].seen) => task[t].state = StateShowing(e)
  BY DEF StateIsTheHighestEvidence
<1>2. EvidenceSound(t) /\ Known(t) /\ Clean(t)
  BY <1>1 DEF EdgeInv, Unquestioned, Clean
<1>3. StateFollowsMax(t) /\ \A x \in task[t].seen : x.inc = Incarnation[t] /\ InOrder(t, x)
  BY <1>2 DEF EvidenceSound
<1>4. task[t].seen = {} => task[t].state = "CREATED"
  BY <1>3 DEF StateFollowsMax
<1>5. ASSUME NEW e \in task[t].seen, Highest(e, task[t].seen)
      PROVE  task[t].state = StateShowing(e)
  <2>1. e \in Events /\ task[t].seen \subseteq Events
    BY TaskFields DEF EdgeInv
  <2>2. CASE IsTerminal(t) /\ e.kind = task[t].state
    BY <2>2 DEF IsTerminal, StateShowing, TerminalKinds
  <2>3. CASE ~Above(Key(e), task[t].max)
    <3>1. ~(task[t].max = <<0, 0>>)
      <4>1. Key(e)[1] \in Nat /\ Key(e)[1] # 0
        BY <2>1, Arrivals
      <4> QED
        BY <2>3, <4>1 DEF Above
    <3>2. PICK m \in task[t].seen : Key(m) = task[t].max /\ task[t].state = StateShowing(m)
      BY <1>3, <3>1 DEF StateFollowsMax
    <3>3. ~Above(Key(m), Key(e)) /\ Key(m) \in Nat \X Nat /\ Key(e) \in Nat \X Nat
      BY <1>5, <2>1, <3>2, Arrivals DEF Highest
    <3>4. Key(m) = Key(e)
      BY <2>3, <3>2, <3>3, AboveOrder
    <3>5. m = e
      BY <1>2, <3>2, <3>4 DEF EvidenceSound
    <3> QED
      BY <3>2, <3>5
  <2> QED
    BY <1>3, <2>2, <2>3 DEF InOrder
<1> QED
  BY <1>3, <1>4, <1>5

\* Evidence decides, whatever the order it came in and wherever a crash tore its batch.
THEOREM EvidenceIsDecisive == Spec => []EvidenceDecides
<1>1. EdgeInv => EvidenceDecides
  BY ContradictionCloses, HighestDecides DEF EvidenceDecides, EdgeInv
<1> QED
  BY <1>1, EdgeInvariant, PTL

-----------------------------------------------------------------------------
(* Steps.                                                                  *)

\* Every step but the writing of a line leaves the evidence as it is.
LEMMA OtherSteps ==
  ASSUME EdgeInv, [Next]_vars, ~WriteLine
  PROVE  SameEvidence /\ (published' = published \/ Send)
<1>1. CASE Elapse
  BY <1>1, ElapseFacts DEF Elapse, historyVars
<1>2. CASE ~Elapse
  <2>1. task' = task /\ device' = device
    BY <1>2 DEF Next, Receive, Publish, Session, Environment, AckEvent, ReceiveRegressedStatus, ReceiveStatus, ReceiveEvent,
       ReceiveRequestRejection, ReceiveDuplicate, ReceiveConflictingReplay, ReceiveFromRegressed, ReceiveAfterTerminal,
       ReceiveLate, ReceiveUnexpected, ReceiveExpected, Take, Handle, Tick, PlanPublications, Attempt, Send, EndWait, EndTick,
       Start, Connect, Disconnect, Crash, CreateTask, Expire, vars, viewVars
  <2>2. published' = published \/ Send
    BY <1>2 DEF Next, Receive, Publish, Session, Environment, AckEvent, ReceiveRegressedStatus, ReceiveStatus, ReceiveEvent,
       ReceiveRequestRejection, ReceiveDuplicate, ReceiveConflictingReplay, ReceiveFromRegressed, ReceiveAfterTerminal,
       ReceiveLate, ReceiveUnexpected, ReceiveExpected, Take, Handle, Tick, PlanPublications, Attempt, EndWait, EndTick,
       Start, Connect, Disconnect, Crash, CreateTask, Expire, vars, historyVars
  <2> QED
    BY <2>1, <2>2 DEF SameEvidence
<1> QED
  BY <1>1, <1>2

\* A step that leaves the evidence as it is takes nothing back.
LEMMA SameTakesNothingBack ==
  ASSUME SameEvidence, TypeOK
  PROVE  FrozenAgainstEvidence /\ GateStaysClosed /\ SessionOnlyAdvances
<1>1. FrozenAgainstEvidence /\ SessionOnlyAdvances
  BY DeviceFields DEF SameEvidence, FrozenAgainstEvidence, SessionOnlyAdvances
<1>2. GateStaysClosed
  BY SameFacts DEF GateStaysClosed
<1> QED
  BY <1>1, <1>2

\* A record takes nothing back.
LEMMA WriteTakesNothingBack ==
  ASSUME EdgeInv, WriteLine
  PROVE  FrozenAgainstEvidence /\ GateStaysClosed /\ SessionOnlyAdvances
<1>0. TypeOK /\ TypeOK' /\ \A r \in Robots : device[r].boot \in Nat
  BY WriteLineKeeps, DeviceFields DEF EdgeInv
<1>1. CASE Line.kind \notin {"task_created", "task_publish_attempted", "task_event_received"}
  <2>1. OnlyGrows
    BY <1>0, <1>1, QuietKeeps
  <2>2. FrozenAgainstEvidence /\ SessionOnlyAdvances
    BY <2>1 DEF OnlyGrows, FrozenAgainstEvidence, SessionOnlyAdvances
  <2>3. GateStaysClosed
    BY <2>1, GrowsFacts DEF GateStaysClosed
  <2> QED
    BY <2>2, <2>3
<1>2. CASE Line.kind = "task_created"
  <2>1. PICK t \in Tasks : CreatedStep(t)
    BY <1>2, CreatedFacts
  <2>2. ~IsTerminal(t) /\ ~Dev(t).regression
    <3>1. ~Known(t) /\ ~GateClosed(RobotOf[t])
      BY <2>1 DEF CreatedStep, CreatedSound
    <3> QED
      BY <3>1 DEF Known, IsTerminal, TerminalKinds, GateClosed, Dev
  <2>3. FrozenAgainstEvidence /\ SessionOnlyAdvances
    BY <1>0, <2>1, <2>2 DEF CreatedStep, FrozenAgainstEvidence, SessionOnlyAdvances
  <2> QED
    BY <2>1, <2>3 DEF CreatedStep, GateStaysClosed
<1>3. CASE Line.kind = "task_publish_attempted"
  BY <1>0, <1>3, AttemptFacts, SameTakesNothingBack DEF AttemptStep
<1>4. CASE Line.kind = "task_event_received"
  <2>1. PICK l \in Lines, e \in Events, t \in Tasks : l = Line /\ e = l.event /\ t = e.task /\ l.kind = "task_event_received"
    BY <1>4, NextLine, LineFields, Arrivals DEF EdgeInv
  <2>2. EvidenceStep(l, e, t) /\ \A r \in Robots : GateClosed(r) => GateClosed(r)'
    BY <2>1, ReceivedFacts, ReceivedGate
  <2>3. task'[t].state = task[t].state \/ (Open(t) /\ ~Dev(t).regression)
    <3>1. l.disposition = "applied" => Open(t) /\ ~Dev(t).regression
      BY <2>1, <2>2 DEF EvidenceStep, ReceivedSound, AppliedSound
    <3> QED
      BY <2>2, <3>1 DEF EvidenceStep
  <2>4. FrozenAgainstEvidence /\ SessionOnlyAdvances
    <3>1. ~(Open(t) /\ IsTerminal(t))
      BY DEF Open, IsTerminal, OpenStates, TerminalKinds
    <3> QED
      BY <1>0, <2>2, <2>3, <3>1 DEF EvidenceStep, FrozenAgainstEvidence, SessionOnlyAdvances
  <2> QED
    BY <2>2, <2>4 DEF GateStaysClosed
<1> QED
  BY <1>1, <1>2, <1>3, <1>4

\* What the Edge concluded outlives every line, every message and every restart.
THEOREM NothingTakenBack == Spec => NothingIsTakenBack
<1>1. EdgeInv /\ [Next]_vars => [FrozenAgainstEvidence /\ GateStaysClosed /\ SessionOnlyAdvances]_vars
  <2>1. SUFFICES ASSUME EdgeInv, [Next]_vars
                 PROVE  FrozenAgainstEvidence /\ GateStaysClosed /\ SessionOnlyAdvances
    OBVIOUS
  <2>2. CASE WriteLine
    BY <2>1, <2>2, WriteTakesNothingBack
  <2>3. CASE ~WriteLine
    BY <2>1, <2>3, OtherSteps, SameTakesNothingBack DEF EdgeInv
  <2> QED
    BY <2>2, <2>3
<1> QED
  BY <1>1, EdgeInvariant, PTL DEF Spec, NothingIsTakenBack

-----------------------------------------------------------------------------
(* The Edge implements Authorization.                                      *)

Phases == [t \in Tasks |-> Phase(t)]
ClosedRobots == {r \in Robots : GateClosed(r)}

\* The phase that Authorization sees, in terms of the task.
LEMMA PhaseFacts ==
  ASSUME TypeOK, NEW t \in Tasks
  PROVE  /\ Phase(t) \in {"none", "open", "held", "over"}
         /\ Phase(t) = "none" <=> ~Known(t)
         /\ Phase(t) = "open" <=> Open(t) /\ task[t].state # "BLOCKED_AWAITING_HUMAN"
         /\ Phase(t) \in {"open", "held"} <=> Open(t)
<1>1. task[t].state \in States
  BY TaskFields
<1> QED
  BY <1>1 DEF Phase, Known, Open, IsTerminal, States, OpenStates, TerminalKinds

\* The phase of a task follows its state.
LEMMA SamePhase ==
  ASSUME NEW t \in Tasks, task'[t].state = task[t].state
  PROVE  Phase(t)' = Phase(t)
BY DEF Phase, Open, IsTerminal

\* What the gate of r reads is as it was.
SameGate(r) ==
  /\ device'[r].regression = device[r].regression
  /\ \A t \in Tasks : RobotOf[t] = r =>
       /\ task'[t].state = task[t].state /\ (task'[t].conflict <=> task[t].conflict)
       /\ task'[t].reasons \cap EvidenceConflictReasons = task[t].reasons \cap EvidenceConflictReasons

\* Such a gate is as it was.
LEMMA SameGateFacts ==
  ASSUME NEW r \in Robots, SameGate(r)
  PROVE  GateClosed(r)' <=> GateClosed(r)
<1>1. \A t \in Tasks : RobotOf[t] = r => (Known(t)' <=> Known(t))
  BY DEF SameGate, Known
<1>2. TasksOf(r)' = TasksOf(r)
  BY <1>1 DEF TasksOf
<1>3. \A t \in TasksOf(r) : t \in Tasks /\ RobotOf[t] = r
  BY DEF TasksOf
<1> QED
  BY <1>2, <1>3 DEF SameGate, GateClosed

\* A quiet line concerns the gate of at most one robot.
LEMMA QuietGates ==
  ASSUME EdgeInv, WriteLine, Line.kind \notin {"task_created", "task_publish_attempted", "task_event_received"}
  PROVE  (\A r \in Robots : SameGate(r)) \/ (\E q \in Robots : \A r \in Robots : r # q => SameGate(r))
<1>1. Line \in Lines /\ TypeOK
  BY NextLine DEF EdgeInv
<1>2. \A t \in Tasks : task[t] \in TaskView /\ RobotOf[t] \in Robots
  BY <1>1, TaskFields
<1>3. \A r \in Robots : device[r] \in DeviceView
  BY <1>1, DeviceFields
<1>4. task \in [Tasks -> TaskView] /\ device \in [Robots -> DeviceView]
  BY <1>1 DEF TypeOK
<1>5. ASSUME AllUnknown, NEW reason \in Clearable, AskAgain(reason)
      PROVE  \A r \in Robots : SameGate(r)
  <2>1. reason \notin EvidenceConflictReasons
    BY DEF Clearable, PresenceReasons, ProgressReasons, EvidenceConflictReasons
  <2>2. \A t \in Tasks : /\ task'[t].state = task[t].state /\ task'[t].conflict = task[t].conflict
                         /\ task'[t].reasons \in {task[t].reasons, task[t].reasons \cup {reason}}
    BY <1>2, <1>5 DEF AskAgain, TaskView
  <2>3. \A r \in Robots : device'[r].regression = device[r].regression
    BY <1>3, <1>5 DEF AllUnknown, DeviceView
  <2> QED
    BY <2>1, <2>2, <2>3 DEF SameGate
<1>6. CASE WriteStarted
  BY <1>5, <1>6, ReasonSets DEF WriteStarted
<1>7. CASE WriteSessionLost
  BY <1>5, <1>7, ReasonSets DEF WriteSessionLost
<1>8. CASE WriteConfirmed
  <2>1. task' = [task EXCEPT ![Line.task] = [task[Line.task] EXCEPT !.confirmed = TRUE, !.age.confirm = 0]] /\ device' = device
    BY <1>8 DEF WriteConfirmed
  <2>2. \A t \in Tasks : task'[t].state = task[t].state /\ task'[t].conflict = task[t].conflict /\ task'[t].reasons = task[t].reasons
    BY <1>2, <1>4, <2>1 DEF TaskView
  <2> QED
    BY <2>1, <2>2 DEF SameGate
<1>9. CASE WriteStatus \/ WriteHeartbeat \/ WriteLiveness
  <2>1. task' = task
    BY <1>9 DEF WriteStatus, WriteHeartbeat, WriteLiveness
  <2>2. \A r \in Robots : device'[r].regression = device[r].regression
    <3>1. CASE WriteStatus
      <4>1. PICK s : s = Line.status
        OBVIOUS
      <4>2. device' = [device EXCEPT ![s.robot] = [device[s.robot] EXCEPT !.connectivity = "ONLINE", !.quiet = 0,
                         !.boot = s.boot, !.inc = s.inc, !.idle = s.idle]]
        BY <3>1, <4>1 DEF WriteStatus
      <4> QED
        BY <1>3, <1>4, <4>2 DEF DeviceView
    <3>2. CASE WriteHeartbeat
      BY <1>3, <1>4, <3>2 DEF WriteHeartbeat, DeviceView
    <3>3. CASE WriteLiveness
      BY <1>3, <1>4, <3>3 DEF WriteLiveness, DeviceView
    <3> QED
      BY <1>9, <3>1, <3>2, <3>3
  <2> QED
    BY <2>1, <2>2 DEF SameGate
<1>10. CASE WriteRegression
  <2>1. Line.robot \in Robots /\ device' = [device EXCEPT ![Line.robot].regression = TRUE]
    BY <1>1, <1>10, LineFields DEF WriteRegression
  <2>2. \A r \in Robots : r # Line.robot => device'[r].regression = device[r].regression
    BY <1>4, <2>1
  <2>3. \A t \in Tasks : RobotOf[t] # Line.robot => task'[t] = task[t]
    BY <1>10 DEF WriteRegression, OpenTasksOf, TasksOf
  <2>4. \A r \in Robots : r # Line.robot => SameGate(r)
    BY <2>2, <2>3 DEF SameGate
  <2> QED
    BY <2>1, <2>4
<1>11. CASE WriteAnswered
  <2>1. task' = [task EXCEPT ![Line.task] = Answered(task[Line.task])] /\ device' = device
    BY <1>11 DEF WriteAnswered
  <2>2. \A t \in Tasks : task'[t].state = task[t].state /\ task'[t].conflict = task[t].conflict /\ task'[t].reasons = task[t].reasons
    BY <1>2, <1>4, <2>1 DEF Answered, TaskView
  <2> QED
    BY <2>1, <2>2 DEF SameGate
<1>12. CASE WriteFlag \/ WriteConflict
  <2>1. PICK t \in Tasks : t = Line.task
    BY <1>1, <1>12, LineFields DEF WriteFlag, WriteConflict
  <2>2. device' = device /\ \A u \in Tasks : u # t => task'[u] = task[u]
    BY <1>4, <1>12, <2>1 DEF WriteFlag, WriteConflict
  <2>3. \A r \in Robots : r # RobotOf[t] => SameGate(r)
    BY <2>2 DEF SameGate
  <2> QED
    BY <1>2, <2>3
<1> QED
  BY <1>6, <1>7, <1>8, <1>9, <1>10, <1>11, <1>12 DEF WriteLine, WriteCreated, WriteAttempted, WriteReceived

\* Gates that stay closed, and of which at most one closes, are a step of the closed robots.
LEMMA OneGateCloses ==
  ASSUME NEW q, \A r \in Robots : GateClosed(r) => GateClosed(r)',
         \A r \in Robots : r # q => (GateClosed(r)' <=> GateClosed(r))
  PROVE  ClosedRobots' = ClosedRobots \/ (q \in Robots /\ ClosedRobots' = ClosedRobots \cup {q})
BY DEF ClosedRobots

\* At first nothing is authorised and every gate is open.
LEMMA InitialAuthority ==
  ASSUME Init
  PROVE  Authority!Init
<1>1. \A t \in Tasks : task[t].state = "NONE"
  BY DEF Init, NoTaskYet, NewTask
<1>2. \A r \in Robots : ~GateClosed(r)
  <2>1. \A r \in Robots : ~device[r].regression
    BY DEF Init, NewDevice
  <2>2. \A r \in Robots : TasksOf(r) = {}
    BY <1>1 DEF TasksOf, Known
  <2> QED
    BY <2>1, <2>2 DEF GateClosed
<1>3. [t \in Tasks |-> Phase(t)] = [t \in Tasks |-> "none"]
  BY <1>1 DEF Phase, Open, OpenStates, IsTerminal, TerminalKinds
<1> QED
  BY <1>2, <1>3 DEF Authority!Init, Init

\* What is promised does not see a step that moves no task, closes no gate and sends nothing.
LEMMA Unseen ==
  ASSUME Phases' = Phases, ClosedRobots' = ClosedRobots, published' = published
  PROVE  UNCHANGED Authority!vars
BY DEF Authority!vars, Phases, ClosedRobots

\* A gate that closes is a step of Authorization.
LEMMA GateCloses ==
  ASSUME Phases' = Phases, NEW q \in Robots, ClosedRobots' = ClosedRobots \cup {q}, published' = published
  PROVE  Authority!Next
BY DEF Authority!Next, Authority!Close, Phases, ClosedRobots

\* A transport call is a Send of Authorization: the task is open, its gate too, and a send is left.
LEMMA SendIsPromised ==
  ASSUME EdgeInv, Send
  PROVE  [Authority!Next]_Authority!vars
<1>1. task' = task /\ device' = device /\ pc = "sending" /\ batch = <<>>
  BY DEF Send, viewVars
<1>2. Phases' = Phases /\ ClosedRobots' = ClosedRobots
  BY <1>1 DEF Phases, ClosedRobots, Phase, Open, IsTerminal, GateClosed, TasksOf, Known
<1>3. CASE ~connected
  BY <1>2, <1>3, Unseen DEF Send
<1>4. CASE connected
  <2>1. PICK t \in Tasks : /\ t = sending /\ Open(t) /\ task[t].state # "BLOCKED_AWAITING_HUMAN"
                           /\ ~GateClosed(RobotOf[t]) /\ published[t] < task[t].attempts
    BY <1>1 DEF EdgeInv, SendingSound
  <2>2. published' = [published EXCEPT ![t] = @ + 1]
    BY <1>4, <2>1 DEF Send
  <2>3. published[t] < MaxAttempts
    <3>1. published[t] \in Nat /\ task[t].attempts \in Nat /\ MaxAttempts \in Nat /\ task[t].attempts <= MaxAttempts
      BY TaskFields, EdgeAssumption DEF EdgeInv, TypeOK, PublicationsAreBounded
    <3> QED
      BY <2>1, <3>1
  <2>4. Phases[t] = "open" /\ RobotOf[t] \notin ClosedRobots
    BY <2>1, PhaseFacts DEF EdgeInv, Phases, ClosedRobots
  <2>5. Authority!Send(t)
    BY <1>2, <2>2, <2>3, <2>4 DEF Authority!Send, Phases, ClosedRobots
  <2> QED
    BY <2>5 DEF Authority!Next
<1> QED
  BY <1>3, <1>4

\* A created task is authorised: its robot is free.
LEMMA CreationIsPromised ==
  ASSUME EdgeInv, WriteLine, Line.kind = "task_created"
  PROVE  Authority!Next
<1>1. PICK t \in Tasks : CreatedStep(t)
  BY CreatedFacts
<1>2. TypeOK /\ TypeOK' /\ published' = published
  BY WriteLineKeeps, WriteLineFrame DEF EdgeInv
<1>3. Phase(t) = "none" /\ Phase(t)' = "open" /\ \A u \in Tasks : u # t => Phase(u)' = Phase(u)
  <2>1. ~Known(t) /\ task'[t].state = "CREATED"
    BY <1>1 DEF CreatedStep, CreatedSound, NewTask
  <2>2. Phase(t)' = "open"
    BY <2>1 DEF Phase, Open, OpenStates, IsTerminal, TerminalKinds
  <2>3. \A u \in Tasks : u # t => Phase(u)' = Phase(u)
    BY <1>1, SamePhase DEF CreatedStep
  <2> QED
    BY <1>2, <2>1, <2>2, <2>3, PhaseFacts
<1>4. Phases' = [Phases EXCEPT ![t] = "open"] /\ Phases[t] = "none"
  BY <1>3 DEF Phases
<1>5. ClosedRobots' = ClosedRobots /\ RobotOf[t] \notin ClosedRobots
  BY <1>1 DEF CreatedStep, CreatedSound, ClosedRobots
<1>6. \A u \in Tasks : RobotOf[u] = RobotOf[t] => Phases[u] \notin {"open", "held"}
  <2>1. \A u \in Tasks : RobotOf[u] = RobotOf[t] => ~Open(u)
    BY <1>1 DEF CreatedStep, CreatedSound, OpenTasksOf, TasksOf, Known, Open, OpenStates
  <2> QED
    BY <1>2, <2>1, PhaseFacts DEF Phases
<1>7. Authority!Authorise(t)
  BY <1>2, <1>4, <1>5, <1>6 DEF Authority!Authorise, Authority!Free, Authority!Engaged, Phases, ClosedRobots
<1> QED
  BY <1>7 DEF Authority!Next

\* A recorded event is a Report, closes a gate or is not seen.
LEMMA EvidenceIsPromised ==
  ASSUME EdgeInv, WriteLine, Line.kind = "task_event_received"
  PROVE  [Authority!Next]_Authority!vars
<1>1. PICK l \in Lines, e \in Events, t \in Tasks : l = Line /\ e = l.event /\ t = e.task /\ l.kind = "task_event_received"
  BY NextLine, LineFields, Arrivals DEF EdgeInv
<1>2. /\ EvidenceStep(l, e, t) /\ \A r \in Robots : GateClosed(r) => GateClosed(r)'
      /\ TypeOK /\ TypeOK' /\ published' = published /\ RobotOf[t] \in Robots
  BY <1>1, ReceivedFacts, ReceivedGate, WriteLineKeeps, WriteLineFrame, TaskFields DEF EdgeInv
<1>3. \A r \in Robots : r # RobotOf[t] => (GateClosed(r)' <=> GateClosed(r))
  <2>1. ASSUME NEW r \in Robots, r # RobotOf[t]
        PROVE  SameGate(r)
    <3>1. \A u \in Tasks : RobotOf[u] = r => task'[u] = task[u]
      BY <1>2, <2>1 DEF EvidenceStep
    <3> QED
      BY <1>2, <3>1 DEF EvidenceStep, SameGate
  <2> QED
    BY <2>1, SameGateFacts
<1>4. ClosedRobots' = ClosedRobots \/ ClosedRobots' = ClosedRobots \cup {RobotOf[t]}
  BY <1>2, <1>3, OneGateCloses
<1>5. \A u \in Tasks : u # t => Phase(u)' = Phase(u)
  BY <1>2, SamePhase DEF EvidenceStep
<1>6. CASE l.disposition = "applied"
  <2>1. Open(t)
    BY <1>1, <1>2, <1>6 DEF EvidenceStep, ReceivedSound, AppliedSound
  <2>2. Phases[t] \in {"open", "held"}
    BY <1>2, <2>1, PhaseFacts DEF Phases
  <2>3. Phase(t)' \in {"open", "held", "over"}
    <3>1. l.after = StateShowing(e) /\ e.kind \in Kinds
      BY <1>1, <1>2, <1>6, Arrivals DEF EvidenceStep, ReceivedSound, AppliedSound
    <3>2. task'[t].state \in OpenStates \cup TerminalKinds
      BY <1>2, <1>6, <3>1 DEF EvidenceStep, StateShowing, Kinds, TerminalKinds, OpenStates
    <3> QED
      BY <3>2 DEF Phase, Open, IsTerminal, OpenStates, TerminalKinds
  <2>4. Phases' = [Phases EXCEPT ![t] = Phase(t)']
    BY <1>5 DEF Phases
  <2>5. Authority!Report(t)
    BY <1>2, <1>4, <2>2, <2>3, <2>4 DEF Authority!Report, Authority!Engaged, Phases, ClosedRobots
  <2> QED
    BY <2>5 DEF Authority!Next
<1>7. CASE l.disposition # "applied"
  <2>1. Phase(t)' = Phase(t)
    BY <1>2, <1>7, SamePhase DEF EvidenceStep
  <2>2. Phases' = Phases
    BY <1>5, <2>1 DEF Phases
  <2> QED
    BY <1>2, <1>4, <2>2, Unseen, GateCloses
<1> QED
  BY <1>6, <1>7

\* Every other record closes at most one gate.
LEMMA QuietIsPromised ==
  ASSUME EdgeInv, WriteLine, Line.kind \notin {"task_created", "task_publish_attempted", "task_event_received"}
  PROVE  [Authority!Next]_Authority!vars
<1>1. TypeOK' /\ published' = published
  BY WriteLineKeeps, WriteLineFrame DEF EdgeInv
<1>2. OnlyGrows
  BY <1>1, QuietKeeps
<1>3. \A r \in Robots : GateClosed(r) => GateClosed(r)'
  BY <1>2, GrowsFacts
<1>4. Phases' = Phases
  BY <1>2, SamePhase DEF OnlyGrows, Phases
<1>5. CASE \A r \in Robots : SameGate(r)
  <2>1. ClosedRobots' = ClosedRobots
    BY <1>5, SameGateFacts DEF ClosedRobots
  <2> QED
    BY <1>1, <1>4, <2>1, Unseen
<1>6. CASE \E q \in Robots : \A r \in Robots : r # q => SameGate(r)
  <2>1. PICK q \in Robots : \A r \in Robots : r # q => SameGate(r)
    BY <1>6
  <2>2. ClosedRobots' = ClosedRobots \/ ClosedRobots' = ClosedRobots \cup {q}
    BY <1>3, <2>1, SameGateFacts, OneGateCloses
  <2> QED
    BY <1>1, <1>4, <2>2, Unseen, GateCloses
<1> QED
  BY <1>5, <1>6, QuietGates

\* A step that leaves the evidence as it is and sends nothing is not seen.
LEMMA SameIsUnseen ==
  ASSUME SameEvidence, published' = published
  PROVE  UNCHANGED Authority!vars
<1>1. Phases' = Phases
  BY SamePhase DEF SameEvidence, Phases
<1>2. ClosedRobots' = ClosedRobots
  BY SameFacts DEF ClosedRobots
<1> QED
  BY <1>1, <1>2, Unseen

\* The Edge authorises and sends only what Authorization allows.
THEOREM AuthorizationIsKept == Spec => AuthorizationKept
<1>1. Init => Authority!Init
  BY InitialAuthority
<1>2. EdgeInv /\ [Next]_vars => [Authority!Next]_Authority!vars
  <2>1. SUFFICES ASSUME EdgeInv, [Next]_vars
                 PROVE  [Authority!Next]_Authority!vars
    OBVIOUS
  <2>2. CASE WriteLine
    <3>1. CASE Line.kind = "task_publish_attempted"
      <4>1. SameEvidence /\ published' = published
        BY <2>1, <2>2, <3>1, AttemptFacts, WriteLineFrame DEF AttemptStep
      <4> QED
        BY <4>1, SameIsUnseen
    <3> QED
      BY <2>1, <2>2, <3>1, CreationIsPromised, EvidenceIsPromised, QuietIsPromised
  <2>3. CASE ~WriteLine
    BY <2>1, <2>3, OtherSteps, SameIsUnseen, SendIsPromised
  <2> QED
    BY <2>2, <2>3
<1> QED
  BY <1>1, <1>2, EdgeInvariant, PTL DEF Spec, AuthorizationKept, Authority!Spec
=============================================================================
