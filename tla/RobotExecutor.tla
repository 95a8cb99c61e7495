---------------------------- MODULE RobotExecutor ----------------------------
(***************************************************************************)
(* The robot half of the Edge task exchange: the executor rules of         *)
(* simulation/nxt_edge_task/executor.py together with the process that     *)
(* hosts them, simulation/scripts/mock_robot_task_device.py.               *)
(*                                                                         *)
(* Every decision of the process is a batch of journal lines.  The durable *)
(* variables below are the robot's view, which the code derives from those *)
(* lines and from nothing else; a handler fills `batch' and one action per *)
(* record kind writes and applies one line at a time.  A crash between two *)
(* lines therefore leaves each torn batch the file can be left with, and a *)
(* crash inside a line leaves `torn', which no later start accepts.        *)
(*                                                                         *)
(* Lines whose record changes nothing in the view (request_rejected, and   *)
(* request_received with disposition known_duplicate) are left out.        *)
(***************************************************************************)
EXTENDS Naturals, Sequences, FiniteSets

CONSTANTS
  Tasks,            \* task identifiers; an identifier is the digest of its request
  NoTask,           \* "no task": None in the code
  Incarnation,      \* Incarnation[t]: the incarnation the request t authorises
  Behaviors,        \* the scripted behaviours a start may be given
  MaxStarts,        \* bound: starts of the process over one incarnation
  FinalErrands,     \* bound: what the last of these starts may be for
  MaxIncarnations,  \* bound: provisionings of the identity
  MaxRejections     \* bound: request-level rejections of one incarnation

AllBehaviors ==
  { "accept_and_succeed", "fail_cannot_continue", "help_needs_manual_recharge",
    "help_unknown_fault", "silent_after_accept", "crash_after_accept",
    "crash_after_execution_started", "crash_after_result_persisted", "standby" }

ASSUME ConstantsAssumption ==
  /\ NoTask \notin Tasks
  /\ Incarnation \in [Tasks -> Nat \ {0}]
  /\ Behaviors \subseteq AllBehaviors
  /\ FinalErrands \subseteq {"serve", "reset"}
  /\ MaxStarts \in Nat /\ MaxIncarnations \in Nat /\ MaxRejections \in Nat

-----------------------------------------------------------------------------

VARIABLES
  \* the robot's view of its journal
  token,        \* provisioning token of the journal; 0 before provisioning
  boot,         \* boot_sequence
  task,         \* RobotTaskView of each task
  cond,         \* availability and the protection facts
  current,      \* current_task_id
  rejections,   \* request-level (sequence 0) rejections, in journal order
  confirmedRejections,
  \* the journal file beyond its lines
  anchored,     \* the high-water anchor exists
  torn,         \* the last line of the file is incomplete
  \* the process
  pc, errand, behavior, batch, handling, replay, out, sending,
  \* the environment
  expired,      \* requests whose expiry has passed
  minted,       \* provisioning tokens handed out so far
  starts,       \* starts of the process on this journal, completed or not
  \* history
  runs,         \* executions of each task, over every incarnation
  announced,    \* tasks whose acceptance the broker has taken over
  acked         \* requests acknowledged to the broker in this incarnation

journalVars == <<token, boot, task, cond, current, rejections, confirmedRejections>>
fileVars    == <<anchored, torn>>
processVars == <<pc, errand, behavior, batch, handling, replay, out, sending>>
worldVars   == <<expired, minted, starts, runs, announced, acked>>
vars        == <<journalVars, fileVars, processVars, worldVars>>

TerminalKinds == {"SUCCEEDED", "FAILED", "INCONCLUSIVE", "REJECTED"}
EventKinds    == TerminalKinds \cup {"ACCEPTED", "PROGRESS", "ASSISTANCE_REQUIRED"}
Reasons       == { "none", "energy_insufficient", "unknown_fault", "cannot_continue",
                   "not_started_after_restart", "interrupted_execution_unknown_outcome",
                   "task_expired", "robot_busy", "robot_faulted", "unsupported_task_type" }
Tri           == {"yes", "no", "unknown"}

Event == [boot : Nat, seq : Nat, kind : EventKinds, reason : Reasons]

TaskView ==
  [ decision  : {"unknown", "undecided", "accepted", "rejected"},
    reason    : Reasons,
    events    : Seq(Event),
    confirmed : SUBSET (Nat \X Nat),
    started   : BOOLEAN,
    completed : {"no", "SUCCEEDED", "FAILED"},
    terminal  : TerminalKinds \cup {"none"},
    step      : 0 .. 2 ]

Condition ==
  [ availability  : {"AVAILABLE", "BUSY", "AWAITING_HUMAN", "FAULTED"},
    awaitingHuman : BOOLEAN,
    canContinue   : Tri,
    needsRecharge : Tri ]

UnknownTask ==
  [ decision |-> "unknown", reason |-> "none", events |-> <<>>, confirmed |-> {},
    started |-> FALSE, completed |-> "no", terminal |-> "none", step |-> 0 ]

NewTask == [UnknownTask EXCEPT !.decision = "undecided"]

ClearCondition ==
  [ availability |-> "AVAILABLE", awaitingHuman |-> FALSE,
    canContinue |-> "yes", needsRecharge |-> "no" ]

\* A publication: a history event (ref = 0) or the rejection at index ref.
Publication(t, e, ref, again) == [task |-> t, event |-> e, ref |-> ref, again |-> again]

NoPublication == Publication(NoTask, [boot |-> 0, seq |-> 0, kind |-> "REJECTED", reason |-> "none"], 0, TRUE)

-----------------------------------------------------------------------------
(* Queries on the view.                                                    *)

EventsOf(t)     == {task[t].events[i] : i \in 1 .. Len(task[t].events)}
Key(e)          == <<e.boot, e.seq>>
IsTerminal(t)   == task[t].terminal # "none"
Accepted(t)     == task[t].decision = "accepted"
Unfinished(t)   == Accepted(t) /\ ~IsTerminal(t)
Blocked(t)      == ~IsTerminal(t) /\ \E e \in EventsOf(t) : e.kind = "ASSISTANCE_REQUIRED"
Unconfirmed(t)  == {e \in EventsOf(t) : Key(e) \notin task[t].confirmed}

\* Event sequences restart at 1 with every boot.
NextSequence(t) ==
  LET used == {e.seq : e \in {x \in EventsOf(t) : x.boot = boot}}
  IN  IF used = {} THEN 1 ELSE 1 + CHOOSE n \in used : \A m \in used : m <= n

\* A plausible slip: only this boot's events are published again.
PendingOfThisBoot ==
  UNION {{Publication(t, e, 0, FALSE) : e \in {x \in Unconfirmed(t) : x.boot = boot}} : t \in Tasks}

\* Persisted publications the broker has not confirmed.
PendingPublications ==
  (UNION {{Publication(t, e, 0, FALSE) : e \in Unconfirmed(t)} : t \in Tasks})
  \cup
  {Publication(rejections[n].task, rejections[n].event, n, FALSE) :
     n \in {m \in 1 .. Len(rejections) : m \notin confirmedRejections}}

History(t) == {Publication(t, e, 0, TRUE) : e \in EventsOf(t)}

Standby == behavior = "standby"

-----------------------------------------------------------------------------
(* Journal lines, by record kind.                                          *)

LineProvisioned(k)    == [kind |-> "robot_provisioned", token |-> k]
LineStarted(n)        == [kind |-> "robot_started", boot |-> n]
LineReceived(t)       == [kind |-> "request_received", task |-> t]
LineDecision(t, d, r) == [kind |-> "task_decision", task |-> t, decision |-> d, reason |-> r]
LineEvent(t, e)       == [kind |-> "task_event_persisted", task |-> t, event |-> e]
LineConfirmed(p)      == [kind |-> "event_publish_confirmed", task |-> p.task, key |-> Key(p.event), ref |-> p.ref]
LineBegun(t)          == [kind |-> "execution_started", task |-> t]
LineProgress(t, s)    == [kind |-> "execution_progress", task |-> t, step |-> s]
LineCompleted(t, o)   == [kind |-> "execution_completed", task |-> t, outcome |-> o]
LineReset             == [kind |-> "simulate_reset"]

MakeEvent(kind, reason, seq) == [boot |-> boot, seq |-> seq, kind |-> kind, reason |-> reason]

\* The event a task-level step reports, under the next free sequence of this boot.
Report(t, kind, reason) == LineEvent(t, MakeEvent(kind, reason, NextSequence(t)))

\* A plausible slip: a protected robot takes a task.
RefusalReasonUnprotected(t) ==
  IF t \in expired THEN "task_expired" ELSE IF current # NoTask THEN "robot_busy"
  ELSE IF Standby THEN "unsupported_task_type" ELSE "none"

\* Why a request without a decision is refused now; "none" when it is accepted.
RefusalReason(t) ==
  CASE cond.awaitingHuman \/ cond.availability \in {"FAULTED", "AWAITING_HUMAN"} ->
         IF cond.canContinue = "no" /\ cond.needsRecharge = "yes"
         THEN "energy_insufficient" ELSE "robot_faulted"
    [] ~cond.awaitingHuman /\ cond.availability \in {"AVAILABLE", "BUSY"} ->
         IF t \in expired THEN "task_expired"
         ELSE IF current # NoTask THEN "robot_busy"
         ELSE IF Standby THEN "unsupported_task_type"
         ELSE "none"

\* The decision and its event, always sequence 1 of the current boot.
DecideNewTask(t) ==
  LET r == RefusalReason(t)
  IN  IF r = "none"
      THEN << LineDecision(t, "accepted", "none"), LineEvent(t, MakeEvent("ACCEPTED", "none", 1)) >>
      ELSE << LineDecision(t, "rejected", r), LineEvent(t, MakeEvent("REJECTED", r, 1)) >>

-----------------------------------------------------------------------------
(* The condition, derived from each persisted event.                       *)

\* A plausible slip: a later reason overwrites an earlier fault.
ProtectForgetful(c, reason) ==
  [ c EXCEPT !.awaitingHuman = TRUE,
             !.availability = IF reason = "unknown_fault" THEN "FAULTED" ELSE "AWAITING_HUMAN" ]

\* Earlier fault and energy facts are kept, except that an unknown fault makes both unknown.
Protect(c, reason) ==
  LET faulted == c.availability = "FAULTED"
      waiting == IF faulted THEN "FAULTED" ELSE "AWAITING_HUMAN"
      held    == [c EXCEPT !.awaitingHuman = TRUE]
  IN  CASE reason = "unknown_fault" ->
             [held EXCEPT !.availability = "FAULTED", !.canContinue = "unknown", !.needsRecharge = "unknown"]
        [] reason = "energy_insufficient" ->
             [held EXCEPT !.availability = "AWAITING_HUMAN", !.canContinue = "no", !.needsRecharge = "yes"]
        [] reason = "cannot_continue" ->
             [held EXCEPT !.availability = waiting, !.canContinue = "no"]
        [] reason \notin {"unknown_fault", "energy_insufficient", "cannot_continue"} ->
             [held EXCEPT !.availability = waiting]

ConditionAfter(c, e) ==
  CASE e.kind \in {"ASSISTANCE_REQUIRED", "FAILED", "INCONCLUSIVE"} -> Protect(c, e.reason)
    [] e.kind = "SUCCEEDED"                                        -> ClearCondition
    [] e.kind \in {"ACCEPTED", "PROGRESS", "REJECTED"}             -> c

-----------------------------------------------------------------------------
(* Writing one journal line and applying it to the view.                   *)

Line == Head(batch)

WriteProvisioned ==
  /\ Line.kind = "robot_provisioned"
  /\ token' = Line.token
  /\ UNCHANGED <<boot, task, cond, current, rejections, confirmedRejections, runs>>

WriteStarted ==
  /\ Line.kind = "robot_started"
  /\ boot' = Line.boot
  /\ UNCHANGED <<token, task, cond, current, rejections, confirmedRejections, runs>>

WriteReceived ==
  /\ Line.kind = "request_received"
  /\ task' = [task EXCEPT ![Line.task] = NewTask]
  /\ UNCHANGED <<token, boot, cond, current, rejections, confirmedRejections, runs>>

WriteDecision ==
  /\ Line.kind = "task_decision"
  /\ task' = [task EXCEPT ![Line.task].decision = Line.decision, ![Line.task].reason = Line.reason]
  /\ IF Line.decision = "accepted"
     THEN current' = Line.task /\ cond' = [cond EXCEPT !.availability = "BUSY"]
     ELSE UNCHANGED <<current, cond>>
  /\ UNCHANGED <<token, boot, rejections, confirmedRejections, runs>>

WriteRequestRejection ==
  /\ Line.kind = "task_event_persisted" /\ Line.event.seq = 0
  /\ rejections' = Append(rejections, [task |-> Line.task, event |-> Line.event])
  /\ UNCHANGED <<token, boot, task, cond, current, confirmedRejections, runs>>

WriteEvent ==
  LET t == Line.task
      e == Line.event
      ends == e.kind \in TerminalKinds
  IN  /\ Line.kind = "task_event_persisted" /\ e.seq # 0
      /\ task' = [task EXCEPT ![t].events = Append(@, e),
                              ![t].terminal = IF ends THEN e.kind ELSE @]
      /\ cond' = ConditionAfter(cond, e)
      /\ current' = IF ends /\ current = t THEN NoTask ELSE current
      /\ UNCHANGED <<token, boot, rejections, confirmedRejections, runs>>

WriteConfirmed ==
  /\ Line.kind = "event_publish_confirmed"
  /\ IF Line.ref # 0
     THEN confirmedRejections' = confirmedRejections \cup {Line.ref} /\ UNCHANGED task
     ELSE task' = [task EXCEPT ![Line.task].confirmed = @ \cup {Line.key}] /\ UNCHANGED confirmedRejections
  /\ UNCHANGED <<token, boot, cond, current, rejections, runs>>

AddStep(a, b) == a + b      \* mutant: steps add up
AtLeast(a, b) == IF a < b THEN b ELSE a

WriteExecutionStarted ==
  /\ Line.kind = "execution_started"
  /\ task' = [task EXCEPT ![Line.task].started = TRUE, ![Line.task].step = AtLeast(@, 1)]
  /\ runs' = [runs EXCEPT ![Line.task] = @ + 1]
  /\ UNCHANGED <<token, boot, cond, current, rejections, confirmedRejections>>

WriteExecutionProgress ==
  /\ Line.kind = "execution_progress"
  /\ task' = [task EXCEPT ![Line.task].step = AtLeast(@, Line.step)]
  /\ UNCHANGED <<token, boot, cond, current, rejections, confirmedRejections, runs>>

WriteExecutionCompleted ==
  /\ Line.kind = "execution_completed"
  /\ task' = [task EXCEPT ![Line.task].completed = Line.outcome]
  /\ UNCHANGED <<token, boot, cond, current, rejections, confirmedRejections, runs>>

WriteReset ==
  /\ Line.kind = "simulate_reset"
  /\ cond' = ClearCondition
  /\ current' = NoTask
  /\ UNCHANGED <<token, boot, task, rejections, confirmedRejections, runs>>

WriteLine ==
  /\ batch # <<>>
  /\ batch' = Tail(batch)
  /\ \/ WriteProvisioned \/ WriteStarted \/ WriteReceived \/ WriteDecision
     \/ WriteRequestRejection \/ WriteEvent \/ WriteConfirmed
     \/ WriteExecutionStarted \/ WriteExecutionProgress \/ WriteExecutionCompleted \/ WriteReset
  /\ UNCHANGED <<fileVars, pc, errand, behavior, handling, replay, out, sending,
                 expired, minted, starts, announced, acked>>

-----------------------------------------------------------------------------
(* Start.  Identity continuity first, then one batch: the provisioning     *)
(* line of an explicit first boot, the boot line, and the three restart    *)
(* passes, each decided on the view as the earlier lines of the batch      *)
(* leave it (the code's scratch copy).                                     *)

EnterProcess ==
  /\ pc' = "pass1"
  /\ behavior' \in Behaviors
  /\ errand' \in IF starts + 1 < MaxStarts THEN {"serve", "reset"} ELSE FinalErrands
  /\ starts' = starts + 1
  /\ handling' = NoTask /\ replay' = {} /\ out' = {} /\ sending' = NoPublication

\* Explicit first boot: only over a missing or empty journal, whose stale anchor is discarded.
StartProvisioning ==
  /\ pc = "down" /\ ~torn /\ token = 0 /\ minted < MaxIncarnations /\ starts < MaxStarts
  /\ minted' = minted + 1
  /\ anchored' = FALSE
  /\ batch' = << LineProvisioned(minted + 1), LineStarted(1) >>
  /\ EnterProcess
  /\ UNCHANGED <<journalVars, torn, expired, runs, announced, acked>>

\* A restart: the journal reads back whole, is anchored and carries its provisioning.
StartAgain ==
  /\ pc = "down" /\ ~torn /\ anchored /\ token # 0 /\ starts < MaxStarts
  /\ batch' = << LineStarted(boot + 1) >>
  /\ EnterProcess
  /\ UNCHANGED <<journalVars, fileVars, expired, minted, runs, announced, acked>>

\* Pass 1: an accepted task the previous boot left unfinished is closed, never resumed.
Interrupted(t) == Unfinished(t)

\* A plausible slip: what was not recorded as completed is reported as never started.
OutcomeIgnoringStart(t) ==
  IF task[t].completed = "no" THEN Report(t, "FAILED", "not_started_after_restart")
  ELSE Report(t, task[t].completed, "none")

OutcomeAfterRestart(t) ==
  CASE task[t].completed = "SUCCEEDED" -> Report(t, "SUCCEEDED", "none")
    [] task[t].completed = "FAILED"    -> Report(t, "FAILED", "cannot_continue")
    [] task[t].completed = "no" /\ ~task[t].started ->
         Report(t, "FAILED", "not_started_after_restart")
    [] task[t].completed = "no" /\ task[t].started ->
         Report(t, "INCONCLUSIVE", "interrupted_execution_unknown_outcome")

CloseInterrupted(t) ==
  /\ pc = "pass1" /\ batch = <<>> /\ Interrupted(t)
  /\ batch' = << OutcomeAfterRestart(t) >>
  /\ UNCHANGED pc

EndPass1 ==
  /\ pc = "pass1" /\ batch = <<>> /\ \A t \in Tasks : ~Interrupted(t)
  /\ pc' = "pass2" /\ UNCHANGED batch

\* Pass 2: a rejection whose event was never persisted gets it.
ReportRejected(t) ==
  /\ pc = "pass2" /\ batch = <<>>
  /\ task[t].decision = "rejected" /\ task[t].events = <<>>
  /\ batch' = << LineEvent(t, MakeEvent("REJECTED", task[t].reason, 1)) >>
  /\ UNCHANGED pc

EndPass2 ==
  /\ pc = "pass2" /\ batch = <<>>
  /\ \A t \in Tasks : ~(task[t].decision = "rejected" /\ task[t].events = <<>>)
  /\ pc' = "pass3" /\ UNCHANGED batch

\* Pass 3: a request persisted without a decision is decided as if it had just arrived.
DecidePersisted(t) ==
  /\ pc = "pass3" /\ batch = <<>> /\ task[t].decision = "undecided"
  /\ batch' = DecideNewTask(t)
  /\ UNCHANGED pc

Recover ==
  /\ \/ \E t \in Tasks : CloseInterrupted(t) \/ ReportRejected(t) \/ DecidePersisted(t)
     \/ EndPass1 \/ EndPass2
  /\ UNCHANGED <<journalVars, fileVars, errand, behavior, handling, replay, out, sending, worldVars>>

\* The end of the boot batch: the anchor is written and the process connects.
FinishBoot ==
  /\ pc = "pass3" /\ batch = <<>> /\ \A t \in Tasks : task[t].decision # "undecided"
  /\ anchored' = TRUE
  /\ pc' = "idle"
  /\ UNCHANGED <<journalVars, torn, errand, behavior, batch, handling, replay, out, sending, worldVars>>

-----------------------------------------------------------------------------
(* Requests.  The callback runs from the main loop or nested in a hop-1    *)
(* wait, never between two lines of a batch; a delivery is acknowledged    *)
(* only after its records are durable.                                     *)

Listening == pc \in {"idle", "awaiting"} /\ errand # "reset" /\ batch = <<>> /\ handling = NoTask

AnyIncarnation(t)     == TRUE                      \* mutant: the authorised incarnation is not compared
ForThisIncarnation(t) == Incarnation[t] = token

Receive(t) ==
  /\ Listening
  /\ handling' = t
  /\ CASE ~ForThisIncarnation(t) ->
            /\ Len(rejections) < MaxRejections
            /\ batch' = << LineEvent(t, MakeEvent("REJECTED", "none", 0)) >>
            /\ UNCHANGED replay
       [] ForThisIncarnation(t) /\ task[t].decision # "unknown" ->
            /\ replay = {}      \* bound: one queued replay at a time
            /\ replay' = History(t)
            /\ UNCHANGED batch
       [] ForThisIncarnation(t) /\ task[t].decision = "unknown" ->
            /\ batch' = << LineReceived(t) >> \o DecideNewTask(t)
            /\ UNCHANGED replay
  /\ UNCHANGED <<journalVars, fileVars, pc, errand, behavior, out, sending, worldVars>>

AckRequest ==
  /\ handling # NoTask /\ batch = <<>>
  /\ acked' = acked \cup {handling}
  /\ handling' = NoTask
  /\ UNCHANGED <<journalVars, fileVars, pc, errand, behavior, batch, replay, out, sending,
                 expired, minted, starts, runs, announced>>

-----------------------------------------------------------------------------
(* The periodic tick: at most one simulated execution step, then the       *)
(* pending publications.  No step is taken while an event of the task is   *)
(* unconfirmed.                                                            *)

AtRest == pc = "idle" /\ batch = <<>> /\ handling = NoTask

\* A plausible slip: the step does not wait for the confirmations.
CanAdvanceAtOnce(t) ==
  /\ AtRest /\ errand = "serve"
  /\ current = t /\ ~IsTerminal(t) /\ ~Blocked(t)
  /\ behavior \notin {"standby", "crash_after_accept"}

CanAdvance(t) ==
  /\ AtRest /\ errand = "serve"
  /\ current = t /\ ~IsTerminal(t) /\ ~Blocked(t) /\ Unconfirmed(t) = {}
  /\ behavior \notin {"standby", "crash_after_accept"}

BeginExecution(t) ==
  /\ CanAdvance(t) /\ task[t].step = 0
  /\ batch' = IF behavior \in {"crash_after_execution_started", "silent_after_accept"}
              THEN << LineBegun(t) >>
              ELSE << LineBegun(t), Report(t, "PROGRESS", "none") >>
  /\ pc' = IF behavior = "crash_after_execution_started" THEN "exiting" ELSE "drain"

Collect(t) ==
  /\ CanAdvance(t) /\ task[t].step = 1
  /\ behavior \in {"accept_and_succeed", "crash_after_result_persisted"}
  /\ batch' = << LineProgress(t, 2), Report(t, "PROGRESS", "none") >>
  /\ pc' = "drain"

GiveUp(t) ==
  /\ CanAdvance(t) /\ task[t].step = 1 /\ behavior = "fail_cannot_continue"
  /\ batch' = << LineCompleted(t, "FAILED"), Report(t, "FAILED", "cannot_continue") >>
  /\ pc' = "drain"

AskForHelp(t) ==
  /\ CanAdvance(t) /\ task[t].step = 1
  /\ behavior \in {"help_needs_manual_recharge", "help_unknown_fault"}
  /\ batch' = << Report(t, "ASSISTANCE_REQUIRED",
                        IF behavior = "help_unknown_fault" THEN "unknown_fault" ELSE "energy_insufficient") >>
  /\ pc' = "drain"

CompleteExecution(t) ==
  /\ CanAdvance(t) /\ task[t].step = 2
  /\ behavior \in {"accept_and_succeed", "crash_after_result_persisted"}
  /\ batch' = << LineCompleted(t, "SUCCEEDED"), Report(t, "SUCCEEDED", "none") >>
  /\ pc' = IF behavior = "crash_after_result_persisted" THEN "exiting" ELSE "drain"

\* The crash_after_accept script leaves before the acceptance is published.
LeaveAfterAccept(t) ==
  /\ AtRest /\ errand = "serve" /\ behavior = "crash_after_accept"
  /\ current = t /\ ~IsTerminal(t) /\ ~Blocked(t)
  /\ pc' = "exiting" /\ UNCHANGED batch

ExecutionStep ==
  /\ \E t \in Tasks : \/ BeginExecution(t) \/ Collect(t) \/ GiveUp(t) \/ AskForHelp(t)
                      \/ CompleteExecution(t) \/ LeaveAfterAccept(t)
  /\ UNCHANGED <<journalVars, fileVars, errand, behavior, handling, replay, out, sending, worldVars>>

\* The line that clears the protection is the last one.
Abandoned == IF current # NoTask /\ ~IsTerminal(current)
             THEN << LineCompleted(current, "FAILED"), Report(current, "FAILED", "cannot_continue") >>
             ELSE <<>>

ResetLines == Abandoned \o << LineReset >>

\* An operator reset at the robot is a start of its own that ends after one drain.
SimulateReset ==
  /\ AtRest /\ errand = "reset"
  /\ batch' = ResetLines
  /\ pc' = "drain" /\ errand' = "leave"
  /\ UNCHANGED <<journalVars, fileVars, behavior, handling, replay, out, sending, worldVars>>

-----------------------------------------------------------------------------
(* Publishing: replays first, then what the broker has not confirmed, in   *)
(* key order, one hop-1 wait at a time.                                    *)

Before(p, q) ==
  \/ p.again /\ ~q.again
  \/ /\ ~p.again /\ ~q.again
     /\ \/ p.event.boot < q.event.boot
        \/ p.event.boot = q.event.boot /\ p.event.seq < q.event.seq
        \/ p.event.boot = q.event.boot /\ p.event.seq = q.event.seq /\ p.ref < q.ref

PublishPending ==
  /\ batch = <<>> /\ handling = NoTask
  /\ pc = "drain" \/ (pc = "idle" /\ errand = "serve")
  /\ out' = replay \cup PendingPublications
  /\ replay' = {}
  /\ pc = "idle" => out' # {}
  /\ pc' = IF out' = {} THEN "idle" ELSE "publishing"
  /\ UNCHANGED <<journalVars, fileVars, errand, behavior, batch, handling, sending, worldVars>>

SendNext ==
  /\ pc = "publishing" /\ batch = <<>>
  /\ \E p \in out : /\ \A q \in out : ~Before(q, p)
                    /\ sending' = p
                    /\ out' = out \ {p}
  /\ pc' = "awaiting"
  /\ UNCHANGED <<journalVars, fileVars, errand, behavior, batch, handling, replay, worldVars>>

Announces(p) == {t \in Tasks : p.task = t /\ p.event.kind = "ACCEPTED"}

EndWait ==
  /\ pc = "awaiting" /\ batch = <<>> /\ handling = NoTask
  /\ sending' = NoPublication
  /\ pc' = IF out = {} THEN "idle" ELSE "publishing"
  /\ UNCHANGED <<journalVars, fileVars, errand, behavior, handling, replay, out, expired, minted, starts, runs, acked>>

\* A first publication that is confirmed is journaled as such; a replay is not.
HopOneConfirmed ==
  /\ EndWait
  /\ announced' = announced \cup Announces(sending)
  /\ batch' = IF sending.again THEN <<>> ELSE << LineConfirmed(sending) >>

\* No confirmation in time: the broker may have the message all the same.
HopOneTimeout ==
  /\ EndWait
  /\ announced' \in {announced, announced \cup Announces(sending)}
  /\ UNCHANGED batch

-----------------------------------------------------------------------------
(* Leaving, crashing, losing the journal; the clock.                       *)

StopProcess ==
  /\ pc' = "down" /\ errand' = "serve" /\ behavior' = "none" /\ batch' = <<>>
  /\ handling' = NoTask /\ replay' = {} /\ out' = {} /\ sending' = NoPublication
  /\ UNCHANGED <<journalVars, anchored, expired, minted, starts, runs, acked>>

\* The scripted exits, and the end of a reset errand; a stop needs a boot to come back with.
Leave ==
  /\ batch = <<>> /\ handling = NoTask /\ starts < MaxStarts
  /\ pc = "exiting" \/ (pc = "idle" /\ errand = "leave")
  /\ StopProcess
  /\ UNCHANGED <<torn, announced>>

\* A crash in the middle of a batch keeps the lines written so far, and perhaps part of the next.
Crash ==
  /\ pc # "down" /\ starts < MaxStarts
  /\ StopProcess
  /\ torn' \in IF batch = <<>> THEN {torn} ELSE {torn, TRUE}
  /\ announced' \in {announced, announced \cup Announces(sending)}

\* The journal file is lost or removed while the robot is down; its anchor may survive it.
LoseJournal ==
  /\ pc = "down" /\ (token # 0 \/ torn) /\ minted < MaxIncarnations
  /\ token' = 0 /\ boot' = 0
  /\ task' = [t \in Tasks |-> UnknownTask]
  /\ cond' = ClearCondition /\ current' = NoTask
  /\ rejections' = <<>> /\ confirmedRejections' = {}
  /\ torn' = FALSE
  /\ anchored' \in {anchored, FALSE}
  /\ acked' = {} /\ starts' = 0
  /\ UNCHANGED <<processVars, expired, minted, runs, announced>>

\* Expiry is read by the decision only, so it need not pass later.
Expire(t) ==
  /\ t \notin expired /\ task[t].decision \in {"unknown", "undecided"}
  /\ expired' = expired \cup {t}
  /\ UNCHANGED <<journalVars, fileVars, processVars, minted, starts, runs, announced, acked>>

-----------------------------------------------------------------------------

Init ==
  /\ token = 0 /\ boot = 0 /\ task = [t \in Tasks |-> UnknownTask]
  /\ cond = ClearCondition /\ current = NoTask
  /\ rejections = <<>> /\ confirmedRejections = {}
  /\ anchored = FALSE /\ torn = FALSE
  /\ pc = "down" /\ errand = "serve" /\ behavior = "none" /\ batch = <<>>
  /\ handling = NoTask /\ replay = {} /\ out = {} /\ sending = NoPublication
  /\ expired = {} /\ minted = 0 /\ starts = 0
  /\ runs = [t \in Tasks |-> 0] /\ announced = {} /\ acked = {}

Boot == StartProvisioning \/ StartAgain \/ Recover \/ FinishBoot

Next ==
  \/ WriteLine
  \/ Boot
  \/ \E t \in Tasks : Receive(t) \/ Expire(t)
  \/ AckRequest
  \/ ExecutionStep \/ SimulateReset
  \/ PublishPending \/ SendNext \/ HopOneConfirmed \/ HopOneTimeout
  \/ Leave \/ Crash \/ LoseJournal

Spec == Init /\ [][Next]_vars

\* The main loop ticks by its clock and a hop-1 wait ends by its deadline, however many
\* deliveries come in between (strong fairness); a device that is down is started again;
\* a publication that is repeated for ever is confirmed in the end.
Fairness ==
  /\ WF_vars(WriteLine) /\ WF_vars(StartAgain) /\ WF_vars(Recover) /\ WF_vars(FinishBoot)
  /\ WF_vars(AckRequest) /\ WF_vars(SimulateReset) /\ WF_vars(SendNext) /\ WF_vars(Leave)
  /\ SF_vars(ExecutionStep) /\ SF_vars(PublishPending)
  /\ SF_vars(HopOneConfirmed \/ HopOneTimeout)
  /\ \A t \in Tasks : SF_vars(HopOneConfirmed /\ sending.task = t /\ ~sending.again)

FairSpec == Spec /\ Fairness

-----------------------------------------------------------------------------
(* Properties.                                                             *)

Lines ==
  [kind : {"robot_provisioned"}, token : Nat] \cup
  [kind : {"robot_started"}, boot : Nat] \cup
  [kind : {"request_received"}, task : Tasks] \cup
  [kind : {"task_decision"}, task : Tasks, decision : {"accepted", "rejected"}, reason : Reasons] \cup
  [kind : {"task_event_persisted"}, task : Tasks, event : Event] \cup
  [kind : {"event_publish_confirmed"}, task : Tasks, key : Nat \X Nat, ref : Nat] \cup
  [kind : {"execution_started"}, task : Tasks] \cup
  [kind : {"execution_progress"}, task : Tasks, step : 0 .. 2] \cup
  [kind : {"execution_completed"}, task : Tasks, outcome : {"SUCCEEDED", "FAILED"}] \cup
  [kind : {"simulate_reset"}]

Publications == [task : Tasks, event : Event, ref : Nat, again : BOOLEAN]

\* Type correctness of the view, the file, the process and the history.
TypeOK ==
  /\ token \in Nat /\ boot \in Nat
  /\ task \in [Tasks -> TaskView]
  /\ cond \in Condition
  /\ current \in Tasks \cup {NoTask}
  /\ rejections \in Seq([task : Tasks, event : Event])
  /\ confirmedRejections \subseteq Nat
  /\ anchored \in BOOLEAN /\ torn \in BOOLEAN
  /\ pc \in {"down", "pass1", "pass2", "pass3", "idle", "drain", "publishing", "awaiting", "exiting"}
  /\ errand \in {"serve", "reset", "leave"}
  /\ behavior \in Behaviors \cup {"none"}
  /\ batch \in Seq(Lines)
  /\ handling \in Tasks \cup {NoTask}
  /\ replay \subseteq Publications /\ out \subseteq Publications
  /\ sending \in Publications \cup {NoPublication}
  /\ expired \subseteq Tasks /\ minted \in Nat /\ starts \in Nat
  /\ runs \in [Tasks -> Nat]
  /\ announced \subseteq Tasks
  /\ acked \subseteq Tasks

\* A task is executed at most once, whatever is redelivered, in whatever boot, and
\* even when the journal that remembered it is lost and the robot provisioned again.
AtMostOneExecution == \A t \in Tasks : runs[t] <= 1

\* Why it holds, as an inductive invariant: a line in flight that provisions is the first
\* of an empty journal and brings a token no executed task was authorised for; a line that
\* takes or decides a task is for this incarnation; a line that starts an execution is the
\* next one and its task has not started.  A task known to the journal belongs to its
\* incarnation, and a run of this incarnation is recorded in the view.
LineSound(l, i) ==
  /\ l.kind = "robot_provisioned" =>
       i = 1 /\ token = 0 /\ l.token = minted /\ \A t \in Tasks : runs[t] > 0 => Incarnation[t] # minted
  /\ l.kind = "request_received" => i = 1 /\ task[l.task].decision = "unknown"
  /\ l.kind \in {"request_received", "task_decision"} => Incarnation[l.task] = token
  /\ l.kind = "execution_started" =>
       i = 1 /\ task[l.task].decision # "unknown" /\ ~task[l.task].started

BatchSound == \A i \in 1 .. Len(batch) : LineSound(batch[i], i)

RunsRemembered ==
  /\ token <= minted
  /\ current # NoTask => task[current].decision # "unknown"
  /\ \A t \in Tasks :
       /\ task[t].decision # "unknown" => Incarnation[t] = token
       /\ task[t].started => task[t].decision # "unknown" /\ task[t].step # 0
       /\ runs[t] > 0 => Incarnation[t] <= minted
       /\ runs[t] > 0 /\ Incarnation[t] = token => task[t].started

ExecutionInv ==
  /\ BatchSound /\ RunsRemembered /\ AtMostOneExecution
  /\ pc = "down" => batch = <<>>

\* The robot does not move before the broker holds the acceptance of the task, so the
\* Edge can always learn of a motion (executor.tick waits for every confirmation).
NoMotionBeforeAcceptanceIsOut ==
  \A t \in Tasks : runs[t] > 0 => t \in announced

\* Torn batches included, at most one accepted task is unfinished, it is the current
\* one, and at most one request awaits its decision.
OneTaskAtATime ==
  /\ \A t \in Tasks : Unfinished(t) <=> current = t
  /\ \A t, u \in Tasks : task[t].decision = "undecided" /\ task[u].decision = "undecided" => t = u

\* What a terminal event reports is what the journal shows, for good: success only after
\* a completed execution, "not started" only if the task never started in any boot,
\* "inconclusive" only for an execution that started and whose end was never recorded.
TerminalMatchesEvidence ==
  \A t \in Tasks : \A e \in EventsOf(t) :
    /\ e.kind = "SUCCEEDED" => task[t].started /\ task[t].completed = "SUCCEEDED"
    /\ e.reason = "not_started_after_restart" => ~task[t].started
    /\ e.kind = "INCONCLUSIVE" => task[t].started /\ task[t].completed = "no"
    /\ e.kind = "REJECTED" => ~task[t].started /\ ~Accepted(t)

\* A task's history is ordered by (boot, sequence) without repetition over any number of
\* restarts, and nothing follows its one terminal event.
HistoryIsLinear ==
  \A t \in Tasks : LET h == task[t].events IN
    \A i, j \in 1 .. Len(h) : i < j =>
      /\ \/ h[i].boot < h[j].boot
         \/ h[i].boot = h[j].boot /\ h[i].seq < h[j].seq
      /\ h[i].kind \notin TerminalKinds

\* Durable first, then PUBACK: once the broker may forget a request, the journal holds its
\* decision and the event that reports it, or the rejection of a foreign incarnation.
AckedRequestIsAnswered ==
  \A t \in acked :
    \/ task[t].decision \in {"accepted", "rejected"} /\ task[t].events # <<>>
    \/ \E n \in 1 .. Len(rejections) : rejections[n].task = t

\* What the Edge reads about a task is what happened to it: each event is borne out by the
\* journal, the history has one order and one end, and no request the broker forgot is lost.
ReportsAreTrue == TerminalMatchesEvidence /\ HistoryIsLinear /\ AckedRequestIsAnswered

\* The robot moves for one task at a time, and for none the Edge cannot know it accepted.
MotionIsGuarded == OneTaskAtATime /\ NoMotionBeforeAcceptanceIsOut

\* Protection is sticky: while the robot awaits a human, only an operator reset (or the
\* loss of the whole journal) lifts it, and no energy or fault fact is forgotten before.
ProtectionNeedsReset ==
  cond.awaitingHuman =>
    \/ batch # <<>> /\ Line.kind = "simulate_reset"
    \/ token' = 0
    \/ /\ cond'.awaitingHuman
       /\ cond.needsRecharge = "yes" => cond'.needsRecharge = "yes"
       /\ cond.availability = "FAULTED" => cond'.availability = "FAULTED"

\* An execution starts in the boot that accepted the task and in no later one.
ExecutionStaysInItsBoot ==
  \A t \in Tasks : runs'[t] > runs[t] =>
    /\ Accepted(t) /\ ~IsTerminal(t) /\ ~cond.awaitingHuman
    /\ \E e \in EventsOf(t) : e.kind = "ACCEPTED" /\ e.boot = boot

\* A crash and a restart are no way around protection, and no way to resume an execution.
RestartsAreSafe == [][ProtectionNeedsReset /\ ExecutionStaysInItsBoot]_vars

\* Every persisted request is decided and everything persisted about it reaches the
\* broker, unless the journal becomes unreadable or is lost.
JournalUnusable == torn \/ token = 0 \/ (pc = "down" /\ ~anchored)

EveryRequestIsAnswered ==
  \A t \in Tasks :
    task[t].decision # "unknown" ~>
      \/ JournalUnusable
      \/ task[t].decision # "undecided" /\ task[t].events # <<>> /\ Unconfirmed(t) = {}

\* A robot scripted to finish its work reports an end of every task it accepts: a result,
\* or after an interruption the honest "not started" or "inconclusive".
AcceptedTaskEnds ==
  \A t \in Tasks :
    Accepted(t) ~> (JournalUnusable \/ (IsTerminal(t) /\ Unconfirmed(t) = {}))

\* Over any number of crashes and reconnects a request ends in a decision, an accepted task
\* in a result, and both reach the broker.
RequestsAreSettled == EveryRequestIsAnswered /\ AcceptedTaskEnds

-----------------------------------------------------------------------------
(* The robot keeps the promise of TaskPromise: the phase of a task is read *)
(* off its journal view, and every journal line is a step of the promise   *)
(* or leaves it unchanged.                                                 *)

Phase(t) ==
  CASE task[t].decision = "unknown"   -> "unseen"
    [] task[t].decision = "undecided" -> "undecided"
    [] task[t].decision = "rejected"  -> "refused"
    [] Accepted(t) /\ IsTerminal(t)   -> "ended"
    [] Unfinished(t) /\ task[t].started  -> "running"
    [] Unfinished(t) /\ ~task[t].started -> "accepted"

Promise == INSTANCE TaskPromise WITH
  phase <- [t \in Tasks |-> Phase(t)],
  held  <- cond.awaitingHuman,
  ran   <- {t \in Tasks : runs[t] > 0}

\* Whatever crashes, restarts, duplicates, resets and losses of the journal do, the robot
\* implements TaskPromise.
PromiseKept == Promise!Spec
=============================================================================
