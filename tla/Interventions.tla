---------------------------- MODULE Interventions ----------------------------
(***************************************************************************)
(* The intervention service: cases for a human, derived from the evidence  *)
(* of the Edge, and the notifications about them                           *)
(* (nxt_edge_interventions, scripts/edge_intervention_*.py).               *)
(*                                                                         *)
(* The service journals what it decides before it acts and acts on the     *)
(* view replayed from its journal; operators append to the same journal    *)
(* between any two of its appends.  The journal itself is JournalFile: an  *)
(* append writes its lines one by one, and a crash leaves a prefix.  The   *)
(* Edge is the environment, seen through snapshots.  Intervals are positive  *)
(* and otherwise free, so at each look at the time any of them may have    *)
(* run out.                                                                *)
(***************************************************************************)
EXTENDS Naturals, FiniteSetsExt, SequencesExt

CONSTANTS
  Tasks, Robots, RobotOf,
  Reasons,        \* EVIDENCE_CONFLICT_REASONS
  NoNote,
  Themes,         \* bound: which moves of the Edge a behaviour has, and how many moves of the Edge,
                  \* acknowledgements, crashes and failures together
  MaxBlocks,      \* bound: requests for assistance of one task
  MaxAttempts,    \* notify_max_attempts
  MaxReminders    \* max_reminders

ASSUME InterventionAssumption ==
  /\ IsFiniteSet(Tasks) /\ IsFiniteSet(Robots)
  /\ Tasks \cap Robots = {}  \* a subject says of which kind it is
  /\ RobotOf \in [Tasks -> Robots]
  /\ {MaxBlocks, MaxReminders} \subseteq Nat
  /\ Themes \subseteq [ moves : SUBSET {"block", "unblock", "end", "publish", "reason", "conflict",
                                      "offline", "online", "regression"}, events : Nat ]
  /\ MaxAttempts \in Nat \ {0}

VARIABLES
  edge,           \* summaries of tasks and devices at the Edge
  \* the view of the journal
  cases,          \* cases in the order of their opening, with their notifications
  \* the service
  pc,             \* down | repair | snapshot | reconcile | reconciled | unread | plan | attempt | send
  batch,          \* the journal lines decided and not yet written
  snap,           \* the evidence last read
  due, sending,   \* the notifications to attempt in this round, the one being sent
  theme,          \* what may happen at the Edge in this behaviour
  events,         \* how much happened: for the bound
  \* the receiver
  receipts,
  \* history
  calls           \* requests sent with each notification

serviceVars == <<pc, snap, due, sending>>
vars        == <<edge, theme, cases, serviceVars, batch, events, receipts, calls>>

Kinds      == {"ASSISTANCE_REQUIRED", "DEVICE_UNREACHABLE", "RESULT_UNCONFIRMED", "EVIDENCE_CONFLICT"}
Subjects   == Tasks \cup Robots
Severities == {"WARNING", "CRITICAL"}
Key        == [at : Nat, with : SUBSET (Tasks \cup Reasons \cup {"expired", "exhausted"})]
CaseId     == [kind : Kinds, subject : Subjects, key : Key]
Intents    == {"OPENED", "ESCALATION", "REMINDER"}
NoteStates == {"PENDING", "ATTEMPTING", "UNKNOWN", "FAILED", "DELIVERED", "EXHAUSTED"}
NoteId     == [case : CaseId, intent : Intents, ordinal : Nat]
Note       == [intent : Intents, ordinal : Nat, severity : Severities, attempts : Nat, state : NoteStates]

CaseView ==
  [ kind : Kinds, subject : Subjects,
    born      : Key,              \* the evidence key that gave the case its identity
    severity  : Severities,
    key       : Key,              \* evidence_key
    human     : {"OPEN", "ACKNOWLEDGED", "RESOLVED"},
    active    : BOOLEAN,          \* condition_active
    recurs    : Nat,              \* recurrence_of, by its place
    pending   : SUBSET Note,      \* pending_intents: of a torn batch
    notes     : Seq(Note),
    reminders : Nat,
    quiet     : BOOLEAN ]         \* reminders_exhausted

TaskSummary ==
  [ state : {"none", "open", "blocked", "ended"}, block : Nat, blocks : Nat, unknown : BOOLEAN,
    reasons : SUBSET Reasons, conflict : BOOLEAN, publish : {"fine", "expired", "exhausted"} ]
DeviceSummary == [ offline : BOOLEAN, episode : Nat, regression : BOOLEAN ]

NoEvidence ==
  [ task   |-> [t \in Tasks |-> [ state |-> "none", block |-> 0, blocks |-> 0, unknown |-> FALSE, reasons |-> {},
                                  conflict |-> FALSE, publish |-> "fine" ]],
    device |-> [r \in Robots |-> [offline |-> FALSE, episode |-> 0, regression |-> FALSE]] ]

-----------------------------------------------------------------------------
(* Identities: digests of content, so equal exactly when contents are.     *)

IdOf(c) == [kind |-> c.kind, subject |-> c.subject, key |-> c.born]
NoteIdOf(id, n) == [case |-> id, intent |-> n.intent, ordinal |-> n.ordinal]

CaseIds == {IdOf(cases[i]) : i \in DOMAIN cases}
Place(id) == CHOOSE i \in DOMAIN cases : IdOf(cases[i]) = id
NoteIds == UNION {{NoteIdOf(IdOf(cases[i]), cases[i].notes[k]) : k \in DOMAIN cases[i].notes} : i \in DOMAIN cases}
NotePlace(nid) == CHOOSE k \in DOMAIN cases[Place(nid.case)].notes :
                    NoteIdOf(nid.case, cases[Place(nid.case)].notes[k]) = nid
TheNote(nid) == cases[Place(nid.case)].notes[NotePlace(nid)]

Unresolved(kind, subject) ==
  {i \in DOMAIN cases : cases[i].kind = kind /\ cases[i].subject = subject /\ cases[i].human # "RESOLVED"}
AllOf(kind, subject) == {i \in DOMAIN cases : cases[i].kind = kind /\ cases[i].subject = subject}
OpenCase(item)   == Min(Unresolved(item.kind, item.subject))
LatestCase(item) == Max(AllOf(item.kind, item.subject))

-----------------------------------------------------------------------------
(* Which conditions a snapshot supports.                                   *)

Item(kind, subject, severity, at, with) ==
  [kind |-> kind, subject |-> subject, severity |-> severity, key |-> [at |-> at, with |-> with]]

TaskOpen(s, t) == s.task[t].state \in {"open", "blocked"}
OpenTaskOf(s, r) == {t \in Tasks : RobotOf[t] = r /\ TaskOpen(s, t)}
EffectiveRank(s, t) == IF s.task[t].conflict THEN 2 ELSE IF s.task[t].state = "ended" THEN 1 ELSE 0

NeedsAssistance(s) == {t \in Tasks : s.task[t].state = "blocked"}
Conflicting(s) == {t \in Tasks : s.task[t].conflict \/ s.task[t].reasons # {}}
Unconfirmed(s) == {t \in Tasks : TaskOpen(s, t) /\ s.task[t].publish # "fine"}

Observe(s) ==
  {Item("ASSISTANCE_REQUIRED", t, IF s.task[t].unknown THEN "CRITICAL" ELSE "WARNING", s.task[t].block, {})
     : t \in NeedsAssistance(s)}
  \cup {Item("EVIDENCE_CONFLICT", t, "CRITICAL", EffectiveRank(s, t), s.task[t].reasons) : t \in Conflicting(s)}
  \cup {Item("RESULT_UNCONFIRMED", t, "WARNING", 0, {s.task[t].publish}) : t \in Unconfirmed(s)}
  \cup {Item("DEVICE_UNREACHABLE", r, IF OpenTaskOf(s, r) = {} THEN "WARNING" ELSE "CRITICAL",
             s.device[r].episode, OpenTaskOf(s, r)) : r \in {r \in Robots : s.device[r].offline}}
  \cup {Item("EVIDENCE_CONFLICT", r, "CRITICAL", 0, {}) : r \in {r \in Robots : s.device[r].regression}}

\* The human already resolved a case with this evidence.
SameEvidence(c, item) ==
  IF item.kind = "DEVICE_UNREACHABLE"
  THEN c.key.at = item.key.at /\ (item.key.with = {} \/ item.key.with = c.key.with)
  ELSE c.key = item.key

-----------------------------------------------------------------------------
(* Journal lines and what they make of the view.                           *)

NewNote(intent, ordinal, severity) ==
  [intent |-> intent, ordinal |-> ordinal, severity |-> severity, attempts |-> 0, state |-> "PENDING"]

Intended(id, note)   == [line |-> "intended", case |-> id, note |-> note]
Evidence(what, id, item) == [line |-> what, case |-> id, severity |-> item.severity, key |-> item.key]
About(what, id)      == [line |-> what, case |-> id]
Delivery(what, nid, value) == [line |-> what, note |-> nid, value |-> value]

Opened(item) ==
  [ line |-> "opened", kind |-> item.kind, subject |-> item.subject, severity |-> item.severity, key |-> item.key,
    recurs |-> IF AllOf(item.kind, item.subject) = {} THEN 0 ELSE LatestCase(item) ]

CaseOf(l) ==
  [ kind |-> l.kind, subject |-> l.subject, born |-> l.key, severity |-> l.severity, key |-> l.key,
    human |-> "OPEN", active |-> TRUE, recurs |-> l.recurs,
    pending |-> {NewNote("OPENED", 0, l.severity)}, notes |-> <<>>, reminders |-> 0, quiet |-> FALSE ]

SameIntent(n, m) == n.intent = m.intent

WithLine(c, l) ==
  CASE l.line = "evidence_added"     -> [c EXCEPT !.key = l.key]
    [] l.line = "condition_returned" -> [c EXCEPT !.active = TRUE, !.key = l.key]
    [] l.line = "condition_cleared"  -> [c EXCEPT !.active = FALSE]
    [] l.line = "escalated"          -> [c EXCEPT !.severity = l.severity, !.key = l.key,
                                          !.pending = @ \cup {NewNote("ESCALATION", Len(c.notes), l.severity)}]
    [] l.line = "acknowledged"       -> [c EXCEPT !.human = "ACKNOWLEDGED"]
    [] l.line = "resolved"           -> [c EXCEPT !.human = "RESOLVED"]
    [] l.line = "reminders_exhausted" -> [c EXCEPT !.quiet = TRUE]
    [] l.line = "intended"           -> [c EXCEPT !.notes = Append(@, l.note),
                                          !.pending = {n \in @ : ~SameIntent(n, l.note)},
                                          !.reminders = IF l.note.intent = "REMINDER" THEN @ + 1 ELSE @]

WithDelivery(n, l) ==
  CASE l.line = "attempted" -> [n EXCEPT !.attempts = l.value, !.state = "ATTEMPTING"]
    [] l.line = "result"    -> [n EXCEPT !.state = l.value]
    [] l.line = "exhausted" -> [n EXCEPT !.state = "EXHAUSTED"]

Apply(l) ==
  cases' = CASE l.line = "opened" -> Append(cases, CaseOf(l))
             [] l.line \in {"attempted", "result", "exhausted"} ->
                  [cases EXCEPT ![Place(l.note.case)].notes[NotePlace(l.note)] = WithDelivery(@, l)]
             [] OTHER -> [cases EXCEPT ![Place(l.case)] = WithLine(@, l)]

-----------------------------------------------------------------------------
(* Decisions.                                                              *)

Listed(S) == FoldSet(LAMBDA x, list : Append(list, x), <<>>, S)

PendingIntents ==
  FlattenSeq([i \in DOMAIN cases |-> Listed({Intended(IdOf(cases[i]), n) : n \in cases[i].pending})])

OpenOrSkip(item) ==
  LET id == [kind |-> item.kind, subject |-> item.subject, key |-> item.key]
      handled == AllOf(item.kind, item.subject) # {} /\ SameEvidence(cases[LatestCase(item)], item)
  IN  IF handled \/ id \in CaseIds THEN <<>>
      ELSE << Opened(item), Intended(id, NewNote("OPENED", 0, item.severity)) >>

\* An error: new evidence for a case that stays active is not recorded.
UpdateOnReturn(item) ==
  LET c  == cases[OpenCase(item)]
      id == IdOf(c)
  IN  ( IF c.active THEN <<>> ELSE << Evidence("condition_returned", id, item) >> ) \o
      ( IF item.severity = "CRITICAL" /\ c.severity = "WARNING"
        THEN << Evidence("escalated", id, item), Intended(id, NewNote("ESCALATION", Len(c.notes), item.severity)) >>
        ELSE <<>> )

UpdateCase(item) ==
  LET c  == cases[OpenCase(item)]
      id == IdOf(c)
      returned == IF c.active THEN <<>> ELSE << Evidence("condition_returned", id, item) >>
      key == IF c.active THEN c.key ELSE item.key
  IN  returned \o
      ( IF item.severity = "CRITICAL" /\ c.severity = "WARNING"
        THEN << Evidence("escalated", id, item), Intended(id, NewNote("ESCALATION", Len(c.notes), item.severity)) >>
        ELSE IF item.key # key THEN << Evidence("evidence_added", id, item) >> ELSE <<>> )

\* The cases whose condition the snapshot still supports.
Seen(s) == {OpenCase(item) : item \in {o \in Observe(s) : Unresolved(o.kind, o.subject) # {}}}

\* An error: resolved cases are looked at too.
ClearAll(s) ==
  LET gone(i) == i \notin Seen(s) /\ cases[i].active
  IN  FlattenSeq([i \in DOMAIN cases |->
                    IF gone(i) THEN << About("condition_cleared", IdOf(cases[i])) >> ELSE <<>>])

Clear(s) ==
  LET gone(i) == cases[i].human # "RESOLVED" /\ i \notin Seen(s) /\ cases[i].active
  IN  FlattenSeq([i \in DOMAIN cases |->
                    IF gone(i) THEN << About("condition_cleared", IdOf(cases[i])) >> ELSE <<>>])

Handle(item) == IF Unresolved(item.kind, item.subject) = {} THEN OpenOrSkip(item) ELSE UpdateCase(item)

Reconcile(s) ==
  IF PendingIntents # <<>> THEN PendingIntents
  ELSE LET items == Listed(Observe(s))
       IN  FlattenSeq([k \in DOMAIN items |-> Handle(items[k])]) \o Clear(s)

\* late: the cases whose reminder_interval_s has run out
Nagging == {IdOf(cases[i]) : i \in {i \in DOMAIN cases : cases[i].human = "OPEN" /\ ~cases[i].quiet}}

Remind(c, late) ==
  IF c.human # "OPEN" \/ c.quiet \/ c.notes = <<>> \/ IdOf(c) \notin late THEN <<>>
  ELSE IF c.reminders >= MaxReminders THEN << About("reminders_exhausted", IdOf(c)) >>
  ELSE << Intended(IdOf(c), NewNote("REMINDER", Len(c.notes), c.severity)) >>

\* An error: an attempt that a crash left without result is not given up.
ExhaustAnswered(nid) ==
  LET n == TheNote(nid)
  IN  IF n.state \in {"UNKNOWN", "FAILED"} /\ n.attempts >= MaxAttempts
      THEN << Delivery("exhausted", nid, 0) >> ELSE <<>>

Exhaust(nid) ==
  LET n == TheNote(nid)
  IN  IF n.state \in {"UNKNOWN", "FAILED", "ATTEMPTING"} /\ n.attempts >= MaxAttempts
      THEN (IF n.state = "ATTEMPTING" THEN << Delivery("result", nid, "UNKNOWN") >> ELSE <<>>)
           \o << Delivery("exhausted", nid, 0) >>
      ELSE <<>>

TickLines(late) ==
  LET nids == Listed(NoteIds)
  IN  FlattenSeq([i \in DOMAIN cases |-> Remind(cases[i], late)]) \o FlattenSeq([k \in DOMAIN nids |-> Exhaust(nids[k])])

Unanswered == {nid \in NoteIds : TheNote(nid).state \in {"UNKNOWN", "FAILED", "ATTEMPTING"}}

\* rested: the notifications whose notify_retry_interval_s has run out
DueAttempts(rested) ==
  {nid \in NoteIds : /\ TheNote(nid).state \notin {"DELIVERED", "EXHAUSTED"}
                     /\ TheNote(nid).attempts < MaxAttempts
                     /\ TheNote(nid).state = "PENDING" \/ nid \in rested}

-----------------------------------------------------------------------------
(* The service.  Every append takes the lock, so a decision is taken on    *)
(* all lines of the journal; batch = <<>> says that the lock is free.      *)

Event == events < theme.events /\ events' = events + 1

Start ==
  /\ pc = "down"
  /\ pc' = "repair"
  /\ UNCHANGED <<edge, theme, cases, batch, snap, due, sending, events, receipts, calls>>

WriteLine ==
  /\ batch # <<>>
  /\ Apply(Head(batch)) /\ batch' = Tail(batch)
  /\ UNCHANGED <<edge, theme, serviceVars, events, receipts, calls>>

Append_(from, to, lines) ==
  /\ pc = from /\ batch = <<>>
  /\ batch' = lines /\ pc' = to
  /\ UNCHANGED <<edge, theme, cases, events, receipts, calls>>

RepairIntents == Append_("repair", "snapshot", PendingIntents) /\ UNCHANGED <<snap, due, sending>>

ReadSnapshot ==
  /\ pc = "snapshot" /\ batch = <<>>
  /\ snap' = edge /\ pc' = "reconcile"
  /\ UNCHANGED <<edge, theme, cases, batch, due, sending, events, receipts, calls>>

SnapshotUnreadable ==
  /\ pc = "snapshot" /\ batch = <<>>
  /\ Event /\ pc' = "unread"
  /\ UNCHANGED <<edge, theme, cases, batch, snap, due, sending, receipts, calls>>

ReconcileEvidence == Append_("reconcile", "reconciled", Reconcile(snap)) /\ UNCHANGED <<snap, due, sending>>

DecideTick(late) ==
  /\ Append_("reconciled", "plan", TickLines(late)) \/ Append_("unread", "plan", TickLines(late))
  /\ snap' = NoEvidence /\ UNCHANGED <<due, sending>>

PlanDelivery(rested) ==
  /\ pc = "plan" /\ batch = <<>>
  /\ due' = DueAttempts(rested) /\ pc' = "attempt"
  /\ UNCHANGED <<edge, theme, cases, batch, snap, sending, events, receipts, calls>>

\* An error: the socket opens first.
SendFirst ==
  /\ pc = "attempt" /\ batch = <<>> /\ due # {}
  /\ sending' = (CHOOSE nid \in due : TRUE)
  /\ due' = due \ {sending'} /\ pc' = "send"
  /\ UNCHANGED <<edge, theme, cases, batch, snap, events, receipts, calls>>

\* The attempt is durable before the socket opens.
JournalAttempt ==
  /\ pc = "attempt" /\ batch = <<>> /\ due # {}
  /\ sending' = (CHOOSE nid \in due : TRUE)
  /\ Apply(Delivery("attempted", sending', TheNote(sending').attempts + 1))
  /\ due' = due \ {sending'} /\ pc' = "send"
  /\ UNCHANGED <<edge, theme, batch, snap, events, receipts, calls>>

OneMoreCall(nid) ==
  LET before == IF nid \in DOMAIN calls THEN calls[nid] ELSE 0
  IN  [other \in DOMAIN calls \cup {nid} |-> IF other = nid THEN before + 1 ELSE calls[other]]

\* The receiver persists what it takes, once for each identity, before it answers.  The
\* death of the process between the answer and its record is a case of Crash.
Send(result, persisted) ==
  /\ pc = "send" /\ batch = <<>>
  /\ result = "DELIVERED" => persisted
  /\ result = "FAILED" => ~persisted
  /\ IF result = "DELIVERED" THEN UNCHANGED events ELSE Event
  /\ receipts' = IF persisted THEN receipts \cup {sending} ELSE receipts
  /\ calls' = OneMoreCall(sending)
  /\ Apply(Delivery("result", sending, result))
  /\ pc' = "attempt" /\ sending' = NoNote
  /\ UNCHANGED <<edge, theme, batch, snap, due>>

EndTick ==
  /\ pc = "attempt" /\ batch = <<>> /\ due = {}
  /\ pc' = "repair"
  /\ UNCHANGED <<edge, theme, cases, batch, snap, due, sending, events, receipts, calls>>

\* A crash, a failed append and a signal end the process; the lines written stay.
\* The request of an attempt may have reached the receiver.
Crash ==
  /\ pc # "down" /\ Event
  /\ pc' = "down" /\ batch' = <<>> /\ snap' = NoEvidence /\ due' = {} /\ sending' = NoNote
  /\ \/ UNCHANGED <<receipts, calls>>
     \/ /\ pc = "send" /\ batch = <<>>
        /\ receipts' = receipts \cup {sending}
        /\ calls' = OneMoreCall(sending)
  /\ UNCHANGED <<edge, theme, cases>>

-----------------------------------------------------------------------------
(* Operators: refused actions leave a line that changes nothing.           *)

Acknowledge(i) ==
  /\ Event /\ batch = <<>> /\ cases[i].human = "OPEN"
  /\ Apply(About("acknowledged", IdOf(cases[i])))
  /\ UNCHANGED <<edge, theme, serviceVars, batch, receipts, calls>>

Resolve(i) ==
  /\ batch = <<>> /\ cases[i].human = "ACKNOWLEDGED"
  /\ Apply(About("resolved", IdOf(cases[i])))
  /\ UNCHANGED <<edge, theme, serviceVars, batch, events, receipts, calls>>

-----------------------------------------------------------------------------
(* The Edge: facts about tasks and devices, which only ever accumulate.    *)

TaskMove(t) ==
  LET s == edge.task[t]
      to(move, guard, new) == move \in theme.moves /\ guard /\ edge' = [edge EXCEPT !.task[t] = new]
  IN  \/ /\ s.state = "none" /\ OpenTaskOf(edge, RobotOf[t]) = {} /\ ~edge.device[RobotOf[t]].regression
         /\ edge' = [edge EXCEPT !.task[t].state = "open"]
      \/ \E u \in BOOLEAN :
           to("block", TaskOpen(edge, t) /\ s.blocks < MaxBlocks,
              [s EXCEPT !.state = "blocked", !.block = s.blocks + 1, !.blocks = @ + 1, !.unknown = u])
      \/ to("unblock", s.state = "blocked", [s EXCEPT !.state = "open", !.block = 0, !.unknown = FALSE])
      \/ to("end", TaskOpen(edge, t), [s EXCEPT !.state = "ended", !.block = 0, !.unknown = FALSE])
      \/ \E p \in {"expired", "exhausted"} :
           to("publish", TaskOpen(edge, t) /\ s.publish \notin {"exhausted", p}, [s EXCEPT !.publish = p])
      \/ \E r \in Reasons \ s.reasons : to("reason", s.state # "none", [s EXCEPT !.reasons = @ \cup {r}])
      \/ to("conflict", s.state = "ended" /\ ~s.conflict, [s EXCEPT !.conflict = TRUE])

DeviceMove(r) ==
  LET d == edge.device[r]
      to(move, guard, new) == move \in theme.moves /\ guard /\ edge' = [edge EXCEPT !.device[r] = new]
  IN  \/ to("offline", ~d.offline, [d EXCEPT !.offline = TRUE, !.episode = @ + 1])
      \/ to("online", d.offline, [d EXCEPT !.offline = FALSE])
      \/ to("regression", ~d.regression, [d EXCEPT !.regression = TRUE])

\* Only ReadSnapshot looks at the Edge, so its moves may as well come just before.
EdgeMoves ==
  /\ pc = "snapshot" /\ batch = <<>>
  /\ Event
  /\ (\E t \in Tasks : TaskMove(t)) \/ (\E r \in Robots : DeviceMove(r))
  /\ UNCHANGED <<theme, cases, serviceVars, batch, receipts, calls>>

-----------------------------------------------------------------------------
Init ==
  /\ edge \in {NoEvidence} \cup {[NoEvidence EXCEPT !.task[t].state = "open"] : t \in Tasks}
  /\ theme \in Themes /\ events = 0
  /\ cases = <<>> /\ batch = <<>>
  /\ pc = "down" /\ snap = NoEvidence /\ due = {} /\ sending = NoNote
  /\ receipts = {} /\ calls = <<>>

Deliver ==
  \/ (pc = "plan" /\ \E rested \in SUBSET Unanswered : PlanDelivery(rested))
  \/ JournalAttempt \/ EndTick
  \/ \E result \in {"DELIVERED", "UNKNOWN", "FAILED"}, persisted \in BOOLEAN : Send(result, persisted)

Service ==
  \/ WriteLine \/ RepairIntents \/ ReadSnapshot \/ SnapshotUnreadable
  \/ ReconcileEvidence \/ (pc \in {"reconciled", "unread"} /\ \E late \in SUBSET Nagging : DecideTick(late)) \/ Deliver

Operator == \E i \in DOMAIN cases : Acknowledge(i) \/ Resolve(i)

Next == Start \/ Service \/ Crash \/ Operator \/ EdgeMoves

Spec == Init /\ [][Next]_vars

\* The loop runs on, a dead service is started again, every interval runs out again and
\* again, and so does the journal of the Edge become readable.
Fairness ==
  /\ WF_vars(Start) /\ WF_vars(Service)
  /\ SF_vars(DecideTick(Nagging)) /\ SF_vars(pc = "plan" /\ PlanDelivery(Unanswered))
  /\ SF_vars(ReadSnapshot)

FairSpec == Spec /\ Fairness

-----------------------------------------------------------------------------
(* Properties.                                                             *)

\* Every variable has its type: the view is one that apply() builds.
TypeOK ==
  /\ edge.task \in [Tasks -> TaskSummary] /\ edge.device \in [Robots -> DeviceSummary]
  /\ theme \in Themes /\ events \in 0 .. theme.events
  /\ \A i \in DOMAIN cases : [cases[i] EXCEPT !.notes = <<>>, !.pending = {}] \in CaseView
  /\ pc \in {"down", "repair", "snapshot", "reconcile", "reconciled", "unread", "plan", "attempt", "send"}
  /\ \A nid \in NoteIds : TheNote(nid) \in Note
  /\ due \subseteq NoteIds /\ sending \in NoteIds \cup {NoNote}
  /\ receipts \subseteq NoteIds /\ DOMAIN calls \subseteq NoteIds

\* A case exists once, and a subject has at most one case of a kind that waits for a
\* human, although evidence is read late and batches are torn (reconcile: "the same
\* identity never opens a second case").
OneCaseAtATime ==
  /\ \A i, j \in DOMAIN cases : IdOf(cases[i]) = IdOf(cases[j]) => i = j
  /\ \A i, j \in DOMAIN cases :
       cases[i].human # "RESOLVED" /\ cases[j].human # "RESOLVED"
         /\ cases[i].kind = cases[j].kind /\ cases[i].subject = cases[j].subject => i = j

\* The obligation to notify is as durable as the event it comes from: an opened case has
\* one OPENED intent, one whose severity rose has one ESCALATION intent, persisted or
\* derivable from the journal, and nothing is intended twice (pending_intents).
ObligationsKept ==
  \A i \in DOMAIN cases :
    LET c == cases[i]
        made(intent) == {n \in c.pending : n.intent = intent} \cup
                        {c.notes[k] : k \in {k \in DOMAIN c.notes : c.notes[k].intent = intent}}
        first == CHOOSE n \in made("OPENED") : TRUE
    IN  /\ Cardinality(made("OPENED")) = 1
        /\ Cardinality(made("ESCALATION")) = (IF c.severity = first.severity THEN 0 ELSE 1)
        /\ \A k, l \in DOMAIN c.notes :
             c.notes[k].intent = c.notes[l].intent /\ c.notes[k].ordinal = c.notes[l].ordinal => k = l
        /\ Cardinality({k \in DOMAIN c.notes : c.notes[k].intent = "REMINDER"}) <= MaxReminders

\* No request leaves before its attempt is durable, so the budget of a notification holds
\* over every crash (InterventionService._deliver).
CallsWithinBudget ==
  \A nid \in NoteIds :
    /\ nid \in DOMAIN calls => calls[nid] <= TheNote(nid).attempts
    /\ TheNote(nid).attempts <= MaxAttempts

\* Only the receiver's own durable receipt makes a notification DELIVERED.
DeliveredMeansReceived == \A nid \in NoteIds : TheNote(nid).state = "DELIVERED" => nid \in receipts

\* What the Edge supports is in a human's hands: a case is open with exactly this
\* evidence, or the last one was resolved on this evidence.
Covered(item) ==
  /\ AllOf(item.kind, item.subject) # {}
  /\ LET c == cases[LatestCase(item)]
     IN  IF c.human = "RESOLVED" THEN SameEvidence(c, item)
         ELSE c.active /\ c.key = item.key /\ (item.severity = "CRITICAL" => c.severity = "CRITICAL")

\* After reconciliation every condition of the snapshot is covered, whatever operators
\* did since, and nothing else waits as an active case (reconcile).
EvidenceCovered ==
  pc = "reconciled" /\ batch = <<>> =>
    /\ \A item \in Observe(snap) : Covered(item)
    /\ \A i \in DOMAIN cases : cases[i].human # "RESOLVED" /\ cases[i].active =>
         \E item \in Observe(snap) : item.kind = cases[i].kind /\ item.subject = cases[i].subject

\* The cases are what the evidence and the humans made of them, whatever was torn or read late.
CasesAreTrue == TypeOK /\ OneCaseAtATime /\ ObligationsKept /\ EvidenceCovered

\* What the journal says of a notification bounds what was sent and is borne out by the receiver.
CallsAreAccounted == CallsWithinBudget /\ DeliveredMeansReceived

\* Only a human closes a case, and a closed case stays as it was closed: no evidence, no
\* reminder, no new intent touches it, except one committed before (docs/edge_interventions_v0.md:103).
ResolvedIsFinal ==
  [][\A i \in DOMAIN cases : cases[i].human = "RESOLVED" =>
       LET old == cases[i]
           new == cases'[i]
       IN  /\ [new EXCEPT !.notes = old.notes, !.pending = old.pending] = old
           /\ Len(new.notes) = Len(old.notes) \/ (\E n \in old.pending : new.notes = Append(old.notes, n))]_vars

\* In the end every notification is delivered or given up, and every condition that the
\* Edge still supports is covered, however often the service died.
HumansKnow ==
  <>[] /\ \A nid \in NoteIds : TheNote(nid).state \in {"DELIVERED", "EXHAUSTED"}
       /\ \A item \in Observe(edge) : Covered(item)
=============================================================================
