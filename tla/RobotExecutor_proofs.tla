------------------------ MODULE RobotExecutor_proofs ------------------------
(***************************************************************************)
(* Proofs about RobotExecutor, for every set of tasks, every assignment of *)
(* incarnations to them and every bound. First type correctness and that   *)
(* no task is executed twice; then, from the inductive invariant RobotInv, *)
(* that what the robot reports about a task is what its journal shows, it  *)
(* moves only for the one task the Edge knows it accepted, no restart      *)
(* lifts protection or resumes an execution, and every step is one that    *)
(* TaskPromise allows.                                                     *)
(***************************************************************************)
EXTENDS RobotExecutor, WellFoundedInduction, SequenceTheorems, TLAPS

-----------------------------------------------------------------------------
(* Natural numbers: finitely many of them, given as the values of a         *)
(* function on an initial segment, have an upper bound, and a bounded set  *)
(* has a maximum.                                                          *)

\* Least-counterexample form of induction over the natural numbers.
LEMMA LeastNatural ==
  ASSUME NEW T, T \subseteq Nat, T # {}
  PROVE  \E x \in T : \A y \in T : x <= y
<1>1. PICK x \in T : \A y \in T : ~ (<<y, x>> \in OpToRel(<, Nat))
  BY NatLessThanWellFounded, WFMin
<1>2. ASSUME NEW y \in T PROVE x <= y
  <2>1. x \in Nat /\ y \in Nat
    OBVIOUS
  <2>2. y < x => <<y, x>> \in OpToRel(<, Nat)
    BY <2>1 DEF OpToRel
  <2>3. ~ (<<y, x>> \in OpToRel(<, Nat))
    BY <1>1
  <2>4. ~ (y < x)
    BY <2>2, <2>3
  <2> QED
    BY <2>1, <2>4
<1> QED
  BY <1>2

\* Finitely many natural numbers have an upper bound.
LEMMA BoundExists ==
  ASSUME NEW n \in Nat, NEW f \in [1 .. n -> Nat]
  PROVE  \E b \in Nat : \A i \in 1 .. n : f[i] <= b
<1> DEFINE Unbounded(m) == \E g \in [1 .. m -> Nat] : \A b \in Nat : \E i \in 1 .. m : ~ (g[i] <= b)
           Bad == {m \in Nat : Unbounded(m)}
<1>1. SUFFICES ASSUME Bad # {} PROVE FALSE
  <2>1. n \notin Bad
    BY <1>1
  <2> QED
    BY <2>1
<1>2. PICK m \in Bad : \A k \in Bad : m <= k
  <2>1. Bad \subseteq Nat
    OBVIOUS
  <2> HIDE DEF Bad
  <2> QED
    BY <1>1, <2>1, LeastNatural
<1>3. PICK g \in [1 .. m -> Nat] : \A b \in Nat : \E i \in 1 .. m : ~ (g[i] <= b)
  BY <1>2
<1>4. m # 0
  BY <1>3
<1>5. m \in Nat /\ m - 1 \in Nat /\ m - 1 \notin Bad
  <2>1. m \in Nat
    BY <1>2
  <2>2. m - 1 \in Nat /\ ~ (m <= m - 1)
    BY <1>4, <2>1
  <2> HIDE DEF Bad
  <2> QED
    BY <1>2, <2>1, <2>2
<1>6. [i \in 1 .. m - 1 |-> g[i]] \in [1 .. m - 1 -> Nat]
  <2>1. \A i \in 1 .. m - 1 : i \in 1 .. m
    BY <1>5
  <2> QED
    BY <2>1
<1>7. PICK b \in Nat : \A i \in 1 .. m - 1 : g[i] <= b
  <2>1. ~ Unbounded(m - 1)
    BY <1>5
  <2>2. \E b \in Nat : \A i \in 1 .. m - 1 : [j \in 1 .. m - 1 |-> g[j]][i] <= b
    BY <1>6, <2>1
  <2> QED
    BY <2>2
<1>8. m \in 1 .. m /\ g[m] \in Nat
  BY <1>4, <1>5
<1>9. PICK c \in Nat : b <= c /\ g[m] <= c
  <2>1. CASE b <= g[m]
    <3> WITNESS g[m] \in Nat
    <3> QED
      BY <1>8, <2>1
  <2>2. CASE ~ (b <= g[m])
    <3> WITNESS b \in Nat
    <3> QED
      BY <1>8, <2>2
  <2> QED
    BY <2>1, <2>2
<1>10. \A i \in 1 .. m : g[i] <= c
  <2>1. ASSUME NEW i \in 1 .. m PROVE g[i] <= c
    <3>1. CASE i = m
      BY <1>9, <3>1
    <3>2. CASE i # m
      <4> HIDE DEF Bad
      <4>1. m \in Nat /\ i \in Nat /\ 1 <= i /\ i <= m
        BY <1>5
      <4>2. i \in 1 .. m - 1
        BY <4>1, <3>2
      <4>3. g[i] \in Nat
        OBVIOUS
      <4> QED
        BY <4>2, <4>3, <1>7, <1>9
    <3> QED
      BY <3>1, <3>2
  <2> QED
    BY <2>1
<1> QED
  BY <1>3, <1>10

\* A nonempty bounded set of natural numbers has a maximum.
LEMMA MaximumExists ==
  ASSUME NEW T, T \subseteq Nat, T # {}, NEW b \in Nat, \A x \in T : x <= b
  PROVE  \E x \in T : \A y \in T : y <= x
<1> DEFINE Gaps == {b - x : x \in T}
<1>1. Gaps \subseteq Nat /\ Gaps # {}
  <2>1. ASSUME NEW x \in T PROVE b - x \in Nat
    <3>1. x \in Nat /\ x <= b
      OBVIOUS
    <3> QED
      BY <3>1
  <2> QED
    BY <2>1
<1>2. PICK d \in Gaps : \A e \in Gaps : d <= e
  <2> HIDE DEF Gaps
  <2> QED
    BY <1>1, LeastNatural
<1>3. PICK x \in T : d = b - x
  OBVIOUS
<1>4. ASSUME NEW y \in T PROVE y <= x
  <2>1. b - y \in Gaps /\ x \in Nat /\ y \in Nat
    OBVIOUS
  <2>2. d <= b - y
    BY <1>2, <2>1
  <2> QED
    BY <1>3, <2>1, <2>2
<1> QED
  BY <1>4

-----------------------------------------------------------------------------
(* What the operators return.                                              *)

LEMMA KindsAndReasons ==
  /\ {"SUCCEEDED", "FAILED", "INCONCLUSIVE", "REJECTED", "ACCEPTED", "PROGRESS", "ASSISTANCE_REQUIRED"} = EventKinds
  /\ TerminalKinds \subseteq EventKinds
BY DEF EventKinds, TerminalKinds

\* The fields of the view of one task (RobotTaskView) have their types.
LEMMA TaskFields ==
  ASSUME TypeOK, NEW t \in Tasks
  PROVE  /\ task[t] \in TaskView
         /\ task[t].events \in Seq(Event)
         /\ task[t].reason \in Reasons
         /\ task[t].completed \in {"no", "SUCCEEDED", "FAILED"}
         /\ task[t].step \in 0 .. 2
         /\ task[t].confirmed \in SUBSET (Nat \X Nat)
BY DEF TypeOK, TaskView

\* The next free sequence of a task in this boot exists and is a natural number.
LEMMA NextSequenceType ==
  ASSUME TypeOK, NEW t \in Tasks
  PROVE  NextSequence(t) \in Nat
<1> DEFINE h    == task[t].events
           used == {e.seq : e \in {x \in EventsOf(t) : x.boot = boot}}
<1>1. h \in Seq(Event) /\ Len(h) \in Nat /\ \A i \in 1 .. Len(h) : h[i] \in Event
  BY TaskFields, ElementOfSeq, LenProperties
<1>2. \A i \in 1 .. Len(h) : h[i].seq \in Nat
  BY <1>1 DEF Event
<1>3. PICK b \in Nat : \A i \in 1 .. Len(h) : h[i].seq <= b
  <2> DEFINE f == [i \in 1 .. Len(h) |-> h[i].seq]
  <2>1. f \in [1 .. Len(h) -> Nat]
    BY <1>2
  <2>2. \E b \in Nat : \A i \in 1 .. Len(h) : f[i] <= b
    <3> HIDE DEF f, h
    <3> QED
      BY <1>1, <2>1, BoundExists
  <2> QED
    BY <2>2
<1>4. used \subseteq Nat /\ \A n \in used : n <= b
  BY <1>2, <1>3 DEF EventsOf
<1>5. CASE used = {}
  BY <1>5 DEF NextSequence
<1>6. CASE used # {}
  <2>1. \E n \in used : \A k \in used : k <= n
    <3> HIDE DEF used
    <3> QED
      BY <1>4, <1>6, MaximumExists
  <2> DEFINE top == CHOOSE n \in used : \A k \in used : k <= n
  <2>2. top \in used
    BY <2>1
  <2>3. top \in Nat /\ 1 + top \in Nat
    <3> HIDE DEF used, top
    <3> QED
      BY <1>4, <2>2
  <2>4. NextSequence(t) = 1 + top
    BY <1>6 DEF NextSequence
  <2> QED
    BY <2>3, <2>4
<1> QED
  BY <1>5, <1>6

\* The event that _event builds for this boot is a task event.
LEMMA MakeEventType ==
  ASSUME TypeOK, NEW k \in EventKinds, NEW r \in Reasons, NEW n \in Nat
  PROVE  MakeEvent(k, r, n) \in Event
BY DEF TypeOK, MakeEvent, Event

\* Reporting an event of a task is a journal line of kind task_event_persisted.
LEMMA ReportType ==
  ASSUME TypeOK, NEW t \in Tasks, NEW k \in EventKinds, NEW r \in Reasons
  PROVE  /\ Report(t, k, r) \in Lines
         /\ Report(t, k, r).kind = "task_event_persisted"
<1>1. MakeEvent(k, r, NextSequence(t)) \in Event
  BY NextSequenceType, MakeEventType
<1> QED
  BY <1>1 DEF Report, LineEvent, Lines

\* Every line constructor yields a journal line.
LEMMA LineTypes ==
  ASSUME NEW t \in Tasks, NEW n \in Nat
  PROVE  /\ LineProvisioned(n) \in Lines
         /\ LineStarted(n) \in Lines
         /\ LineReceived(t) \in Lines
         /\ \A d \in {"accepted", "rejected"}, r \in Reasons : LineDecision(t, d, r) \in Lines
         /\ \A e \in Event : LineEvent(t, e) \in Lines
         /\ LineBegun(t) \in Lines
         /\ \A s \in 0 .. 2 : LineProgress(t, s) \in Lines
         /\ \A o \in {"SUCCEEDED", "FAILED"} : LineCompleted(t, o) \in Lines
         /\ LineReset \in Lines
BY DEF Lines, LineProvisioned, LineStarted, LineReceived, LineDecision, LineEvent,
       LineBegun, LineProgress, LineCompleted, LineReset

\* A line carries the fields of its kind.
LEMMA LineFields ==
  ASSUME NEW l \in Lines
  PROVE  /\ l.kind = "robot_provisioned" => l.token \in Nat
         /\ l.kind = "robot_started" => l.boot \in Nat
         /\ l.kind \in {"request_received", "task_decision", "task_event_persisted", "event_publish_confirmed",
                        "execution_started", "execution_progress", "execution_completed"} => l.task \in Tasks
         /\ l.kind = "task_decision" => l.decision \in {"accepted", "rejected"} /\ l.reason \in Reasons
         /\ l.kind = "task_event_persisted" => l.event \in Event
         /\ l.kind = "event_publish_confirmed" => l.key \in Nat \X Nat /\ l.ref \in Nat
         /\ l.kind = "execution_progress" => l.step \in 0 .. 2
         /\ l.kind = "execution_completed" => l.outcome \in {"SUCCEEDED", "FAILED"}
BY DEF Lines

\* The reason _decide_new_task refuses with is one of the reasons, or none.
LEMMA RefusalReasonType ==
  ASSUME TypeOK, NEW t \in Tasks
  PROVE  RefusalReason(t) \in Reasons
BY DEF TypeOK, Condition, RefusalReason, Reasons

\* A batch of one line.
LEMMA OneLine ==
  ASSUME NEW S, NEW l \in S
  PROVE  << l >> \in Seq(S) /\ Len(<< l >>) = 1 /\ << l >>[1] = l
OBVIOUS

\* A batch of two lines.
LEMMA TwoLines ==
  ASSUME NEW S, NEW l \in S, NEW m \in S
  PROVE  << l, m >> \in Seq(S) /\ Len(<< l, m >>) = 2 /\ << l, m >>[1] = l /\ << l, m >>[2] = m
OBVIOUS

\* A decision is two lines about the task: the decision and its event.
LEMMA DecideNewTaskType ==
  ASSUME TypeOK, NEW t \in Tasks
  PROVE  /\ DecideNewTask(t) \in Seq(Lines) /\ Len(DecideNewTask(t)) = 2
         /\ DecideNewTask(t)[1].kind = "task_decision" /\ DecideNewTask(t)[1].task = t
         /\ DecideNewTask(t)[2].kind = "task_event_persisted"
<1>1. RefusalReason(t) \in Reasons /\ "none" \in Reasons
  BY RefusalReasonType DEF Reasons
<1>2. MakeEvent("ACCEPTED", "none", 1) \in Event /\ MakeEvent("REJECTED", RefusalReason(t), 1) \in Event
  BY <1>1, MakeEventType, KindsAndReasons
<1>3. PICK d \in {"accepted", "rejected"}, r \in Reasons, e \in Event :
        DecideNewTask(t) = << LineDecision(t, d, r), LineEvent(t, e) >>
  BY <1>1, <1>2 DEF DecideNewTask
<1>4. LineDecision(t, d, r) \in Lines /\ LineEvent(t, e) \in Lines
  BY LineTypes
<1>5. LineDecision(t, d, r).kind = "task_decision" /\ LineDecision(t, d, r).task = t
      /\ LineEvent(t, e).kind = "task_event_persisted"
  BY DEF LineDecision, LineEvent
<1> QED
  BY <1>3, <1>4, <1>5, TwoLines

\* The robot condition derived from an event, or cleared by a reset, is a condition.
LEMMA ConditionType ==
  ASSUME NEW c \in Condition, NEW e \in Event
  PROVE  ConditionAfter(c, e) \in Condition /\ ClearCondition \in Condition
<1>1. ClearCondition \in Condition
  BY DEF ClearCondition, Condition, Tri
<1>2. Protect(c, e.reason) \in Condition
  BY DEF Protect, Condition, Tri
<1>3. e.kind \in EventKinds
  BY DEF Event
<1> QED
  BY <1>1, <1>2, <1>3, KindsAndReasons DEF ConditionAfter

\* What pending_publications selects are publications.
LEMMA PendingType ==
  ASSUME TypeOK
  PROVE  PendingPublications \subseteq Publications
<1> DEFINE Events == UNION {{Publication(t, e, 0, FALSE) : e \in Unconfirmed(t)} : t \in Tasks}
           Refusals == {Publication(rejections[n].task, rejections[n].event, n, FALSE) :
                          n \in {m \in 1 .. Len(rejections) : m \notin confirmedRejections}}
<1>1. ASSUME NEW t \in Tasks, NEW e \in Unconfirmed(t)
      PROVE  Publication(t, e, 0, FALSE) \in Publications
  <2>1. e \in Event
    BY TaskFields, ElementOfSeq DEF Unconfirmed, EventsOf
  <2> QED
    BY <2>1 DEF Publication, Publications
<1>2. ASSUME NEW n \in 1 .. Len(rejections)
      PROVE  Publication(rejections[n].task, rejections[n].event, n, FALSE) \in Publications
  <2>1. rejections \in Seq([task : Tasks, event : Event])
    BY DEF TypeOK
  <2>2. rejections[n] \in [task : Tasks, event : Event]
    BY <2>1, ElementOfSeq
  <2>3. Len(rejections) \in Nat /\ n \in Nat
    BY <2>1, LenProperties
  <2> QED
    BY <2>2, <2>3 DEF Publication, Publications
<1>3. ASSUME NEW p \in Events PROVE p \in Publications
  <2>1. PICK t \in Tasks : p \in {Publication(t, e, 0, FALSE) : e \in Unconfirmed(t)}
    BY DEF Unconfirmed
  <2> QED
    BY <1>1, <2>1
<1>4. Refusals \subseteq Publications
  BY <1>2
<1>5. PendingPublications = Events \cup Refusals
  BY DEF PendingPublications
<1> QED
  BY <1>3, <1>4, <1>5

\* What history_for selects are publications.
LEMMA HistoryType ==
  ASSUME TypeOK, NEW t \in Tasks
  PROVE  History(t) \subseteq Publications
<1>1. ASSUME NEW e \in EventsOf(t) PROVE Publication(t, e, 0, TRUE) \in Publications
  <2>1. e \in Event
    BY TaskFields, ElementOfSeq DEF EventsOf
  <2> QED
    BY <2>1 DEF Publication, Publications
<1> QED
  BY <1>1 DEF History

-----------------------------------------------------------------------------
(* Type correctness.                                                       *)

\* Taking the first line off the batch.
LEMMA BatchTail ==
  ASSUME TypeOK, batch # <<>>
  PROVE  /\ Line \in Lines /\ Line = batch[1]
         /\ Tail(batch) \in Seq(Lines)
         /\ Len(Tail(batch)) = Len(batch) - 1 /\ Len(batch) \in Nat \ {0}
         /\ \A i \in 1 .. Len(Tail(batch)) : i + 1 \in 2 .. Len(batch) /\ Tail(batch)[i] = batch[i + 1]
<1>1. batch \in Seq(Lines) /\ batch # <<>>
  BY DEF TypeOK
<1>2. Line = batch[1] /\ Len(batch) \in Nat \ {0} /\ Tail(batch) \in Seq(Lines) /\ Len(Tail(batch)) = Len(batch) - 1
  BY <1>1, HeadTailProperties, LenProperties, EmptySeq DEF Line
<1>3. Line \in Lines
  BY <1>1, HeadTailProperties DEF Line
<1>4. \A i \in 1 .. Len(Tail(batch)) : Tail(batch)[i] = batch[i + 1]
  BY <1>1, HeadTailProperties
<1> QED
  BY <1>2, <1>3, <1>4

\* The updates of a task's view keep its type.
LEMMA ViewUpdates ==
  ASSUME NEW v \in TaskView
  PROVE  /\ NewTask \in TaskView
         /\ \A d \in {"accepted", "rejected"}, r \in Reasons : [v EXCEPT !.decision = d, !.reason = r] \in TaskView
         /\ \A h \in Seq(Event), k \in TerminalKinds \cup {"none"} : [v EXCEPT !.events = h, !.terminal = k] \in TaskView
         /\ \A c \in SUBSET (Nat \X Nat) : [v EXCEPT !.confirmed = c] \in TaskView
         /\ \A s \in 0 .. 2 : [v EXCEPT !.step = s] \in TaskView /\ [v EXCEPT !.started = TRUE, !.step = s] \in TaskView
         /\ \A o \in {"SUCCEEDED", "FAILED"} : [v EXCEPT !.completed = o] \in TaskView
<1> DEFINE Seqs == Seq(Event)
           Keys == SUBSET (Nat \X Nat)
           Ends == TerminalKinds \cup {"none"}
           Steps == 0 .. 2
<1>1. TaskView = 
  [ decision  : {"unknown", "undecided", "accepted", "rejected"},
    reason    : Reasons,
    events    : Seqs,
    confirmed : Keys,
    started   : BOOLEAN,
    completed : {"no", "SUCCEEDED", "FAILED"},
    terminal  : Ends,
    step      : Steps ]
  BY DEF TaskView
<1>2. <<>> \in Seqs /\ {} \in Keys /\ "none" \in Reasons /\ "none" \in Ends /\ 0 \in Steps
  BY DEF Reasons
<1> HIDE DEF Seqs, Keys, Ends, Steps
<1>3. UnknownTask \in TaskView
  BY <1>1, <1>2 DEF UnknownTask
<1>4. NewTask \in TaskView
  BY <1>1, <1>3 DEF NewTask
<1>5. \A d \in {"accepted", "rejected"}, r \in Reasons : [v EXCEPT !.decision = d, !.reason = r] \in TaskView
  BY <1>1
<1>6. \A h \in Seqs, k \in Ends : [v EXCEPT !.events = h, !.terminal = k] \in TaskView
  BY <1>1
<1>7. \A c \in Keys : [v EXCEPT !.confirmed = c] \in TaskView
  BY <1>1
<1>8. \A s \in Steps : [v EXCEPT !.step = s] \in TaskView /\ [v EXCEPT !.started = TRUE, !.step = s] \in TaskView
  BY <1>1
<1>9. \A o \in {"SUCCEEDED", "FAILED"} : [v EXCEPT !.completed = o] \in TaskView
  BY <1>1
<1> QED
  BY <1>4, <1>5, <1>6, <1>7, <1>8, <1>9 DEF Seqs, Keys, Ends, Steps

\* Replacing the view of one task keeps the type of the views.
LEMMA TaskUpdate ==
  ASSUME TypeOK, NEW t \in Tasks, NEW v \in TaskView, NEW new, new = [task EXCEPT ![t] = v]
  PROVE  new \in [Tasks -> TaskView]
BY DEF TypeOK

\* What the write of a line changes has its type.
LEMMA WriteType ==
  ASSUME TypeOK, batch # <<>>,
         \/ WriteProvisioned \/ WriteStarted \/ WriteReceived \/ WriteDecision
         \/ WriteRequestRejection \/ WriteEvent \/ WriteConfirmed
         \/ WriteExecutionStarted \/ WriteExecutionProgress \/ WriteExecutionCompleted \/ WriteReset
  PROVE  /\ token' \in Nat /\ boot' \in Nat
         /\ task' \in [Tasks -> TaskView]
         /\ cond' \in Condition
         /\ current' \in Tasks \cup {NoTask}
         /\ rejections' \in Seq([task : Tasks, event : Event])
         /\ confirmedRejections' \subseteq Nat
         /\ runs' \in [Tasks -> Nat]
<1> DEFINE l == Line
<1>1. /\ token \in Nat /\ boot \in Nat /\ task \in [Tasks -> TaskView] /\ cond \in Condition
      /\ current \in Tasks \cup {NoTask} /\ rejections \in Seq([task : Tasks, event : Event])
      /\ confirmedRejections \subseteq Nat /\ runs \in [Tasks -> Nat]
  BY DEF TypeOK
<1>2. l \in Lines
  BY BatchTail
<1>3. CASE WriteProvisioned
  BY <1>1, <1>2, <1>3, LineFields DEF WriteProvisioned
<1>4. CASE WriteStarted
  BY <1>1, <1>2, <1>4, LineFields DEF WriteStarted
<1>5. CASE WriteReceived
  <2>1. l.task \in Tasks
    BY <1>2, <1>5, LineFields DEF WriteReceived
  <2>2. task[l.task] \in TaskView
    BY <2>1, TaskFields
  <2>3. NewTask \in TaskView
    BY <2>2, ViewUpdates
  <2>4. task' \in [Tasks -> TaskView]
    BY <1>5, <2>1, <2>3, TaskUpdate DEF WriteReceived
  <2> QED
    BY <1>1, <1>5, <2>4 DEF WriteReceived
<1>6. CASE WriteDecision
  <2>1. l.task \in Tasks /\ l.decision \in {"accepted", "rejected"} /\ l.reason \in Reasons
    BY <1>2, <1>6, LineFields DEF WriteDecision
  <2>a. task[l.task] \in TaskView
    BY <2>1, TaskFields
  <2>b. [task[l.task] EXCEPT !.decision = l.decision, !.reason = l.reason] \in TaskView
    BY <2>1, <2>a, ViewUpdates
  <2>c. task' = [task EXCEPT ![l.task] = [task[l.task] EXCEPT !.decision = l.decision, !.reason = l.reason]]
    BY <1>1, <1>6, <2>1, <2>a DEF WriteDecision
  <2>2. task' \in [Tasks -> TaskView]
    BY <2>1, <2>b, <2>c, TaskUpdate
  <2>3. [cond EXCEPT !.availability = "BUSY"] \in Condition
    BY <1>1 DEF Condition
  <2> QED
    BY <1>1, <1>6, <2>1, <2>2, <2>3 DEF WriteDecision
<1>7. CASE WriteRequestRejection
  <2>1. [task |-> l.task, event |-> l.event] \in [task : Tasks, event : Event]
    BY <1>2, <1>7, LineFields DEF WriteRequestRejection
  <2>2. rejections' \in Seq([task : Tasks, event : Event])
    BY <1>1, <1>7, <2>1, AppendProperties DEF WriteRequestRejection
  <2> QED
    BY <1>1, <1>7, <2>2 DEF WriteRequestRejection
<1>8. CASE WriteEvent
  <2> DEFINE t == l.task
             e == l.event
  <2>1. t \in Tasks /\ e \in Event
    BY <1>2, <1>8, LineFields DEF WriteEvent
  <2>2. task[t] \in TaskView /\ Append(task[t].events, e) \in Seq(Event)
    BY <2>1, TaskFields, AppendProperties
  <2>3. ASSUME NEW k \in TerminalKinds \cup {"none"}
        PROVE  [task EXCEPT ![t].events = Append(@, e), ![t].terminal = k] \in [Tasks -> TaskView]
    BY <1>1, <2>1, <2>2 DEF TaskView
  <2>4. (IF e.kind \in TerminalKinds THEN e.kind ELSE task[t].terminal) \in TerminalKinds \cup {"none"}
    BY <2>2 DEF TaskView
  <2>5. task' = [task EXCEPT ![t].events = Append(@, e),
                             ![t].terminal = IF e.kind \in TerminalKinds THEN e.kind ELSE task[t].terminal]
    BY <1>1, <1>8, <2>1 DEF WriteEvent
  <2>6. task' \in [Tasks -> TaskView]
    BY <2>3, <2>4, <2>5
  <2>7. cond' \in Condition
    BY <1>1, <1>8, <2>1, ConditionType DEF WriteEvent
  <2> QED
    BY <1>1, <1>8, <2>6, <2>7 DEF WriteEvent
<1>9. CASE WriteConfirmed
  <2>1. l.task \in Tasks /\ l.key \in Nat \X Nat /\ l.ref \in Nat
    BY <1>2, <1>9, LineFields DEF WriteConfirmed
  <2>2. task[l.task].confirmed \cup {l.key} \in SUBSET (Nat \X Nat)
    BY <2>1, TaskFields
  <2>a. [task[l.task] EXCEPT !.confirmed = task[l.task].confirmed \cup {l.key}] \in TaskView
    BY <2>1, <2>2, TaskFields, ViewUpdates
  <2>3. [task EXCEPT ![l.task].confirmed = @ \cup {l.key}] \in [Tasks -> TaskView]
    BY <2>1, <2>a, TaskUpdate
  <2> QED
    BY <1>1, <1>9, <2>1, <2>3 DEF WriteConfirmed
<1>10. CASE WriteExecutionStarted
  <2>1. l.task \in Tasks /\ AtLeast(task[l.task].step, 1) \in 0 .. 2
    BY <1>2, <1>10, LineFields, TaskFields DEF WriteExecutionStarted, AtLeast
  <2>a. task[l.task] \in TaskView
    BY <2>1, TaskFields
  <2>b. [task[l.task] EXCEPT !.started = TRUE, !.step = AtLeast(task[l.task].step, 1)] \in TaskView
    BY <2>1, <2>a, ViewUpdates
  <2>c. task' = [task EXCEPT ![l.task] = [task[l.task] EXCEPT !.started = TRUE, !.step = AtLeast(task[l.task].step, 1)]]
    BY <1>1, <1>10, <2>1, <2>a DEF WriteExecutionStarted
  <2>2. task' \in [Tasks -> TaskView]
    BY <2>1, <2>b, <2>c, TaskUpdate
  <2>3. runs' \in [Tasks -> Nat]
    BY <1>1, <1>10, <2>1 DEF WriteExecutionStarted
  <2> QED
    BY <1>1, <1>10, <2>2, <2>3 DEF WriteExecutionStarted
<1>11. CASE WriteExecutionProgress
  <2>1. l.task \in Tasks /\ AtLeast(task[l.task].step, l.step) \in 0 .. 2
    BY <1>2, <1>11, LineFields, TaskFields DEF WriteExecutionProgress, AtLeast
  <2>a. task[l.task] \in TaskView
    BY <2>1, TaskFields
  <2>b. [task[l.task] EXCEPT !.step = AtLeast(task[l.task].step, l.step)] \in TaskView
    BY <2>1, <2>a, ViewUpdates
  <2>c. task' = [task EXCEPT ![l.task] = [task[l.task] EXCEPT !.step = AtLeast(task[l.task].step, l.step)]]
    BY <1>1, <1>11, <2>1, <2>a DEF WriteExecutionProgress
  <2>2. task' \in [Tasks -> TaskView]
    BY <2>1, <2>b, <2>c, TaskUpdate
  <2> QED
    BY <1>1, <1>11, <2>2 DEF WriteExecutionProgress
<1>12. CASE WriteExecutionCompleted
  <2>1. l.task \in Tasks /\ l.outcome \in {"SUCCEEDED", "FAILED"}
    BY <1>2, <1>12, LineFields DEF WriteExecutionCompleted
  <2>a. task[l.task] \in TaskView
    BY <2>1, TaskFields
  <2>b. [task[l.task] EXCEPT !.completed = l.outcome] \in TaskView
    BY <2>1, <2>a, ViewUpdates
  <2>c. task' = [task EXCEPT ![l.task] = [task[l.task] EXCEPT !.completed = l.outcome]]
    BY <1>1, <1>12, <2>1, <2>a DEF WriteExecutionCompleted
  <2>2. task' \in [Tasks -> TaskView]
    BY <2>1, <2>b, <2>c, TaskUpdate
  <2> QED
    BY <1>1, <1>12, <2>2 DEF WriteExecutionCompleted
<1>13. CASE WriteReset
  <2>1. ClearCondition \in Condition
    BY DEF ClearCondition, Condition, Tri
  <2> QED
    BY <1>1, <1>13, <2>1 DEF WriteReset
<1> QED
  BY <1>3, <1>4, <1>5, <1>6, <1>7, <1>8, <1>9, <1>10, <1>11, <1>12, <1>13

\* Appending a line and applying it to the view (append_via) keeps the types.
LEMMA TypeWriteLine ==
  ASSUME TypeOK, WriteLine
  PROVE  TypeOK'
<1>1. batch # <<>> /\ batch' = Tail(batch)
  BY DEF WriteLine
<1>2. batch' \in Seq(Lines)
  BY <1>1, BatchTail
<1>3. \/ WriteProvisioned \/ WriteStarted \/ WriteReceived \/ WriteDecision
      \/ WriteRequestRejection \/ WriteEvent \/ WriteConfirmed
      \/ WriteExecutionStarted \/ WriteExecutionProgress \/ WriteExecutionCompleted \/ WriteReset
  BY DEF WriteLine
<1>4. /\ token' \in Nat /\ boot' \in Nat /\ task' \in [Tasks -> TaskView] /\ cond' \in Condition
      /\ current' \in Tasks \cup {NoTask} /\ rejections' \in Seq([task : Tasks, event : Event])
      /\ confirmedRejections' \subseteq Nat /\ runs' \in [Tasks -> Nat]
  BY <1>1, <1>3, WriteType
<1>5. UNCHANGED <<fileVars, pc, errand, behavior, handling, replay, out, sending,
                  expired, minted, starts, announced, acked>>
  BY DEF WriteLine
<1> QED
  BY <1>2, <1>4, <1>5 DEF TypeOK, fileVars

\* Entering the process resets the fields of the device to values of their types.
LEMMA TypeEnterProcess ==
  ASSUME TypeOK, EnterProcess
  PROVE  /\ pc' = "pass1" /\ errand' \in {"serve", "reset", "leave"} /\ behavior' \in Behaviors \cup {"none"}
         /\ handling' \in Tasks \cup {NoTask} /\ replay' \subseteq Publications /\ out' \subseteq Publications
         /\ sending' \in Publications \cup {NoPublication} /\ starts' \in Nat
BY ConstantsAssumption DEF TypeOK, EnterProcess

\* The start of the device, its three recovery passes included, keeps the types.
LEMMA TypeBoot ==
  ASSUME TypeOK, Boot
  PROVE  TypeOK'
<1>1. CASE StartProvisioning
  <2>1. LineProvisioned(minted + 1) \in Lines /\ LineStarted(1) \in Lines
    BY DEF TypeOK, Lines, LineProvisioned, LineStarted
  <2>2. batch' \in Seq(Lines)
    BY <1>1, <2>1, TwoLines DEF StartProvisioning
  <2>3. EnterProcess
    BY <1>1 DEF StartProvisioning
  <2> QED
    <3>0. minted' = minted + 1 /\ anchored' = FALSE
      BY <1>1 DEF StartProvisioning
    <3>1. /\ minted' \in Nat /\ anchored' \in BOOLEAN
          /\ UNCHANGED <<token, boot, task, cond, current, rejections, confirmedRejections>>
          /\ UNCHANGED <<torn, expired, runs, announced, acked>>
      <4>1. minted' \in Nat
        BY <3>0 DEF TypeOK
      <4>2. UNCHANGED <<journalVars, torn, expired, runs, announced, acked>>
        BY <1>1 DEF StartProvisioning
      <4> QED
        BY <3>0, <4>1, <4>2 DEF journalVars
    <3>2. /\ pc' = "pass1" /\ errand' \in {"serve", "reset", "leave"} /\ behavior' \in Behaviors \cup {"none"}
          /\ handling' \in Tasks \cup {NoTask} /\ replay' \subseteq Publications /\ out' \subseteq Publications
          /\ sending' \in Publications \cup {NoPublication} /\ starts' \in Nat
      BY <2>3, TypeEnterProcess
    <3> QED
      BY <2>2, <3>1, <3>2 DEF TypeOK
<1>2. CASE StartAgain
  <2>1. LineStarted(boot + 1) \in Lines
    BY DEF TypeOK, Lines, LineStarted
  <2>2. batch' \in Seq(Lines)
    BY <1>2, <2>1, OneLine DEF StartAgain
  <2>3. EnterProcess
    BY <1>2 DEF StartAgain
  <2> QED
    BY <1>2, <2>2, <2>3, TypeEnterProcess DEF TypeOK, StartAgain, journalVars, fileVars
<1>3. CASE Recover
  <2>1. batch' \in Seq(Lines)
    <3>1. ASSUME NEW t \in Tasks, CloseInterrupted(t) PROVE batch' \in Seq(Lines)
      <4>1. task[t].completed \in {"no", "SUCCEEDED", "FAILED"} /\ task[t].started \in BOOLEAN
        BY DEF TypeOK, TaskView
      <4>2. \A k \in EventKinds, r \in Reasons : Report(t, k, r) \in Lines
        BY ReportType
      <4>3. OutcomeAfterRestart(t) \in Lines
        BY <4>1, <4>2 DEF OutcomeAfterRestart, EventKinds, TerminalKinds, Reasons
      <4> QED
        BY <3>1, <4>3, OneLine DEF CloseInterrupted
    <3>2. ASSUME NEW t \in Tasks, ReportRejected(t) PROVE batch' \in Seq(Lines)
      <4>1. MakeEvent("REJECTED", task[t].reason, 1) \in Event
        BY TaskFields, MakeEventType, KindsAndReasons
      <4> QED
        BY <3>2, <4>1, LineTypes, OneLine DEF ReportRejected
    <3>3. ASSUME NEW t \in Tasks, DecidePersisted(t) PROVE batch' \in Seq(Lines)
      BY <3>3, DecideNewTaskType DEF DecidePersisted
    <3>4. ASSUME EndPass1 \/ EndPass2 PROVE batch' \in Seq(Lines)
      BY <3>4 DEF EndPass1, EndPass2, TypeOK
    <3> QED
      BY <1>3, <3>1, <3>2, <3>3, <3>4 DEF Recover
  <2>2. pc' \in {"pass1", "pass2", "pass3"}
    BY <1>3 DEF Recover, CloseInterrupted, ReportRejected, DecidePersisted, EndPass1, EndPass2, TypeOK
  <2> QED
    BY <1>3, <2>1, <2>2 DEF Recover, TypeOK, journalVars, fileVars, worldVars
<1>4. CASE FinishBoot
  BY <1>4 DEF FinishBoot, TypeOK, journalVars, worldVars
<1> QED
  BY <1>1, <1>2, <1>3, <1>4 DEF Boot

\* Handling a request (on_request) keeps the types.
LEMMA TypeReceive ==
  ASSUME TypeOK, NEW t \in Tasks, Receive(t)
  PROVE  TypeOK'
<1>1. batch' \in Seq(Lines)
  <2>1. CASE ~ForThisIncarnation(t)
    <3>1. MakeEvent("REJECTED", "none", 0) \in Event
      BY MakeEventType, KindsAndReasons DEF Reasons
    <3>2. LineEvent(t, MakeEvent("REJECTED", "none", 0)) \in Lines
      BY <3>1, LineTypes
    <3> QED
      BY <2>1, <3>2, OneLine DEF Receive
  <2>2. CASE ForThisIncarnation(t) /\ task[t].decision # "unknown"
    BY <2>2 DEF Receive, TypeOK
  <2>3. CASE ForThisIncarnation(t) /\ task[t].decision = "unknown"
    <3>1. batch' = << LineReceived(t) >> \o DecideNewTask(t)
      BY <2>3 DEF Receive
    <3>2. << LineReceived(t) >> \in Seq(Lines) /\ DecideNewTask(t) \in Seq(Lines)
      BY DecideNewTaskType, LineTypes, OneLine
    <3> QED
      BY <3>1, <3>2, ConcatProperties
  <2> QED
    BY <2>1, <2>2, <2>3
<1>2. replay' \subseteq Publications
  BY HistoryType DEF Receive, TypeOK
<1> QED
  BY <1>1, <1>2 DEF Receive, TypeOK, journalVars, fileVars, worldVars

\* A step of the scripted execution (tick) keeps the types.
LEMMA TypeExecutionStep ==
  ASSUME TypeOK, ExecutionStep
  PROVE  TypeOK'
<1>1. PICK t \in Tasks : \/ BeginExecution(t) \/ Collect(t) \/ GiveUp(t) \/ AskForHelp(t)
                         \/ CompleteExecution(t) \/ LeaveAfterAccept(t)
  BY DEF ExecutionStep
<1>2. \A k \in EventKinds, r \in Reasons : Report(t, k, r) \in Lines
  BY ReportType
<1>3. LineBegun(t) \in Lines /\ LineProgress(t, 2) \in Lines
      /\ LineCompleted(t, "FAILED") \in Lines /\ LineCompleted(t, "SUCCEEDED") \in Lines
  BY LineTypes
<1>4. batch' \in Seq(Lines) /\ pc' \in {"drain", "exiting"}
  <2>1. CASE BeginExecution(t)
    <3>1. Report(t, "PROGRESS", "none") \in Lines
      BY <1>2, KindsAndReasons DEF Reasons
    <3>2. << LineBegun(t) >> \in Seq(Lines) /\ << LineBegun(t), Report(t, "PROGRESS", "none") >> \in Seq(Lines)
      BY <3>1, <1>3, OneLine, TwoLines
    <3> QED
      BY <2>1, <3>2 DEF BeginExecution
  <2>2. CASE Collect(t)
    <3>1. Report(t, "PROGRESS", "none") \in Lines
      BY <1>2, KindsAndReasons DEF Reasons
    <3> QED
      BY <2>2, <3>1, <1>3, TwoLines DEF Collect
  <2>3. CASE GiveUp(t)
    <3>1. Report(t, "FAILED", "cannot_continue") \in Lines
      BY <1>2, KindsAndReasons DEF Reasons
    <3> QED
      BY <2>3, <3>1, <1>3, TwoLines DEF GiveUp
  <2>4. CASE AskForHelp(t)
    <3>1. Report(t, "ASSISTANCE_REQUIRED", "unknown_fault") \in Lines
          /\ Report(t, "ASSISTANCE_REQUIRED", "energy_insufficient") \in Lines
      BY <1>2, KindsAndReasons DEF Reasons
    <3> QED
      BY <2>4, <3>1, OneLine DEF AskForHelp
  <2>5. CASE CompleteExecution(t)
    <3>1. Report(t, "SUCCEEDED", "none") \in Lines
      BY <1>2, KindsAndReasons DEF Reasons
    <3> QED
      BY <2>5, <3>1, <1>3, TwoLines DEF CompleteExecution
  <2>6. CASE LeaveAfterAccept(t)
    BY <2>6 DEF LeaveAfterAccept, TypeOK
  <2> QED
    BY <1>1, <2>1, <2>2, <2>3, <2>4, <2>5, <2>6
<1> QED
  BY <1>4 DEF ExecutionStep, TypeOK, journalVars, fileVars, worldVars

\* The lines by which simulate_reset abandons the current task are journal lines.
LEMMA AbandonedType ==
  ASSUME TypeOK
  PROVE  Abandoned \in Seq(Lines)
<1>1. CASE current # NoTask /\ ~IsTerminal(current)
  <2>1. current \in Tasks
    BY <1>1 DEF TypeOK
  <2>2. Report(current, "FAILED", "cannot_continue") \in Lines /\ LineCompleted(current, "FAILED") \in Lines
    BY <2>1, ReportType, LineTypes, KindsAndReasons DEF Reasons
  <2> QED
    BY <1>1, <2>2, TwoLines DEF Abandoned
<1>2. CASE ~ (current # NoTask /\ ~IsTerminal(current))
  BY <1>2 DEF Abandoned
<1> QED
  BY <1>1, <1>2

\* A reset keeps the types.
LEMMA TypeReset ==
  ASSUME TypeOK, SimulateReset
  PROVE  TypeOK'
<1>1. LineReset \in Lines
  BY DEF LineReset, Lines
<1>2. Abandoned \in Seq(Lines)
  BY AbandonedType
<1>3. batch' \in Seq(Lines)
  BY <1>1, <1>2, OneLine, ConcatProperties DEF SimulateReset, ResetLines
<1> QED
  BY <1>3 DEF SimulateReset, TypeOK, journalVars, fileVars, worldVars

\* Publishing pending events keeps the types.
LEMMA TypePublishing ==
  ASSUME TypeOK, PublishPending \/ SendNext \/ HopOneConfirmed \/ HopOneTimeout
  PROVE  TypeOK'
<1>1. CASE PublishPending
  <2>1. out' \subseteq Publications /\ replay' \subseteq Publications
    BY <1>1, PendingType DEF PublishPending, TypeOK
  <2> QED
    BY <1>1, <2>1 DEF PublishPending, TypeOK, journalVars, fileVars, worldVars
<1>2. CASE SendNext
  BY <1>2 DEF SendNext, TypeOK, journalVars, fileVars, worldVars
<1>3. ASSUME EndWait, batch' \in Seq(Lines), announced' \subseteq Tasks
      PROVE  TypeOK'
  BY <1>3 DEF EndWait, TypeOK, journalVars, fileVars
<1>4. Announces(sending) \subseteq Tasks
  BY DEF Announces
<1>5. CASE HopOneConfirmed
  <2>1. batch' \in Seq(Lines)
    <3>1. CASE sending.again
      BY <1>5, <3>1 DEF HopOneConfirmed
    <3>2. CASE ~sending.again
      <4>1. NoPublication.again = TRUE
        BY DEF NoPublication, Publication
      <4>2. sending \in Publications
        BY <3>2, <4>1 DEF TypeOK
      <4>3. sending.task \in Tasks /\ sending.event \in Event /\ sending.ref \in Nat
        BY <4>2 DEF Publications
      <4>4. Key(sending.event) \in Nat \X Nat
        BY <4>3 DEF Key, Event
      <4>5. LineConfirmed(sending) \in Lines
        BY <4>3, <4>4 DEF LineConfirmed, Lines
      <4> QED
        BY <1>5, <3>2, <4>5, OneLine DEF HopOneConfirmed
    <3> QED
      BY <3>1, <3>2
  <2> QED
    BY <1>3, <1>4, <1>5, <2>1 DEF HopOneConfirmed, TypeOK
<1>6. CASE HopOneTimeout
  BY <1>3, <1>4, <1>6 DEF HopOneTimeout, TypeOK
<1> QED
  BY <1>1, <1>2, <1>5, <1>6

\* Leaving, crashing and losing the journal keep the types.
LEMMA TypeLeaving ==
  ASSUME TypeOK, Leave \/ Crash \/ LoseJournal
  PROVE  TypeOK'
<1>1. ASSUME StopProcess, torn' \in BOOLEAN, announced' \subseteq Tasks
      PROVE  TypeOK'
  BY <1>1 DEF StopProcess, TypeOK, journalVars
<1>2. CASE Leave
  BY <1>1, <1>2 DEF Leave, TypeOK
<1>3. CASE Crash
  <2>1. torn' \in BOOLEAN /\ announced' \subseteq Tasks
    BY <1>3 DEF Crash, Announces, TypeOK
  <2>2. StopProcess
    BY <1>3 DEF Crash
  <2> QED
    BY <1>1, <2>1, <2>2
<1>4. CASE LoseJournal
  <2>1. UnknownTask \in TaskView
    BY DEF UnknownTask, TaskView, Reasons
  <2>2. task' \in [Tasks -> TaskView]
    BY <1>4, <2>1 DEF LoseJournal
  <2>3. cond' \in Condition
    BY <1>4 DEF LoseJournal, ClearCondition, Condition, Tri
  <2>4. /\ token' = 0 /\ boot' = 0 /\ current' = NoTask /\ rejections' = <<>> /\ confirmedRejections' = {}
        /\ torn' = FALSE /\ anchored' \in BOOLEAN /\ acked' = {} /\ starts' = 0
        /\ UNCHANGED <<pc, errand, behavior, batch, handling, replay, out, sending>>
        /\ UNCHANGED <<expired, minted, runs, announced>>
    BY <1>4 DEF LoseJournal, TypeOK, processVars
  <2>5. rejections' \in Seq([task : Tasks, event : Event]) /\ confirmedRejections' \subseteq Nat /\ acked' \subseteq Tasks
    BY <2>4
  <2>6. token' \in Nat /\ boot' \in Nat /\ starts' \in Nat /\ torn' \in BOOLEAN /\ current' \in Tasks \cup {NoTask}
    BY <2>4
  <2> QED
    BY <2>2, <2>3, <2>4, <2>5, <2>6 DEF TypeOK
<1> QED
  BY <1>2, <1>3, <1>4

\* Every reachable state has the declared types: in particular every journal line in
\* flight is complete and every sequence a task's events take is a natural number.
THEOREM TypeCorrect == Spec => []TypeOK
<1>1. Init => TypeOK
  <2> SUFFICES ASSUME Init PROVE TypeOK
    OBVIOUS
  <2>1. UnknownTask \in TaskView
    BY DEF UnknownTask, TaskView, Reasons
  <2>2. ClearCondition \in Condition
    BY DEF ClearCondition, Condition, Tri
  <2>3. task \in [Tasks -> TaskView] /\ cond \in Condition /\ runs \in [Tasks -> Nat]
    BY <2>1, <2>2 DEF Init
  <2>4. rejections \in Seq([task : Tasks, event : Event]) /\ batch \in Seq(Lines)
    BY DEF Init
  <2>5. /\ confirmedRejections \subseteq Nat /\ replay \subseteq Publications /\ out \subseteq Publications
        /\ expired \subseteq Tasks /\ announced \subseteq Tasks /\ acked \subseteq Tasks
    BY DEF Init
  <2>6. /\ token \in Nat /\ boot \in Nat /\ minted \in Nat /\ starts \in Nat
        /\ current \in Tasks \cup {NoTask} /\ handling \in Tasks \cup {NoTask}
        /\ sending \in Publications \cup {NoPublication}
    BY DEF Init
  <2>7. anchored \in BOOLEAN /\ torn \in BOOLEAN /\ pc = "down" /\ errand = "serve" /\ behavior = "none"
    BY DEF Init
  <2> QED
    BY <2>3, <2>4, <2>5, <2>6, <2>7 DEF TypeOK
<1>2. TypeOK /\ [Next]_vars => TypeOK'
  <2> SUFFICES ASSUME TypeOK, [Next]_vars PROVE TypeOK'
    OBVIOUS
  <2>1. CASE WriteLine
    BY <2>1, TypeWriteLine
  <2>2. CASE Boot
    BY <2>2, TypeBoot
  <2>3. CASE \E t \in Tasks : Receive(t)
    BY <2>3, TypeReceive
  <2>4. CASE \E t \in Tasks : Expire(t)
    BY <2>4 DEF Expire, TypeOK, journalVars, fileVars, processVars
  <2>5. CASE AckRequest
    BY <2>5 DEF AckRequest, TypeOK, journalVars, fileVars
  <2>6. CASE ExecutionStep
    BY <2>6, TypeExecutionStep
  <2>7. CASE SimulateReset
    BY <2>7, TypeReset
  <2>8. CASE PublishPending \/ SendNext \/ HopOneConfirmed \/ HopOneTimeout
    BY <2>8, TypePublishing
  <2>9. CASE Leave \/ Crash \/ LoseJournal
    BY <2>9, TypeLeaving
  <2>10. CASE UNCHANGED vars
    BY <2>10 DEF vars, journalVars, fileVars, processVars, worldVars, TypeOK
  <2> QED
    BY <2>1, <2>2, <2>3, <2>4, <2>5, <2>6, <2>7, <2>8, <2>9, <2>10 DEF Next
<1> QED
  BY <1>1, <1>2, PTL DEF Spec

-----------------------------------------------------------------------------
(* No task is executed twice.  The invariant is BatchSound with            *)
(* RunsRemembered: what the journal remembers of this incarnation covers   *)
(* every execution authorised for it, and a line that would start another  *)
(* one can only be in flight while nothing of the kind is remembered.      *)

Restricted == {"robot_provisioned", "request_received", "task_decision", "execution_started"}

\* A line of a kind that LineSound does not restrict is sound.
LEMMA QuietLine ==
  ASSUME NEW i, batch'[i].kind \notin Restricted
  PROVE  LineSound(batch[i], i)'
BY DEF LineSound, Restricted

\* The lines behind the first one of a batch.
LEMMA RestOfBatch ==
  ASSUME TypeOK, ExecutionInv, batch # <<>>, batch' = Tail(batch), NEW i \in 1 .. Len(batch')
  PROVE  /\ batch'[i].kind \notin Restricted \ {"task_decision"}
         /\ batch'[i].kind = "task_decision" => batch'[i].task \in Tasks /\ Incarnation[batch'[i].task] = token
<1>1. i + 1 \in 1 .. Len(batch) /\ i + 1 # 1 /\ batch'[i] = batch[i + 1]
  BY BatchTail
<1>2. batch[i + 1] \in Lines
  BY <1>1, ElementOfSeq DEF TypeOK
<1>3. LineSound(batch[i + 1], i + 1)
  BY <1>1 DEF ExecutionInv, BatchSound
<1> QED
  BY <1>1, <1>2, <1>3, LineFields DEF LineSound, Restricted

\* When the first line of a batch is written and the identity stays, the rest of the batch stays sound.
LEMMA SoundTail ==
  ASSUME TypeOK, ExecutionInv, batch # <<>>, batch' = Tail(batch), token' = token
  PROVE  BatchSound'
<1>1. ASSUME NEW i \in 1 .. Len(batch') PROVE LineSound(batch[i], i)'
  BY RestOfBatch DEF LineSound, Restricted
<1> QED
  BY <1>1 DEF BatchSound

\* A step that forgets no task and no start, takes only tasks of this incarnation and
\* begins only executions of tasks that had not started keeps the memory of the runs.
LEMMA MemoryStep ==
  ASSUME TypeOK, TypeOK', ExecutionInv, token' = token, minted' \in {minted, minted + 1},
         current' # NoTask => current' = current \/ task'[current'].decision # "unknown",
         \A t \in Tasks :
           /\ task[t].decision # "unknown" => task'[t].decision # "unknown"
           /\ task'[t].decision # "unknown" => task[t].decision # "unknown" \/ Incarnation[t] = token
           /\ task[t].started => task'[t].started
           /\ task'[t].started => task'[t].decision # "unknown" /\ task'[t].step # 0
           /\ \/ runs'[t] = runs[t]
              \/ ~task[t].started /\ task'[t].started /\ Incarnation[t] = token /\ runs'[t] = runs[t] + 1
  PROVE  RunsRemembered' /\ AtMostOneExecution'
<1>1. token \in Nat /\ minted \in Nat /\ (\A t \in Tasks : Incarnation[t] \in Nat \ {0} /\ runs[t] \in Nat)
  BY ConstantsAssumption DEF TypeOK
<1>2. current \in Tasks \cup {NoTask} /\ current' \in Tasks \cup {NoTask}
  BY DEF TypeOK
<1>3. RunsRemembered /\ AtMostOneExecution
  BY DEF ExecutionInv
<1>4. token' <= minted'
  BY <1>1, <1>3 DEF RunsRemembered
<1>5. current' # NoTask => task'[current'].decision # "unknown"
  BY <1>2, <1>3 DEF RunsRemembered
<1>6. ASSUME NEW t \in Tasks
      PROVE  /\ task'[t].decision # "unknown" => Incarnation[t] = token'
             /\ task'[t].started => task'[t].decision # "unknown" /\ task'[t].step # 0
             /\ runs'[t] > 0 => Incarnation[t] <= minted'
             /\ runs'[t] > 0 /\ Incarnation[t] = token' => task'[t].started
             /\ runs'[t] <= 1
  <2>1. CASE runs'[t] = runs[t]
    BY <1>1, <1>3, <2>1 DEF RunsRemembered, AtMostOneExecution
  <2>2. CASE ~task[t].started /\ task'[t].started /\ Incarnation[t] = token /\ runs'[t] = runs[t] + 1
    <3>1. runs[t] = 0
      BY <1>1, <1>3, <2>2 DEF RunsRemembered
    <3> QED
      BY <1>1, <1>3, <1>4, <2>2, <3>1 DEF RunsRemembered
  <2> QED
    BY <2>1, <2>2
<1> QED
  BY <1>4, <1>5, <1>6 DEF RunsRemembered, AtMostOneExecution

\* Appending a line keeps the invariant of the executions: only an execution_started line of a task that had not started counts a run.
LEMMA ExecutionWriteLine ==
  ASSUME TypeOK, TypeOK', ExecutionInv, WriteLine
  PROVE  ExecutionInv'
<1>0. pc' # "down"
  BY DEF ExecutionInv, WriteLine
<1> DEFINE l == Line
<1>1. batch # <<>> /\ batch' = Tail(batch) /\ minted' = minted
  BY DEF WriteLine
<1>2. l \in Lines /\ LineSound(l, 1)
  BY <1>1, BatchTail DEF ExecutionInv, BatchSound
<1>3. token \in Nat /\ minted \in Nat /\ \A t \in Tasks : Incarnation[t] \in Nat \ {0}
  BY ConstantsAssumption DEF TypeOK
<1>4. task \in [Tasks -> TaskView] /\ runs \in [Tasks -> Nat]
  BY DEF TypeOK
<1>5. RunsRemembered /\ AtMostOneExecution
  BY DEF ExecutionInv
<1>6. CASE WriteProvisioned
  <2>1. token = 0 /\ token' = minted /\ UNCHANGED <<task, current, runs>>
        /\ \A t \in Tasks : runs[t] > 0 => Incarnation[t] # minted
    BY <1>2, <1>6 DEF LineSound, WriteProvisioned
  <2>2. \A t \in Tasks : task[t].decision = "unknown" /\ ~task[t].started
    <3>1. \A t \in Tasks : task[t].started \in BOOLEAN
      BY <1>4 DEF TaskView
    <3> QED
      BY <1>3, <1>5, <2>1, <3>1 DEF RunsRemembered
  <2>3. BatchSound'
    <3>1. ASSUME NEW i \in 1 .. Len(batch') PROVE batch'[i].kind \notin Restricted
      BY <1>1, <1>3, <2>1, RestOfBatch DEF Restricted
    <3> QED
      BY <3>1, QuietLine DEF BatchSound
  <2>4. RunsRemembered' /\ AtMostOneExecution'
    <3>1. current = NoTask
      BY <2>2, <1>5 DEF RunsRemembered, TypeOK
    <3> QED
      BY <1>1, <1>3, <1>5, <2>1, <2>2, <3>1 DEF RunsRemembered, AtMostOneExecution
  <2> QED
    BY <1>0, <2>3, <2>4 DEF ExecutionInv
<1>7. CASE WriteReceived
  <2>1. l.task \in Tasks /\ task[l.task].decision = "unknown" /\ Incarnation[l.task] = token
    BY <1>2, <1>7, LineFields DEF LineSound, WriteReceived
  <2>2. task' = [task EXCEPT ![l.task] = NewTask] /\ UNCHANGED <<token, current, runs>>
    BY <1>7 DEF WriteReceived
  <2>3. NewTask.decision = "undecided" /\ NewTask.started = FALSE /\ NewTask.step = 0
    BY DEF NewTask, UnknownTask
  <2>a. ~task[l.task].started /\ task'[l.task] = NewTask /\ \A t \in Tasks : t # l.task => task'[t] = task[t]
    <3>1. task[l.task].started \in BOOLEAN
      BY <1>4, <2>1 DEF TaskView
    <3> QED
      BY <1>4, <1>5, <2>1, <2>2, <3>1 DEF RunsRemembered
  <2>4. RunsRemembered' /\ AtMostOneExecution'
    BY <1>1, <1>5, <2>1, <2>2, <2>3, <2>a, MemoryStep DEF RunsRemembered
  <2> QED
    BY <1>1, <2>2, <2>4, <1>0, SoundTail DEF ExecutionInv
<1>8. CASE WriteDecision
  <2>1. l.task \in Tasks /\ Incarnation[l.task] = token /\ l.decision \in {"accepted", "rejected"}
    BY <1>2, <1>8, LineFields DEF LineSound, WriteDecision
  <2>2. /\ \A t \in Tasks : task'[t].started = task[t].started /\ task'[t].step = task[t].step
        /\ \A t \in Tasks : t # l.task => task'[t].decision = task[t].decision
        /\ task'[l.task].decision = l.decision
        /\ current' \in {current, l.task} /\ UNCHANGED <<token, runs>>
    BY <1>4, <1>8, <2>1 DEF WriteDecision, TaskView
  <2>3. RunsRemembered' /\ AtMostOneExecution'
    BY <1>1, <1>5, <2>1, <2>2, MemoryStep DEF RunsRemembered
  <2> QED
    BY <1>1, <2>2, <2>3, <1>0, SoundTail DEF ExecutionInv
<1>9. CASE WriteExecutionStarted
  <2>1. l.task \in Tasks /\ task[l.task].decision # "unknown" /\ ~task[l.task].started
    BY <1>2, <1>9, LineFields DEF LineSound, WriteExecutionStarted
  <2>2. Incarnation[l.task] = token
    BY <1>5, <2>1 DEF RunsRemembered
  <2>3. AtLeast(task[l.task].step, 1) # 0
    BY <2>1, TaskFields DEF AtLeast
  <2>4. /\ \A t \in Tasks : task'[t].decision = task[t].decision
        /\ \A t \in Tasks : t # l.task => task'[t] = task[t]
        /\ task'[l.task].started = TRUE /\ task'[l.task].step # 0
        /\ UNCHANGED <<token, current>>
    <3>1. task' = [task EXCEPT ![l.task].started = TRUE, ![l.task].step = AtLeast(@, 1)] /\ UNCHANGED <<token, current>>
      BY <1>9 DEF WriteExecutionStarted
    <3>2. task[l.task] \in TaskView
      BY <2>1, TaskFields
    <3>3. task'[l.task] = [task[l.task] EXCEPT !.started = TRUE, !.step = AtLeast(task[l.task].step, 1)]
      BY <1>4, <2>1, <3>1, <3>2
    <3>4. task'[l.task].decision = task[l.task].decision /\ task'[l.task].started = TRUE /\ task'[l.task].step # 0
      BY <2>3, <3>2, <3>3 DEF TaskView
    <3>5. \A t \in Tasks : t # l.task => task'[t] = task[t]
      BY <1>4, <2>1, <3>1
    <3> QED
      BY <3>1, <3>4, <3>5
  <2>5. runs'[l.task] = runs[l.task] + 1 /\ \A t \in Tasks : t # l.task => runs'[t] = runs[t]
    BY <1>4, <1>9, <2>1 DEF WriteExecutionStarted
  <2>6. RunsRemembered' /\ AtMostOneExecution'
    BY <1>1, <1>5, <2>1, <2>2, <2>4, <2>5, MemoryStep DEF RunsRemembered
  <2> QED
    BY <1>1, <2>4, <2>6, <1>0, SoundTail DEF ExecutionInv
<1>10. ASSUME \/ WriteStarted \/ WriteRequestRejection \/ WriteEvent \/ WriteConfirmed
              \/ WriteExecutionProgress \/ WriteExecutionCompleted \/ WriteReset
       PROVE  ExecutionInv'
  <2>1. UNCHANGED <<token, runs>> /\ current' \in {current, NoTask}
    BY <1>10 DEF WriteStarted, WriteRequestRejection, WriteEvent, WriteConfirmed,
                 WriteExecutionProgress, WriteExecutionCompleted, WriteReset
  <2>2. ASSUME NEW t \in Tasks
        PROVE  /\ task'[t].decision = task[t].decision
               /\ task'[t].started = task[t].started
               /\ task[t].step # 0 => task'[t].step # 0
    <3>1. CASE WriteStarted \/ WriteRequestRejection \/ WriteReset
      BY <3>1 DEF WriteStarted, WriteRequestRejection, WriteReset
    <3>2. CASE WriteEvent
      BY <1>4, <3>2 DEF WriteEvent, TaskView
    <3>3. CASE WriteConfirmed
      <4>1. CASE l.ref # 0
        BY <3>3, <4>1 DEF WriteConfirmed
      <4>2. CASE ~(l.ref # 0)
        <5>1. task' = [task EXCEPT ![l.task].confirmed = @ \cup {l.key}] /\ l.task \in Tasks
          BY <1>2, <3>3, <4>2, LineFields DEF WriteConfirmed
        <5> QED
          BY <1>4, <5>1 DEF TaskView
      <4> QED
        BY <4>1, <4>2
    <3>4. CASE WriteExecutionCompleted
      BY <1>4, <3>4 DEF WriteExecutionCompleted, TaskView
    <3>5. CASE WriteExecutionProgress
      <4>1. l.task \in Tasks /\ l.step \in 0 .. 2
        BY <1>2, <3>5, LineFields DEF WriteExecutionProgress
      <4>2. task[l.task].step # 0 => AtLeast(task[l.task].step, l.step) # 0
        BY <4>1, TaskFields DEF AtLeast
      <4>3. task' = [task EXCEPT ![l.task].step = AtLeast(@, l.step)] /\ task[l.task] \in TaskView
        BY <3>5, <4>1, TaskFields DEF WriteExecutionProgress
      <4>4. task'[l.task] = [task[l.task] EXCEPT !.step = AtLeast(task[l.task].step, l.step)]
        BY <1>4, <4>1, <4>3
      <4>5. /\ task'[l.task].decision = task[l.task].decision /\ task'[l.task].started = task[l.task].started
            /\ task'[l.task].step = AtLeast(task[l.task].step, l.step)
        BY <4>3, <4>4 DEF TaskView
      <4>6. t # l.task => task'[t] = task[t]
        BY <1>4, <4>1, <4>3
      <4> QED
        BY <4>2, <4>5, <4>6
    <3> QED
      BY <1>10, <3>1, <3>2, <3>3, <3>4, <3>5
  <2>3. RunsRemembered' /\ AtMostOneExecution'
    BY <1>1, <1>5, <2>1, <2>2, MemoryStep DEF RunsRemembered
  <2> QED
    BY <1>1, <2>1, <2>3, <1>0, SoundTail DEF ExecutionInv
<1> QED
  BY <1>6, <1>7, <1>8, <1>9, <1>10 DEF WriteLine

\* A batch that is left alone stays sound; so does one without restricted lines.
LEMMA SoundKept ==
  ASSUME ExecutionInv, UNCHANGED <<token, task, runs, minted, batch>>
  PROVE  BatchSound'
BY DEF ExecutionInv, BatchSound, LineSound

\* A batch of unrestricted lines is sound.
LEMMA SoundQuiet ==
  ASSUME TypeOK', \A i \in 1 .. Len(batch') : batch'[i].kind \notin Restricted
  PROVE  BatchSound'
BY QuietLine DEF BatchSound

\* Steps that change neither the view nor the executions.
LEMMA MemoryUntouched ==
  ASSUME TypeOK, TypeOK', ExecutionInv, UNCHANGED <<token, task, current, runs>>, minted' \in {minted, minted + 1}
  PROVE  RunsRemembered' /\ AtMostOneExecution'
<1>1. RunsRemembered
  BY DEF ExecutionInv
<1> QED
  BY <1>1, MemoryStep DEF RunsRemembered

\* The events and outcomes a task step reports are not restricted lines.
LEMMA ReportsAreQuiet ==
  ASSUME NEW t, NEW k, NEW r, NEW o, NEW s
  PROVE  /\ Report(t, k, r).kind \notin Restricted
         /\ LineCompleted(t, o).kind \notin Restricted
         /\ LineProgress(t, s).kind \notin Restricted
         /\ LineReset.kind \notin Restricted
         /\ LineStarted(s).kind \notin Restricted
BY DEF Report, LineEvent, LineCompleted, LineProgress, LineReset, LineStarted, Restricted

\* The start of the device keeps the invariant of the executions: provisioning takes a token no task of the old journal is for.
LEMMA ExecutionBoot ==
  ASSUME TypeOK, TypeOK', ExecutionInv, Boot
  PROVE  ExecutionInv'
<1>1. token \in Nat /\ minted \in Nat /\ \A t \in Tasks : Incarnation[t] \in Nat
  BY ConstantsAssumption DEF TypeOK
<1>2. RunsRemembered
  BY DEF ExecutionInv
<1>3. UNCHANGED <<token, task, current, runs>> /\ minted' \in {minted, minted + 1} /\ pc' # "down"
  BY DEF Boot, StartProvisioning, StartAgain, Recover, FinishBoot, EnterProcess, CloseInterrupted,
         ReportRejected, DecidePersisted, EndPass1, EndPass2, journalVars, worldVars
<1>4. RunsRemembered' /\ AtMostOneExecution'
  BY <1>3, MemoryUntouched
<1>5. BatchSound'
  <2>1. CASE StartProvisioning
    <3>1. batch' = << LineProvisioned(minted + 1), LineStarted(1) >> /\ token = 0 /\ minted' = minted + 1
      BY <2>1 DEF StartProvisioning
    <3>2. /\ Len(batch') = 2 /\ batch'[1].kind = "robot_provisioned" /\ batch'[1].token = minted'
          /\ batch'[2].kind = "robot_started"
      BY <3>1 DEF LineProvisioned, LineStarted
    <3>3. \A t \in Tasks : runs'[t] > 0 => Incarnation[t] # minted'
      BY <1>1, <1>2, <1>3, <3>1 DEF RunsRemembered
    <3>4. LineSound(batch[1], 1)'
      BY <1>3, <3>1, <3>2, <3>3 DEF LineSound
    <3>5. LineSound(batch[2], 2)'
      BY <3>2, QuietLine DEF Restricted
    <3> QED
      BY <3>2, <3>4, <3>5 DEF BatchSound
  <2>2. CASE StartAgain
    <3>1. batch' = << LineStarted(boot + 1) >>
      BY <2>2 DEF StartAgain
    <3> QED
      BY <3>1, ReportsAreQuiet, SoundQuiet
  <2>3. CASE Recover
    <3>1. ASSUME NEW t \in Tasks, CloseInterrupted(t) PROVE BatchSound'
      <4>1. batch' = << OutcomeAfterRestart(t) >> /\ task[t].completed \in {"no", "SUCCEEDED", "FAILED"}
            /\ task[t].started \in BOOLEAN
        BY <3>1 DEF CloseInterrupted, TypeOK, TaskView
      <4>2. OutcomeAfterRestart(t).kind \notin Restricted
        BY <4>1, ReportsAreQuiet DEF OutcomeAfterRestart
      <4> QED
        BY <4>1, <4>2, SoundQuiet
    <3>2. ASSUME NEW t \in Tasks, ReportRejected(t) PROVE BatchSound'
      BY <3>2, SoundQuiet DEF ReportRejected, LineEvent, Restricted
    <3>3. ASSUME NEW t \in Tasks, DecidePersisted(t) PROVE BatchSound'
      <4>1. batch' = DecideNewTask(t) /\ task[t].decision = "undecided"
        BY <3>3 DEF DecidePersisted
      <4>2. Incarnation[t] = token
        BY <1>2, <4>1 DEF RunsRemembered
      <4>3. /\ Len(batch') = 2 /\ batch'[1].kind = "task_decision" /\ batch'[1].task = t
            /\ batch'[2].kind = "task_event_persisted"
        BY <4>1, DecideNewTaskType
      <4>4. LineSound(batch[1], 1)' /\ LineSound(batch[2], 2)'
        BY <1>3, <4>2, <4>3 DEF LineSound
      <4> QED
        BY <4>3, <4>4 DEF BatchSound
    <3>4. ASSUME EndPass1 \/ EndPass2 PROVE BatchSound'
      <4>1. UNCHANGED <<batch, minted>>
        BY <2>3, <3>4 DEF EndPass1, EndPass2, Recover, worldVars
      <4> QED
        BY <1>3, <4>1, SoundKept
    <3> QED
      BY <2>3, <3>1, <3>2, <3>3, <3>4 DEF Recover
  <2>4. CASE FinishBoot
    BY <1>3, <2>4, SoundKept DEF FinishBoot, worldVars
  <2> QED
    BY <2>1, <2>2, <2>3, <2>4 DEF Boot
<1> QED
  BY <1>3, <1>4, <1>5 DEF ExecutionInv

\* Handling a request keeps the invariant of the executions: a new task is decided only for this incarnation.
LEMMA ExecutionReceive ==
  ASSUME TypeOK, TypeOK', ExecutionInv, NEW t \in Tasks, Receive(t)
  PROVE  ExecutionInv'
<1>1. UNCHANGED <<token, task, current, runs, minted, pc>> /\ pc # "down"
  BY DEF Receive, Listening, journalVars, worldVars
<1>2. RunsRemembered' /\ AtMostOneExecution'
  BY <1>1, MemoryUntouched
<1>3. BatchSound'
  <2>1. CASE ~ForThisIncarnation(t)
    <3>1. batch' = << LineEvent(t, MakeEvent("REJECTED", "none", 0)) >>
      BY <2>1 DEF Receive
    <3>2. Len(batch') = 1 /\ batch'[1].kind = "task_event_persisted"
      BY <3>1 DEF LineEvent
    <3> QED
      BY <3>2, SoundQuiet DEF Restricted
  <2>2. CASE ForThisIncarnation(t) /\ task[t].decision # "unknown"
    BY <1>1, <2>2, SoundKept DEF Receive
  <2>3. CASE ForThisIncarnation(t) /\ task[t].decision = "unknown"
    <3> DEFINE d == DecideNewTask(t)
    <3>1. batch' = << LineReceived(t) >> \o d /\ Incarnation[t] = token
      BY <2>3 DEF Receive, ForThisIncarnation
    <3>2. /\ d \in Seq(Lines) /\ Len(d) = 2 /\ d[1].kind = "task_decision" /\ d[1].task = t
          /\ d[2].kind = "task_event_persisted"
      BY DecideNewTaskType
    <3>3. << LineReceived(t) >> \in Seq(Lines) /\ Len(<< LineReceived(t) >>) = 1 /\ << LineReceived(t) >>[1] = LineReceived(t)
      BY LineTypes, OneLine
    <3>4. Len(batch') = 3 /\ batch'[1] = LineReceived(t) /\ batch'[2] = d[1] /\ batch'[3] = d[2]
      <4> DEFINE r == << LineReceived(t) >>
      <4>1. /\ r \in Seq(Lines) /\ d \in Seq(Lines) /\ batch' = r \o d
            /\ Len(r) = 1 /\ Len(d) = 2 /\ r[1] = LineReceived(t)
        BY <3>1, <3>2, <3>3
      <4> HIDE DEF d, r
      <4>2. /\ Len(r \o d) = Len(r) + Len(d)
            /\ \A i \in 1 .. Len(r) + Len(d) : (r \o d)[i] = IF i <= Len(r) THEN r[i] ELSE d[i - Len(r)]
        BY <4>1, ConcatProperties
      <4>3. Len(batch') = 3 /\ batch'[1] = r[1] /\ batch'[2] = d[1] /\ batch'[3] = d[2]
        BY <4>1, <4>2
      <4> QED
        BY <4>1, <4>3
    <3>5. LineReceived(t).kind = "request_received" /\ LineReceived(t).task = t
      BY DEF LineReceived
    <3>6. ASSUME NEW i \in 1 .. Len(batch') PROVE LineSound(batch[i], i)'
      <4>1. i \in {1, 2, 3}
        BY <3>4
      <4> HIDE DEF d
      <4>2. CASE i = 1
        BY <1>1, <2>3, <3>1, <3>4, <3>5, <4>2 DEF LineSound
      <4>3. CASE i = 2
        BY <1>1, <3>1, <3>2, <3>4, <4>3 DEF LineSound
      <4>4. CASE i = 3
        BY <3>2, <3>4, <4>4, QuietLine DEF LineSound
      <4> QED
        BY <4>1, <4>2, <4>3, <4>4
    <3> QED
      BY <3>6 DEF BatchSound
  <2> QED
    BY <2>1, <2>2, <2>3
<1> QED
  BY <1>1, <1>2, <1>3 DEF ExecutionInv

\* A step of the scripted execution keeps the invariant of the executions: it begins only what the journal does not show as begun.
LEMMA ExecutionStepStep ==
  ASSUME TypeOK, TypeOK', ExecutionInv, ExecutionStep
  PROVE  ExecutionInv'
<1>1. PICK t \in Tasks : \/ BeginExecution(t) \/ Collect(t) \/ GiveUp(t) \/ AskForHelp(t)
                         \/ CompleteExecution(t) \/ LeaveAfterAccept(t)
  BY DEF ExecutionStep
<1>2. UNCHANGED <<token, task, current, runs, minted>>
  BY DEF ExecutionStep, journalVars, worldVars
<1>3. pc' # "down"
  BY <1>1 DEF BeginExecution, Collect, GiveUp, AskForHelp, CompleteExecution, LeaveAfterAccept
<1>4. RunsRemembered' /\ AtMostOneExecution'
  BY <1>2, MemoryUntouched
<1>5. BatchSound'
  <2>1. CASE BeginExecution(t)
    <3>1. task[t].step = 0 /\ current = t /\ current # NoTask
      BY <2>1, ConstantsAssumption DEF BeginExecution, CanAdvance
    <3>2. task[t].decision # "unknown" /\ ~task[t].started
      BY <3>1 DEF ExecutionInv, RunsRemembered
    <3>3. LineBegun(t).kind = "execution_started" /\ LineBegun(t).task = t
      BY DEF LineBegun
    <3>4. CASE batch' = << LineBegun(t) >>
      <4>1. Len(batch') = 1 /\ batch'[1].kind = "execution_started" /\ batch'[1].task = t
        BY <3>3, <3>4
      <4> QED
        BY <1>2, <3>2, <4>1 DEF BatchSound, LineSound
    <3>5. CASE batch' = << LineBegun(t), Report(t, "PROGRESS", "none") >>
      <4>1. /\ Len(batch') = 2 /\ batch'[1].kind = "execution_started" /\ batch'[1].task = t
            /\ batch'[2].kind \notin Restricted
        BY <3>3, <3>5, ReportsAreQuiet
      <4>2. LineSound(batch[1], 1)' /\ LineSound(batch[2], 2)'
        BY <1>2, <3>2, <4>1, QuietLine DEF LineSound
      <4> QED
        BY <4>1, <4>2 DEF BatchSound
    <3> QED
      BY <2>1, <3>4, <3>5 DEF BeginExecution
  <2>2. CASE Collect(t)
    BY <2>2, ReportsAreQuiet, SoundQuiet DEF Collect
  <2>3. CASE GiveUp(t)
    BY <2>3, ReportsAreQuiet, SoundQuiet DEF GiveUp
  <2>4. CASE AskForHelp(t)
    BY <2>4, ReportsAreQuiet, SoundQuiet DEF AskForHelp
  <2>5. CASE CompleteExecution(t)
    BY <2>5, ReportsAreQuiet, SoundQuiet DEF CompleteExecution
  <2>6. CASE LeaveAfterAccept(t)
    BY <1>2, <2>6, SoundKept DEF LeaveAfterAccept
  <2> QED
    BY <1>1, <2>1, <2>2, <2>3, <2>4, <2>5, <2>6
<1> QED
  BY <1>3, <1>4, <1>5 DEF ExecutionInv

\* The steps of the process that write, publish or stop, and the loss of the journal.
LEMMA ExecutionOther ==
  ASSUME TypeOK, TypeOK', ExecutionInv,
         \/ SimulateReset \/ PublishPending \/ SendNext \/ HopOneConfirmed \/ HopOneTimeout
         \/ Leave \/ Crash \/ AckRequest \/ LoseJournal \/ UNCHANGED vars \/ \E t \in Tasks : Expire(t)
  PROVE  ExecutionInv'
<1>1. ASSUME UNCHANGED <<token, task, current, runs, minted>>,
             batch' = batch \/ \A i \in 1 .. Len(batch') : batch'[i].kind \notin Restricted,
             pc' = "down" => batch' = <<>>
      PROVE  ExecutionInv'
  <2>1. BatchSound'
    BY <1>1, SoundKept, SoundQuiet
  <2>2. RunsRemembered' /\ AtMostOneExecution'
    BY <1>1, MemoryUntouched
  <2> QED
    BY <1>1, <2>1, <2>2 DEF ExecutionInv
<1>2. CASE SimulateReset
  <2>1. \A i \in 1 .. Len(batch') : batch'[i].kind \notin Restricted
    <3>1. \A i \in 1 .. Len(Abandoned) : Abandoned[i].kind \notin Restricted
      BY ReportsAreQuiet DEF Abandoned
    <3>2. LineReset \in Lines /\ LineReset.kind \notin Restricted /\ Abandoned \in Seq(Lines)
          /\ batch' = Abandoned \o << LineReset >>
      BY <1>2, LineTypes, AbandonedType, ReportsAreQuiet DEF SimulateReset, ResetLines, Lines, LineReset
    <3> DEFINE a == Abandoned
               r == << LineReset >>
    <3>3. a \in Seq(Lines) /\ r \in Seq(Lines) /\ Len(r) = 1 /\ r[1].kind \notin Restricted /\ batch' = a \o r
      BY <3>2, OneLine
    <3>4. \A i \in 1 .. Len(a) : a[i].kind \notin Restricted
      BY <3>1
    <3> HIDE DEF a, r
    <3>5. Len(a) \in Nat /\ Len(a \o r) = Len(a) + Len(r)
          /\ \A i \in 1 .. Len(a) + Len(r) : (a \o r)[i] = IF i <= Len(a) THEN a[i] ELSE r[i - Len(a)]
      BY <3>3, ConcatProperties, LenProperties
    <3>6. ASSUME NEW i \in 1 .. Len(batch') PROVE batch'[i].kind \notin Restricted
      BY <3>3, <3>4, <3>5
    <3> QED
      BY <3>6
  <2> QED
    BY <1>1, <1>2, <2>1 DEF SimulateReset, journalVars, worldVars
<1>3. CASE PublishPending \/ SendNext
  BY <1>1, <1>3 DEF PublishPending, SendNext, journalVars, worldVars
<1>4. CASE HopOneConfirmed
  <2>1. \A i \in 1 .. Len(batch') : batch'[i].kind \notin Restricted
    <3>1. LineConfirmed(sending).kind \notin Restricted
      BY DEF LineConfirmed, Restricted
    <3> QED
      BY <1>4, <3>1 DEF HopOneConfirmed
  <2> QED
    BY <1>1, <1>4, <2>1 DEF HopOneConfirmed, EndWait, journalVars
<1>5. CASE HopOneTimeout
  BY <1>1, <1>5 DEF HopOneTimeout, EndWait, journalVars
<1>6. CASE Leave \/ Crash
  <2>1. StopProcess
    BY <1>6 DEF Leave, Crash
  <2>2. UNCHANGED <<token, task, current, runs, minted>> /\ batch' = <<>>
    BY <2>1 DEF StopProcess, journalVars
  <2>3. \A i \in 1 .. Len(batch') : batch'[i].kind \notin Restricted
    BY <2>2
  <2> QED
    BY <1>1, <2>2, <2>3
<1>7. CASE AckRequest \/ \E t \in Tasks : Expire(t)
  BY <1>1, <1>7 DEF AckRequest, Expire, ExecutionInv, journalVars, processVars
<1>8. CASE LoseJournal
  <2>1. batch = <<>>
    BY <1>8 DEF LoseJournal, ExecutionInv
  <2>2. /\ token' = 0 /\ task' = [t \in Tasks |-> UnknownTask] /\ current' = NoTask
        /\ UNCHANGED <<minted, runs, batch>>
    BY <1>8 DEF LoseJournal, processVars
  <2>3. \A t \in Tasks : task'[t].decision = "unknown" /\ task'[t].started = FALSE
    BY <2>2 DEF UnknownTask
  <2>4. \A t \in Tasks : Incarnation[t] \in Nat \ {0}
    BY ConstantsAssumption
  <2>5. RunsRemembered'
    BY <2>2, <2>3, <2>4 DEF ExecutionInv, RunsRemembered, TypeOK
  <2> QED
    BY <2>1, <2>2, <2>5 DEF ExecutionInv, BatchSound, AtMostOneExecution
<1>9. CASE UNCHANGED vars
  BY <1>1, <1>9 DEF vars, journalVars, processVars, worldVars, ExecutionInv
<1> QED
  BY <1>2, <1>3, <1>4, <1>5, <1>6, <1>7, <1>8, <1>9

\* The view and the lines in flight account for every execution of this incarnation.
THEOREM ExecutionInvariant == Spec => []ExecutionInv
<1>1. Init => ExecutionInv
  BY ConstantsAssumption DEF Init, ExecutionInv, BatchSound, RunsRemembered, AtMostOneExecution, UnknownTask
<1>2. TypeOK /\ TypeOK' /\ ExecutionInv /\ [Next]_vars => ExecutionInv'
  <2> SUFFICES ASSUME TypeOK, TypeOK', ExecutionInv, [Next]_vars PROVE ExecutionInv'
    OBVIOUS
  <2>1. CASE WriteLine
    BY <2>1, ExecutionWriteLine
  <2>2. CASE Boot
    BY <2>2, ExecutionBoot
  <2>3. CASE \E t \in Tasks : Receive(t)
    BY <2>3, ExecutionReceive
  <2>4. CASE ExecutionStep
    BY <2>4, ExecutionStepStep
  <2>5. CASE \/ SimulateReset \/ PublishPending \/ SendNext \/ HopOneConfirmed \/ HopOneTimeout
             \/ Leave \/ Crash \/ AckRequest \/ LoseJournal \/ UNCHANGED vars \/ \E t \in Tasks : Expire(t)
    BY <2>5, ExecutionOther
  <2> QED
    BY <2>1, <2>2, <2>3, <2>4, <2>5 DEF Next
<1> QED
  BY <1>1, <1>2, TypeCorrect, PTL DEF Spec

\* No task is executed twice, over any number of redeliveries, restarts, resets and
\* losses of the journal.
THEOREM AtMostOnce == Spec => []AtMostOneExecution
<1>1. ExecutionInv => AtMostOneExecution
  BY DEF ExecutionInv
<1> QED
  BY <1>1, ExecutionInvariant, PTL

-----------------------------------------------------------------------------
(* The inductive invariant: the view of each task (ViewInv), the lines on  *)
(* their way to the journal (LinesInv), the stages of a start (StageInv),  *)
(* and what is queued for the broker or owed to it (TrafficInv).           *)

\* A line that reports an event of a task, request-level rejections excluded.
ReportLine(l, t) == l.kind = "task_event_persisted" /\ l.task = t /\ l.event.seq # 0

\* A line behind which the report of the same task may stand.
LeadLine(l, t) ==
  /\ l.kind \in {"request_received", "task_decision", "execution_started", "execution_progress", "execution_completed"}
  /\ l.task = t

Reporting(t) == \E i \in 1 .. Len(batch) : ReportLine(batch[i], t)

Decided(t) == task[t].decision \in {"accepted", "rejected"}

Untouched(t) ==
  /\ task[t].events = <<>> /\ task[t].confirmed = {} /\ ~task[t].started
  /\ task[t].completed = "no" /\ task[t].terminal = "none" /\ task[t].step = 0

AcceptedHere(t) == \E e \in EventsOf(t) : e.kind = "ACCEPTED" /\ e.boot = boot

Answered(t) == Decided(t) /\ task[t].events # <<>>

RefusedOnRequest(t) == \E n \in 1 .. Len(rejections) : rejections[n].task = t

\* The fields of a task's view and the robot's condition agree.
FieldsAgree(t) ==
  /\ ~Decided(t) => Untouched(t)
  /\ task[t].started => Accepted(t)
  /\ task[t].step # 0 => task[t].started
  /\ task[t].completed = "SUCCEEDED" => task[t].started /\ task[t].step = 2
  /\ ~IsTerminal(t) <=> \A e \in EventsOf(t) : e.kind \notin TerminalKinds
  /\ task[t].completed = "SUCCEEDED" => ~Blocked(t)
  /\ Unfinished(t) <=> current = t
  /\ Unfinished(t) /\ cond.awaitingHuman => Blocked(t)

\* What one event of a task says is what the journal shows.
EventTrue(t, e) ==
  /\ e.boot <= boot
  /\ e.kind = "SUCCEEDED" => task[t].started /\ task[t].completed = "SUCCEEDED"
  /\ e.reason = "not_started_after_restart" => ~task[t].started /\ IsTerminal(t)
  /\ e.kind = "INCONCLUSIVE" => task[t].started /\ task[t].completed = "no"
  /\ e.kind = "REJECTED" => ~task[t].started /\ ~Accepted(t)

Linear(t) ==
  LET h == task[t].events IN
  \A i, j \in 1 .. Len(h) : i < j =>
    /\ \/ h[i].boot < h[j].boot
       \/ h[i].boot = h[j].boot /\ h[i].seq < h[j].seq
    /\ h[i].kind \notin TerminalKinds

\* What is confirmed was published, and nothing ran before its acceptance was out.
ConfirmedKnown(t) ==
  /\ \A k \in task[t].confirmed : \E e \in EventsOf(t) : Key(e) = k
  /\ \A e \in EventsOf(t) : e.kind = "ACCEPTED" /\ Key(e) \in task[t].confirmed => t \in announced
  /\ runs[t] > 0 => t \in announced

TaskSound(t) ==
  /\ FieldsAgree(t) /\ (\A e \in EventsOf(t) : EventTrue(t, e)) /\ Linear(t) /\ ConfirmedKnown(t)

OneUndecided == \A t, u \in Tasks : task[t].decision = "undecided" /\ task[u].decision = "undecided" => t = u

ViewInv == (\A t \in Tasks : TaskSound(t)) /\ OneUndecided

\* An event that follows everything the history of its task has.
Fresh(t, e) == e.boot = boot /\ e.seq # 0 /\ \A x \in EventsOf(t) : x.boot < boot \/ x.seq < e.seq

ReportSound(b, i) ==
  LET t == b[i].task
      e == b[i].event
  IN  /\ \A j \in 1 .. i - 1 : LeadLine(b[j], t)
      /\ Fresh(t, e) /\ ~IsTerminal(t)
      /\ e.kind \in {"ACCEPTED", "REJECTED"} =>
           /\ task[t].events = <<>>
           /\ ~task[t].started
           /\ IF i = 1 THEN task[t].decision = IF e.kind = "ACCEPTED" THEN "accepted" ELSE "rejected"
              ELSE /\ b[i - 1].kind = "task_decision"
                   /\ b[i - 1].decision = IF e.kind = "ACCEPTED" THEN "accepted" ELSE "rejected"
      /\ e.kind \notin {"ACCEPTED", "REJECTED"} =>
           /\ Accepted(t)
           /\ i # 1 => b[i - 1].kind \in {"execution_started", "execution_progress", "execution_completed"}
      /\ e.kind = "SUCCEEDED" =>
           /\ task[t].started /\ ~Blocked(t)
           /\ IF i = 1 THEN task[t].completed = "SUCCEEDED"
              ELSE b[i - 1].kind = "execution_completed" /\ b[i - 1].outcome = "SUCCEEDED"
      /\ e.reason = "not_started_after_restart" => i = 1 /\ ~task[t].started /\ e.kind \in TerminalKinds
      /\ e.kind = "INCONCLUSIVE" => i = 1 /\ task[t].started /\ task[t].completed = "no"
      /\ e.kind \in {"PROGRESS", "ASSISTANCE_REQUIRED"} => AcceptedHere(t)
      /\ e.kind = "ASSISTANCE_REQUIRED" => i = 1 /\ task[t].started /\ ~cond.awaitingHuman /\ task[t].completed # "SUCCEEDED"
      /\ e.kind \in {"FAILED", "INCONCLUSIVE"} => e.reason \notin {"unknown_fault", "energy_insufficient"}

DecisionSound(b, i) ==
  LET t == b[i].task
  IN  /\ IF i = 1 THEN task[t].decision = "undecided"
         ELSE i = 2 /\ b[1].kind = "request_received" /\ b[1].task = t
      /\ b[i].decision = "accepted" => current = NoTask /\ ~cond.awaitingHuman
      /\ i + 1 \in 1 .. Len(b) /\ ReportLine(b[i + 1], t)

LineTrue(b, i) ==
  LET l == b[i]
  IN  /\ l.kind = "robot_provisioned" => i = 1
      /\ l.kind = "robot_started" =>
           /\ pc = "pass1" /\ i = Len(b)
           /\ \A t \in Tasks : \A e \in EventsOf(t) : e.boot <= l.boot
           /\ \A j \in 1 .. i - 1 : b[j].kind = "robot_provisioned"
      /\ l.kind = "request_received" =>
           /\ i = 1 /\ task[l.task].decision = "unknown" /\ \A u \in Tasks : task[u].decision # "undecided"
           /\ \E j \in 1 .. Len(b) : ReportLine(b[j], l.task)
      /\ l.kind = "task_decision" => DecisionSound(b, i)
      /\ l.kind = "task_event_persisted" /\ l.event.seq # 0 => ReportSound(b, i)
      /\ l.kind = "task_event_persisted" /\ l.event.seq = 0 => i = 1
      /\ l.kind = "event_publish_confirmed" =>
           /\ i = 1
           /\ l.ref = 0 => \E e \in EventsOf(l.task) :
                             Key(e) = l.key /\ (e.kind = "ACCEPTED" => l.task \in announced)
      /\ l.kind = "execution_started" =>
           /\ i = 1 /\ Unfinished(l.task) /\ ~task[l.task].started /\ ~cond.awaitingHuman
           /\ AcceptedHere(l.task) /\ l.task \in announced
      /\ l.kind = "execution_progress" => i = 1 /\ task[l.task].started
      /\ l.kind = "execution_completed" =>
           /\ i = 1 /\ Unfinished(l.task)
           /\ l.outcome = "SUCCEEDED" => task[l.task].started /\ task[l.task].step = 2 /\ ~Blocked(l.task)
      /\ l.kind = "simulate_reset" =>
           /\ \A j \in 1 .. i - 1 : b[j].kind \in {"execution_completed", "task_event_persisted"}
           /\ \/ current = NoTask
              \/ i # 1 /\ ReportLine(b[i - 1], current) /\ b[i - 1].event.kind = "FAILED"

LinesInv == \A i \in 1 .. Len(batch) : LineTrue(batch, i)

\* How far the restart passes have brought the view.
StageInv ==
  /\ pc # "down" /\ pc # "pass1" =>
       \A t \in Tasks : Unfinished(t) => AcceptedHere(t) \/ (task[t].events = <<>> /\ Reporting(t))
  /\ pc \notin {"down", "pass1", "pass2"} => \A t \in Tasks : Decided(t) => Answered(t) \/ Reporting(t)
  /\ pc \notin {"down", "pass1", "pass2", "pass3"} =>
       \A t \in Tasks : task[t].decision = "undecided" => Reporting(t)

\* What waits for the broker is in the view, and every request acknowledged is answered.
TrafficInv ==
  /\ pc = "down" => batch = <<>> /\ replay = {} /\ out = {} /\ sending = NoPublication /\ handling = NoTask
  /\ \A p \in replay \cup out \cup {sending} : p.task # NoTask /\ p.ref = 0 => p.event \in EventsOf(p.task)
  /\ \A t \in acked : Answered(t) \/ RefusedOnRequest(t)
  /\ handling # NoTask =>
       \/ Answered(handling) \/ RefusedOnRequest(handling)
       \/ \E i \in 1 .. Len(batch) : batch[i].kind = "task_event_persisted" /\ batch[i].task = handling

RobotInv == ViewInv /\ LinesInv /\ StageInv /\ TrafficInv

-----------------------------------------------------------------------------
(* The view of one task.                                                   *)

\* The events of a task are events, one for each position of its history.
LEMMA EventsAreEvents ==
  ASSUME TypeOK, NEW t \in Tasks
  PROVE  /\ EventsOf(t) \subseteq Event
         /\ Len(task[t].events) \in Nat
         /\ \A i \in 1 .. Len(task[t].events) : task[t].events[i] \in EventsOf(t) /\ task[t].events[i] \in Event
         /\ task[t].events # <<>> <=> Len(task[t].events) >= 1
<1>1. task[t].events \in Seq(Event)
  BY TaskFields
<1> QED
  BY <1>1, ElementOfSeq, LenProperties, EmptySeq DEF EventsOf

\* A task without a history has no events.
LEMMA NoEvents ==
  ASSUME TypeOK, NEW t \in Tasks
  PROVE  task[t].events = <<>> <=> EventsOf(t) = {}
<1>1. task[t].events \in Seq(Event) /\ Len(task[t].events) \in Nat
  BY TaskFields, LenProperties
<1>2. CASE task[t].events = <<>>
  <2>1. Len(task[t].events) = 0
    BY <1>2
  <2> QED
    BY <1>2, <2>1 DEF EventsOf
<1>3. CASE task[t].events # <<>>
  <2>1. 1 \in 1 .. Len(task[t].events)
    BY <1>1, <1>3, EmptySeq
  <2> QED
    BY <1>3, <2>1 DEF EventsOf
<1> QED
  BY <1>2, <1>3

\* The next free sequence of this boot is above every sequence used in it, and never zero.
LEMMA NextSequenceIsFree ==
  ASSUME TypeOK, NEW t \in Tasks
  PROVE  /\ NextSequence(t) \in Nat \ {0}
         /\ \A x \in EventsOf(t) : x.boot = boot => x.seq < NextSequence(t)
<1> DEFINE h    == task[t].events
           used == {e.seq : e \in {x \in EventsOf(t) : x.boot = boot}}
<1>1. h \in Seq(Event) /\ Len(h) \in Nat /\ \A i \in 1 .. Len(h) : h[i] \in Event
  BY TaskFields, ElementOfSeq, LenProperties
<1>2. \A i \in 1 .. Len(h) : h[i].seq \in Nat
  BY <1>1 DEF Event
<1>3. PICK b \in Nat : \A i \in 1 .. Len(h) : h[i].seq <= b
  <2> DEFINE f == [i \in 1 .. Len(h) |-> h[i].seq]
  <2>1. f \in [1 .. Len(h) -> Nat]
    BY <1>2
  <2>2. \E b \in Nat : \A i \in 1 .. Len(h) : f[i] <= b
    <3> HIDE DEF f, h
    <3> QED
      BY <1>1, <2>1, BoundExists
  <2> QED
    BY <2>2
<1>4. used \subseteq Nat /\ \A n \in used : n <= b
  BY <1>2, <1>3 DEF EventsOf
<1>5. \A x \in EventsOf(t) : x.boot = boot => x.seq \in used
  OBVIOUS
<1>6. CASE used = {}
  <2>1. NextSequence(t) = 1
    BY <1>6 DEF NextSequence
  <2> HIDE DEF used
  <2> QED
    BY <1>5, <1>6, <2>1
<1>7. CASE used # {}
  <2> DEFINE top == CHOOSE n \in used : \A k \in used : k <= n
  <2>1. \E n \in used : \A k \in used : k <= n
    <3> HIDE DEF used
    <3> QED
      BY <1>4, <1>7, MaximumExists
  <2>2. top \in used /\ \A k \in used : k <= top
    <3> HIDE DEF used
    <3> QED
      BY <2>1
  <2>3. NextSequence(t) = 1 + top
    BY <1>7 DEF NextSequence
  <2>4. top \in Nat /\ 1 + top \in Nat \ {0} /\ \A k \in used : k < 1 + top
    <3> HIDE DEF used, top
    <3> QED
      BY <1>4, <2>2
  <2> HIDE DEF used, top
  <2> QED
    BY <1>5, <2>3, <2>4
<1> QED
  BY <1>6, <1>7

\* An event reported under the next free sequence follows the history of its task.
LEMMA ReportIsFresh ==
  ASSUME TypeOK, NEW t \in Tasks, \A x \in EventsOf(t) : x.boot <= boot, NEW k, NEW r
  PROVE  Fresh(t, MakeEvent(k, r, NextSequence(t)))
<1>1. boot \in Nat /\ NextSequence(t) \in Nat \ {0} /\ \A x \in EventsOf(t) : x.boot \in Nat
  BY NextSequenceIsFree, EventsAreEvents DEF TypeOK, Event
<1>2. \A x \in EventsOf(t) : x.boot < boot \/ x.seq < NextSequence(t)
  BY <1>1, NextSequenceIsFree
<1> QED
  BY <1>1, <1>2 DEF Fresh, MakeEvent

\* A step that leaves the view of a task alone, and changes nothing around it against the task.
LEMMA OtherTask ==
  ASSUME TypeOK, TypeOK', NEW u \in Tasks, TaskSound(u), task'[u] = task[u], boot <= boot',
         announced \subseteq announced', runs'[u] = runs[u], current' = u <=> current = u,
         Unfinished(u) /\ cond'.awaitingHuman => cond.awaitingHuman
  PROVE  TaskSound(u)'
<1>1. EventsOf(u)' = EventsOf(u) /\ IsTerminal(u)' = IsTerminal(u) /\ Accepted(u)' = Accepted(u)
      /\ Decided(u)' = Decided(u) /\ Untouched(u)' = Untouched(u)
  BY DEF EventsOf, IsTerminal, Accepted, Decided, Untouched
<1>2. Unfinished(u)' = Unfinished(u) /\ Blocked(u)' = Blocked(u)
  BY <1>1 DEF Unfinished, Blocked
<1>3. FieldsAgree(u)'
  BY <1>1, <1>2 DEF TaskSound, FieldsAgree
<1>4. \A e \in EventsOf(u) : EventTrue(u, e)'
  <2>1. boot \in Nat /\ boot' \in Nat /\ \A e \in EventsOf(u) : e.boot \in Nat
    BY EventsAreEvents DEF TypeOK, Event
  <2> QED
    BY <1>1, <2>1 DEF TaskSound, EventTrue
<1>5. Linear(u)'
  BY DEF TaskSound, Linear
<1>6. ConfirmedKnown(u)'
  BY <1>1 DEF TaskSound, ConfirmedKnown
<1> QED
  BY <1>1, <1>3, <1>4, <1>5, <1>6 DEF TaskSound

\* A step that leaves the journal alone keeps what the view says.
LEMMA ViewStays ==
  ASSUME TypeOK, TypeOK', ViewInv, UNCHANGED <<journalVars, runs>>, announced \subseteq announced'
  PROVE  ViewInv'
<1>1. UNCHANGED <<boot, task, cond, current, runs>>
  BY DEF journalVars
<1>2. ASSUME NEW u \in Tasks PROVE TaskSound(u)'
  <2>1. boot <= boot'
    BY <1>1 DEF TypeOK
  <2> QED
    BY <1>1, <2>1, OtherTask DEF ViewInv
<1>3. OneUndecided'
  BY <1>1 DEF ViewInv, OneUndecided
<1> QED
  BY <1>2, <1>3 DEF ViewInv

-----------------------------------------------------------------------------
(* The line that is written, and the lines behind it.                      *)

\* The line written next is the first of the batch, and it was right to plan it.
LEMMA HeadLine ==
  ASSUME TypeOK, LinesInv, WriteLine
  PROVE  /\ Line \in Lines /\ Line = batch[1] /\ LineTrue(batch, 1)
         /\ Len(batch) \in Nat /\ Len(batch) >= 1 /\ Len(batch') = Len(batch) - 1
         /\ batch' \in Seq(Lines)
         /\ \A i \in 1 .. Len(batch') :
              i + 1 \in 2 .. Len(batch) /\ batch'[i] = batch[i + 1] /\ LineTrue(batch, i + 1) /\ batch'[i] \in Lines
<1>1. batch # <<>> /\ batch' = Tail(batch) /\ batch \in Seq(Lines)
  BY DEF WriteLine, TypeOK
<1>2. /\ Line \in Lines /\ Line = batch[1] /\ batch' \in Seq(Lines)
      /\ Len(batch') = Len(batch) - 1 /\ Len(batch) \in Nat \ {0}
      /\ \A i \in 1 .. Len(batch') : i + 1 \in 2 .. Len(batch) /\ batch'[i] = batch[i + 1]
  BY <1>1, BatchTail
<1>3. LineTrue(batch, 1)
  BY <1>2 DEF LinesInv
<1>4. ASSUME NEW i \in 1 .. Len(batch') PROVE LineTrue(batch, i + 1) /\ batch'[i] \in Lines
  <2>1. i + 1 \in 1 .. Len(batch)
    BY <1>2
  <2>2. batch[i + 1] \in Lines
    BY <1>1, <2>1, ElementOfSeq
  <2> QED
    BY <1>2, <2>1, <2>2 DEF LinesInv
<1> QED
  BY <1>2, <1>3, <1>4

\* What may stand behind the line that is written.
LEMMA Followers ==
  ASSUME TypeOK, LinesInv, WriteLine, NEW i \in 1 .. Len(batch'), NEW l \in Lines, l = batch[i + 1]
  PROVE  /\ l.kind \in {"robot_started", "task_decision", "task_event_persisted", "simulate_reset"}
         /\ l.kind = "robot_started" => Line.kind = "robot_provisioned"
         /\ l.kind = "task_decision" => i = 1 /\ Line.kind = "request_received" /\ Line.task = l.task
         /\ l.kind = "task_event_persisted" => l.event.seq # 0 /\ LeadLine(Line, l.task)
         /\ l.kind = "simulate_reset" => Line.kind \in {"execution_completed", "task_event_persisted"}
<1>1. LineTrue(batch, i + 1) /\ i + 1 \in Nat /\ i + 1 # 1 /\ 1 \in 1 .. (i + 1) - 1 /\ Line = batch[1]
  BY HeadLine
<1>2. l.kind \notin {"robot_provisioned", "request_received", "event_publish_confirmed", "execution_started",
                     "execution_progress", "execution_completed"}
  BY <1>1 DEF LineTrue
<1>3. l.kind \in {"robot_started", "task_decision", "task_event_persisted", "simulate_reset"}
  BY <1>2 DEF Lines
<1>4. l.kind = "robot_started" => Line.kind = "robot_provisioned"
  BY <1>1 DEF LineTrue
<1>5. l.kind = "task_decision" => i = 1 /\ Line.kind = "request_received" /\ Line.task = l.task
  BY <1>1 DEF LineTrue, DecisionSound
<1>6. l.kind = "task_event_persisted" => l.event.seq # 0 /\ LeadLine(Line, l.task)
  BY <1>1 DEF LineTrue, ReportSound
<1>7. l.kind = "simulate_reset" => Line.kind \in {"execution_completed", "task_event_persisted"}
  BY <1>1 DEF LineTrue
<1> QED
  BY <1>3, <1>4, <1>5, <1>6, <1>7

\* A report that is still to be written is one after the first line was written.
LEMMA ReportingStays ==
  ASSUME TypeOK, LinesInv, WriteLine, NEW u, Reporting(u), ~ReportLine(Line, u)
  PROVE  Reporting(u)'
<1>1. PICK i \in 1 .. Len(batch) : ReportLine(batch[i], u)
  BY DEF Reporting
<1>2. Line = batch[1] /\ Len(batch) \in Nat /\ Len(batch') = Len(batch) - 1
      /\ \A j \in 1 .. Len(batch') : batch'[j] = batch[j + 1]
  BY HeadLine
<1>3. i # 1 /\ i - 1 \in 1 .. Len(batch') /\ (i - 1) + 1 = i
  BY <1>1, <1>2
<1>4. batch'[i - 1] = batch[i]
  BY <1>2, <1>3
<1>5. ReportLine(batch'[i - 1], u)
  BY <1>1, <1>4
<1> QED
  BY <1>3, <1>5 DEF Reporting, ReportLine

\* The decision in front, and the rest of the batch, as they are after the line before is written.
LEMMA DecisionMovesUp ==
  ASSUME TypeOK, LinesInv, WriteLine, NEW i \in 1 .. Len(batch'), batch[i + 1].kind = "task_decision",
         task'[batch[i + 1].task].decision = "undecided", current' = current, cond' = cond
  PROVE  DecisionSound(batch, i)'
<1>1. /\ Len(batch') = Len(batch) - 1 /\ Len(batch) \in Nat /\ batch'[i] = batch[i + 1] /\ batch[i + 1] \in Lines
      /\ \A j \in 1 .. Len(batch') : batch'[j] = batch[j + 1]
  BY HeadLine
<1>2. i = 1 /\ DecisionSound(batch, i + 1)
  BY <1>1, HeadLine, Followers DEF LineTrue
<1>3. i + 1 \in 1 .. Len(batch') /\ batch'[i + 1] = batch[(i + 1) + 1] /\ ReportLine(batch[(i + 1) + 1], batch[i + 1].task)
  BY <1>1, <1>2 DEF DecisionSound
<1> QED
  BY <1>1, <1>2, <1>3 DEF DecisionSound, ReportLine

\* What the write of a line in front of a report does to the task it is about.
LeadStep(t) ==
  /\ task'[t].events = task[t].events /\ task'[t].terminal = task[t].terminal
  /\ task'[t].started = task[t].started \/ (Line.kind = "execution_started" /\ task'[t].started)
  /\ \/ task'[t].decision = task[t].decision
     \/ Line.kind = "request_received" /\ task[t].decision = "unknown"
     \/ Line.kind = "task_decision" /\ task[t].decision = "undecided"
  /\ Line.kind = "request_received" => task'[t].decision = "undecided" /\ current' = current /\ cond' = cond
  /\ Line.kind = "task_decision" => task'[t].decision = Line.decision
  /\ Line.kind = "execution_completed" => task'[t].completed = Line.outcome /\ current' = current

\* A report stays sound when the line in front of the batch is written.
LEMMA ReportMovesUp ==
  ASSUME TypeOK, LinesInv, WriteLine, boot' = boot, NEW i \in 1 .. Len(batch'), NEW k \in Lines, k = batch[i + 1],
         k.kind = "task_event_persisted", LeadStep(k.task)
  PROVE  ReportSound(batch, i)'
<1>1. PICK t \in Tasks, e \in Event : t = k.task /\ e = k.event
  BY LineFields
<1>2. /\ Len(batch') = Len(batch) - 1 /\ Len(batch) \in Nat /\ batch'[i] = k /\ Line = batch[1]
      /\ \A j \in 1 .. Len(batch') : batch'[j] = batch[j + 1]
  BY HeadLine
<1>3. ReportSound(batch, i + 1) /\ LeadLine(Line, t)
  BY <1>1, HeadLine, Followers DEF LineTrue
<1>4. /\ \A j \in 1 .. i : LeadLine(batch[j], t)
      /\ Fresh(t, e) /\ ~IsTerminal(t)
  BY <1>1, <1>3 DEF ReportSound
<1>5. ASSUME NEW j \in 1 .. i - 1 PROVE LeadLine(batch'[j], t)
  <2>1. j + 1 \in 1 .. i /\ j \in 1 .. Len(batch')
    BY <1>2
  <2> QED
    BY <1>2, <1>4, <2>1
<1>6. EventsOf(t)' = EventsOf(t) /\ IsTerminal(t)' = IsTerminal(t)
  BY <1>1 DEF LeadStep, EventsOf, IsTerminal
<1>7. Fresh(t, e)' /\ ~IsTerminal(t)' /\ AcceptedHere(t)' = AcceptedHere(t) /\ Blocked(t)' = Blocked(t)
  BY <1>4, <1>6 DEF Fresh, AcceptedHere, Blocked
<1>8. i # 1 => i - 1 \in 1 .. Len(batch') /\ (i - 1) + 1 = i /\ batch'[i - 1] = batch[i]
  BY <1>2
<1>9. i \in 1 .. Len(batch) /\ i # i + 1 /\ (i + 1) - 1 = i /\ i + 1 # 1
  BY <1>2
<1>10. CASE e.kind \in {"ACCEPTED", "REJECTED"}
  <2>1. /\ task[t].events = <<>> /\ ~task[t].started /\ batch[i].kind = "task_decision"
        /\ batch[i].decision = IF e.kind = "ACCEPTED" THEN "accepted" ELSE "rejected"
    BY <1>1, <1>3, <1>9, <1>10 DEF ReportSound
  <2>2. Line.kind # "execution_started"
    <3>1. CASE i = 1
      BY <1>2, <2>1, <3>1
    <3>2. CASE i # 1
      <4>1. DecisionSound(batch, i)
        BY <1>9, <2>1 DEF LinesInv, LineTrue
      <4> QED
        BY <1>2, <3>2, <4>1 DEF DecisionSound
    <3> QED
      BY <3>1, <3>2
  <2>3. task'[t].events = <<>> /\ ~task'[t].started
    BY <1>1, <2>1, <2>2 DEF LeadStep
  <2>4. i = 1 => task'[t].decision = IF e.kind = "ACCEPTED" THEN "accepted" ELSE "rejected"
    BY <1>1, <1>2, <2>1 DEF LeadStep
  <2>5. i # 1 => /\ batch'[i - 1].kind = "task_decision"
                 /\ batch'[i - 1].decision = IF e.kind = "ACCEPTED" THEN "accepted" ELSE "rejected"
    BY <1>8, <2>1
  <2>6. e.reason # "not_started_after_restart"
    BY <1>1, <1>3, <1>9 DEF ReportSound
  <2> QED
    BY <1>1, <1>2, <1>5, <1>7, <1>10, <2>3, <2>4, <2>5, <2>6 DEF ReportSound
<1>11. CASE e.kind \notin {"ACCEPTED", "REJECTED"}
  <2>1. /\ Accepted(t)
        /\ batch[i].kind \in {"execution_started", "execution_progress", "execution_completed"}
        /\ e.kind = "SUCCEEDED" =>
             /\ task[t].started /\ ~Blocked(t)
             /\ batch[i].kind = "execution_completed" /\ batch[i].outcome = "SUCCEEDED"
        /\ e.kind = "PROGRESS" => AcceptedHere(t)
        /\ e.reason # "not_started_after_restart" /\ e.kind \notin {"INCONCLUSIVE", "ASSISTANCE_REQUIRED"}
        /\ e.kind = "FAILED" => e.reason \notin {"unknown_fault", "energy_insufficient"}
    BY <1>1, <1>3, <1>9, <1>11 DEF ReportSound
  <2>2. Accepted(t)'
    BY <1>1, <2>1 DEF LeadStep, Accepted
  <2>3. task[t].started => task'[t].started
    BY <1>1 DEF LeadStep
  <2>4. e.kind = "SUCCEEDED" /\ i = 1 => task'[t].completed = "SUCCEEDED"
    BY <1>1, <1>2, <2>1 DEF LeadStep
  <2> QED
    BY <1>1, <1>2, <1>5, <1>7, <1>8, <1>11, <2>1, <2>2, <2>3, <2>4 DEF ReportSound
<1> QED
  BY <1>10, <1>11

\* The lines behind the one written stay true.
LEMMA LinesMoveUp ==
  ASSUME TypeOK, LinesInv, WriteLine, boot' = boot,
         LeadLine(Line, Line.task) => LeadStep(Line.task),
         Line.kind = "task_event_persisted" =>
           current' \in {current, NoTask} /\ (ReportLine(Line, current) /\ Line.event.kind = "FAILED" => current' = NoTask)
  PROVE  LinesInv'
<1>1. SUFFICES ASSUME NEW i \in 1 .. Len(batch') PROVE LineTrue(batch, i)'
  BY DEF LinesInv
<1>2. PICK k \in Lines : k = batch'[i] /\ k = batch[i + 1]
  BY HeadLine
<1>3. /\ Len(batch') = Len(batch) - 1 /\ Len(batch) \in Nat /\ Line = batch[1] /\ LineTrue(batch, i + 1)
      /\ \A j \in 1 .. Len(batch') : batch'[j] = batch[j + 1]
  BY HeadLine
<1>4. k.kind \in {"robot_started", "task_decision", "task_event_persisted", "simulate_reset"}
  BY <1>2, Followers
<1>5. pc' = pc /\ (i # 1 => i - 1 \in 1 .. Len(batch') /\ batch'[i - 1] = batch[i])
  BY <1>3 DEF WriteLine
<1>6. CASE k.kind = "robot_started"
  <2>1. /\ pc = "pass1" /\ i + 1 = Len(batch)
        /\ \A t \in Tasks : \A e \in EventsOf(t) : e.boot <= k.boot
        /\ \A j \in 1 .. i : batch[j].kind = "robot_provisioned"
    BY <1>2, <1>3, <1>6 DEF LineTrue
  <2>4. task' = task
    <3>1. 1 \in 1 .. i /\ Line.kind = "robot_provisioned"
      BY <1>2, <1>3, <1>6, Followers
    <3> QED
      BY <3>1 DEF WriteLine, WriteProvisioned, WriteStarted, WriteReceived, WriteDecision, WriteRequestRejection, WriteEvent,
         WriteConfirmed, WriteExecutionStarted, WriteExecutionProgress, WriteExecutionCompleted, WriteReset
  <2>5. \A t \in Tasks : \A e \in EventsOf(t)' : e.boot <= k.boot
    BY <2>1, <2>4 DEF EventsOf
  <2>2. \A j \in 1 .. i - 1 : batch'[j].kind = "robot_provisioned"
    <3>1. \A j \in 1 .. i - 1 : j + 1 \in 1 .. i /\ j \in 1 .. Len(batch')
      BY <1>3
    <3> QED
      BY <1>3, <2>1, <3>1
  <2>3. i = Len(batch')
    BY <1>3, <2>1
  <2> QED
    BY <1>2, <1>5, <1>6, <2>1, <2>2, <2>3, <2>5 DEF LineTrue
<1>7. CASE k.kind = "task_decision"
  <2>1. Line.kind = "request_received" /\ Line.task = k.task
    BY <1>2, <1>7, Followers
  <2>2. task'[k.task].decision = "undecided" /\ current' = current /\ cond' = cond
    BY <2>1 DEF LeadLine, LeadStep
  <2>3. DecisionSound(batch, i)'
    BY <1>2, <1>7, <2>2, DecisionMovesUp
  <2> QED
    BY <1>2, <1>7, <2>3 DEF LineTrue
<1>8. CASE k.kind = "task_event_persisted"
  <2>1. k.event.seq # 0 /\ LeadLine(Line, k.task)
    BY <1>2, <1>8, Followers
  <2>2. ReportSound(batch, i)'
    BY <1>2, <1>8, <2>1, ReportMovesUp DEF LeadLine
  <2> QED
    BY <1>2, <1>8, <2>1, <2>2 DEF LineTrue
<1>9. CASE k.kind = "simulate_reset"
  <2>1. Line.kind \in {"execution_completed", "task_event_persisted"}
    BY <1>2, <1>9, Followers
  <2>2. /\ \A j \in 1 .. i : batch[j].kind \in {"execution_completed", "task_event_persisted"}
        /\ current = NoTask \/ (ReportLine(batch[i], current) /\ batch[i].event.kind = "FAILED")
    BY <1>2, <1>3, <1>9 DEF LineTrue
  <2>3. \A j \in 1 .. i - 1 : batch'[j].kind \in {"execution_completed", "task_event_persisted"}
    <3>1. \A j \in 1 .. i - 1 : j + 1 \in 1 .. i /\ j \in 1 .. Len(batch')
      BY <1>3
    <3> QED
      BY <1>3, <2>2, <3>1
  <2>4. \/ current' = NoTask
        \/ i # 1 /\ ReportLine(batch'[i - 1], current') /\ batch'[i - 1].event.kind = "FAILED"
    <3>1. CASE current = NoTask
      BY <2>1, <3>1 DEF LeadLine, LeadStep
    <3>2. CASE current # NoTask /\ i = 1
      <4>1. ReportLine(Line, current) /\ Line.event.kind = "FAILED"
        BY <1>3, <2>2, <3>2
      <4> QED
        BY <4>1 DEF ReportLine
    <3>3. CASE current # NoTask /\ i # 1
      <4>1. ReportLine(batch[i], current) /\ batch[i].event.kind = "FAILED" /\ batch[i] = batch'[i - 1]
        BY <1>5, <2>2, <3>3
      <4>2. current' \in {current, NoTask}
        BY <2>1 DEF LeadLine, LeadStep
      <4> QED
        BY <3>3, <4>1, <4>2
    <3> QED
      BY <3>1, <3>2, <3>3
  <2>5. ReportLine(batch[i - 1], current)' <=> ReportLine(batch'[i - 1], current')
    BY DEF ReportLine
  <2> QED
    BY <1>2, <1>9, <2>3, <2>4, <2>5 DEF LineTrue
<1> QED
  BY <1>4, <1>6, <1>7, <1>8, <1>9

-----------------------------------------------------------------------------
(* What each line changes.                                                 *)

\* The steps of a write that concern neither the task nor the process.
LEMMA WriteFrame ==
  ASSUME TypeOK, LinesInv, WriteLine
  PROVE  /\ pc' = pc /\ handling' = handling /\ replay' = replay /\ out' = out /\ sending' = sending
         /\ announced' = announced /\ acked' = acked /\ batch # <<>>
BY DEF WriteLine

\* Writing request_received makes the task a new one.
LEMMA ReceivedEffect ==
  ASSUME TypeOK, LinesInv, WriteLine, WriteReceived
  PROVE  /\ Line.task \in Tasks /\ Line.kind = "request_received"
         /\ task'[Line.task] = NewTask /\ \A u \in Tasks : u # Line.task => task'[u] = task[u]
         /\ UNCHANGED <<boot, cond, current, rejections, runs>>
<1>1. Line.task \in Tasks /\ Line.kind = "request_received" /\ task \in [Tasks -> TaskView]
  BY HeadLine, LineFields DEF WriteReceived, TypeOK
<1> QED
  BY <1>1 DEF WriteReceived

\* Writing task_decision sets the decision, and the current task if it is an acceptance.
LEMMA DecisionEffect ==
  ASSUME TypeOK, LinesInv, WriteLine, WriteDecision
  PROVE  /\ Line.task \in Tasks /\ Line.kind = "task_decision" /\ Line.decision \in {"accepted", "rejected"}
         /\ LET v == task'[Line.task] w == task[Line.task]
            IN  /\ v.decision = Line.decision /\ v.events = w.events /\ v.confirmed = w.confirmed /\ v.started = w.started
                /\ v.completed = w.completed /\ v.terminal = w.terminal /\ v.step = w.step
         /\ \A u \in Tasks : u # Line.task => task'[u] = task[u]
         /\ current' = IF Line.decision = "accepted" THEN Line.task ELSE current
         /\ cond'.awaitingHuman = cond.awaitingHuman
         /\ UNCHANGED <<boot, rejections, runs>>
<1>1. PICK t \in Tasks, d \in {"accepted", "rejected"}, r \in Reasons : t = Line.task /\ d = Line.decision /\ r = Line.reason
  BY HeadLine, LineFields DEF WriteDecision
<1>2. task \in [Tasks -> TaskView] /\ task[t] \in TaskView /\ cond \in Condition
  BY DEF TypeOK
<1>3. task' = [task EXCEPT ![t].decision = d, ![t].reason = r]
  BY <1>1 DEF WriteDecision
<1>4. task'[t] = [task[t] EXCEPT !.decision = d, !.reason = r] /\ \A u \in Tasks : u # t => task'[u] = task[u]
  BY <1>2, <1>3
<1>5. cond'.awaitingHuman = cond.awaitingHuman
  BY <1>2 DEF WriteDecision, Condition
<1>6. current' = IF d = "accepted" THEN t ELSE current
  BY <1>1 DEF WriteDecision
<1>7. /\ task'[t].decision = d /\ task'[t].events = task[t].events /\ task'[t].confirmed = task[t].confirmed
      /\ task'[t].started = task[t].started /\ task'[t].completed = task[t].completed
      /\ task'[t].terminal = task[t].terminal /\ task'[t].step = task[t].step
  BY <1>2, <1>4 DEF TaskView
<1> QED
  BY <1>1, <1>4, <1>5, <1>6, <1>7 DEF WriteDecision

\* Writing task_event_persisted appends to the history and derives the condition.
LEMMA EventEffect ==
  ASSUME TypeOK, LinesInv, WriteLine, WriteEvent
  PROVE  /\ Line.task \in Tasks /\ Line.kind = "task_event_persisted" /\ Line.event \in Event /\ Line.event.seq # 0
         /\ LET v == task'[Line.task] w == task[Line.task]
            IN  /\ v.events = Append(w.events, Line.event)
                /\ v.terminal = IF Line.event.kind \in TerminalKinds THEN Line.event.kind ELSE w.terminal
                /\ v.decision = w.decision /\ v.confirmed = w.confirmed /\ v.started = w.started
                /\ v.completed = w.completed /\ v.step = w.step
         /\ \A u \in Tasks : u # Line.task => task'[u] = task[u]
         /\ current' = IF Line.event.kind \in TerminalKinds /\ current = Line.task THEN NoTask ELSE current
         /\ cond' = ConditionAfter(cond, Line.event)
         /\ UNCHANGED <<boot, rejections, runs>>
<1>1. PICK t \in Tasks, e \in Event : t = Line.task /\ e = Line.event
  BY HeadLine, LineFields DEF WriteEvent
<1>2. task \in [Tasks -> TaskView] /\ task[t] \in TaskView
  BY DEF TypeOK
<1>3. PICK k : k = IF e.kind \in TerminalKinds THEN e.kind ELSE task[t].terminal
  OBVIOUS
<1>4. task' = [task EXCEPT ![t].events = Append(@, e), ![t].terminal = k]
  BY <1>1, <1>2, <1>3 DEF WriteEvent
<1>5. task'[t] = [task[t] EXCEPT !.events = Append(task[t].events, e), !.terminal = k]
      /\ \A u \in Tasks : u # t => task'[u] = task[u]
  BY <1>2, <1>4
<1>6. /\ task'[t].decision = task[t].decision /\ task'[t].events = Append(task[t].events, e) /\ task'[t].terminal = k
      /\ task'[t].started = task[t].started /\ task'[t].completed = task[t].completed
      /\ task'[t].confirmed = task[t].confirmed /\ task'[t].step = task[t].step
  BY <1>2, <1>5 DEF TaskView
<1>7. current' = (IF e.kind \in TerminalKinds /\ current = t THEN NoTask ELSE current) /\ cond' = ConditionAfter(cond, e)
  BY <1>1 DEF WriteEvent
<1> QED
  BY <1>1, <1>3, <1>5, <1>6, <1>7 DEF WriteEvent

\* Writing execution_started starts the task.
LEMMA StartEffect ==
  ASSUME TypeOK, LinesInv, WriteLine, WriteExecutionStarted
  PROVE  /\ Line.task \in Tasks /\ Line.kind = "execution_started"
         /\ LET v == task'[Line.task] w == task[Line.task]
            IN  /\ v.started = TRUE /\ v.events = w.events /\ v.confirmed = w.confirmed /\ v.decision = w.decision
                /\ v.completed = w.completed /\ v.terminal = w.terminal
         /\ \A u \in Tasks : u # Line.task => task'[u] = task[u] /\ runs'[u] = runs[u]
         /\ runs'[Line.task] = runs[Line.task] + 1
         /\ UNCHANGED <<boot, current, cond, rejections>>
<1>1. PICK t \in Tasks : t = Line.task
  BY HeadLine, LineFields DEF WriteExecutionStarted
<1>2. task \in [Tasks -> TaskView] /\ task[t] \in TaskView /\ runs \in [Tasks -> Nat]
  BY DEF TypeOK
<1>3. PICK n : n = AtLeast(task[t].step, 1)
  OBVIOUS
<1>4. task'[t] = [task[t] EXCEPT !.started = TRUE, !.step = n] /\ \A u \in Tasks : u # t => task'[u] = task[u]
  BY <1>1, <1>2, <1>3 DEF WriteExecutionStarted
<1>5. /\ task'[t].decision = task[t].decision /\ task'[t].events = task[t].events /\ task'[t].terminal = task[t].terminal
      /\ task'[t].started = TRUE /\ task'[t].completed = task[t].completed
      /\ task'[t].confirmed = task[t].confirmed
  BY <1>2, <1>4 DEF TaskView
<1>6. runs'[t] = runs[t] + 1 /\ \A u \in Tasks : u # t => runs'[u] = runs[u]
  BY <1>1, <1>2 DEF WriteExecutionStarted
<1> QED
  BY <1>1, <1>4, <1>5, <1>6 DEF WriteExecutionStarted

\* Writing execution_progress moves the step on.
LEMMA ProgressEffect ==
  ASSUME TypeOK, LinesInv, WriteLine, WriteExecutionProgress
  PROVE  /\ Line.task \in Tasks /\ Line.kind = "execution_progress"
         /\ LET v == task'[Line.task] w == task[Line.task]
            IN  /\ v.started = w.started /\ v.events = w.events /\ v.confirmed = w.confirmed /\ v.decision = w.decision
                /\ v.completed = w.completed /\ v.terminal = w.terminal /\ (w.step = 2 => v.step = 2)
         /\ \A u \in Tasks : u # Line.task => task'[u] = task[u]
         /\ UNCHANGED <<boot, current, cond, rejections, runs>>
<1>1. PICK t \in Tasks : t = Line.task /\ Line.step \in 0 .. 2
  BY HeadLine, LineFields DEF WriteExecutionProgress
<1>2. task \in [Tasks -> TaskView] /\ task[t] \in TaskView
  BY DEF TypeOK
<1>3. PICK n : n = AtLeast(task[t].step, Line.step)
  OBVIOUS
<1>4. task'[t] = [task[t] EXCEPT !.step = n] /\ \A u \in Tasks : u # t => task'[u] = task[u]
  BY <1>1, <1>2, <1>3 DEF WriteExecutionProgress
<1>5. /\ task'[t].decision = task[t].decision /\ task'[t].events = task[t].events /\ task'[t].terminal = task[t].terminal
      /\ task'[t].started = task[t].started /\ task'[t].completed = task[t].completed
      /\ task'[t].confirmed = task[t].confirmed /\ task'[t].step = n
  BY <1>2, <1>4 DEF TaskView
<1>6. task[t].step = 2 => n = 2
  BY <1>1, <1>3 DEF AtLeast
<1> QED
  BY <1>1, <1>4, <1>5, <1>6 DEF WriteExecutionProgress

\* Writing execution_completed records the outcome.
LEMMA CompletedEffect ==
  ASSUME TypeOK, LinesInv, WriteLine, WriteExecutionCompleted
  PROVE  /\ Line.task \in Tasks /\ Line.kind = "execution_completed" /\ Line.outcome \in {"SUCCEEDED", "FAILED"}
         /\ LET v == task'[Line.task] w == task[Line.task]
            IN  /\ v.started = w.started /\ v.events = w.events /\ v.confirmed = w.confirmed /\ v.decision = w.decision
                /\ v.completed = Line.outcome /\ v.terminal = w.terminal /\ v.step = w.step
         /\ \A u \in Tasks : u # Line.task => task'[u] = task[u]
         /\ UNCHANGED <<boot, current, cond, rejections, runs>>
<1>1. PICK t \in Tasks, o \in {"SUCCEEDED", "FAILED"} : t = Line.task /\ o = Line.outcome
  BY HeadLine, LineFields DEF WriteExecutionCompleted
<1>2. task \in [Tasks -> TaskView] /\ task[t] \in TaskView
  BY DEF TypeOK
<1>3. task'[t] = [task[t] EXCEPT !.completed = o] /\ \A u \in Tasks : u # t => task'[u] = task[u]
  BY <1>1, <1>2 DEF WriteExecutionCompleted
<1>4. /\ task'[t].decision = task[t].decision /\ task'[t].events = task[t].events /\ task'[t].terminal = task[t].terminal
      /\ task'[t].started = task[t].started /\ task'[t].completed = o
      /\ task'[t].confirmed = task[t].confirmed /\ task'[t].step = task[t].step
  BY <1>2, <1>3 DEF TaskView
<1> QED
  BY <1>1, <1>3, <1>4 DEF WriteExecutionCompleted

\* Writing event_publish_confirmed of a history event adds its key to the confirmed ones.
LEMMA ConfirmedEffect ==
  ASSUME TypeOK, LinesInv, WriteLine, WriteConfirmed, Line.ref = 0
  PROVE  /\ Line.task \in Tasks /\ Line.kind = "event_publish_confirmed"
         /\ LET v == task'[Line.task] w == task[Line.task]
            IN  /\ v.started = w.started /\ v.events = w.events /\ v.decision = w.decision
                /\ v.completed = w.completed /\ v.terminal = w.terminal /\ v.step = w.step
                /\ v.confirmed = w.confirmed \cup {Line.key}
         /\ \A u \in Tasks : u # Line.task => task'[u] = task[u]
         /\ UNCHANGED <<boot, current, cond, rejections, runs>>
<1>1. PICK t \in Tasks : t = Line.task
  BY HeadLine, LineFields DEF WriteConfirmed
<1>2. task \in [Tasks -> TaskView] /\ task[t] \in TaskView
  BY DEF TypeOK
<1>3. PICK c : c = task[t].confirmed \cup {Line.key}
  OBVIOUS
<1>4. task'[t] = [task[t] EXCEPT !.confirmed = c] /\ \A u \in Tasks : u # t => task'[u] = task[u]
  BY <1>1, <1>2, <1>3 DEF WriteConfirmed
<1>5. /\ task'[t].decision = task[t].decision /\ task'[t].events = task[t].events /\ task'[t].terminal = task[t].terminal
      /\ task'[t].started = task[t].started /\ task'[t].completed = task[t].completed
      /\ task'[t].confirmed = c /\ task'[t].step = task[t].step
  BY <1>2, <1>4 DEF TaskView
<1> QED
  BY <1>1, <1>3, <1>4, <1>5 DEF WriteConfirmed

-----------------------------------------------------------------------------
(* Stages and traffic when a line is written.                              *)

\* The stages of a start, when only the task of the line changes and that is accounted for.
LEMMA StageStep ==
  ASSUME TypeOK, LinesInv, StageInv, WriteLine, boot' = boot, NEW t \in Tasks, t = Line.task,
         \A u \in Tasks : u # t => task'[u] = task[u],
         pc # "down" /\ pc # "pass1" /\ Unfinished(t)' => AcceptedHere(t)' \/ (task'[t].events = <<>> /\ Reporting(t)'),
         pc \notin {"down", "pass1", "pass2"} /\ Decided(t)' => Answered(t)' \/ Reporting(t)',
         pc \notin {"down", "pass1", "pass2", "pass3"} /\ task'[t].decision = "undecided" => Reporting(t)'
  PROVE  StageInv'
<1>1. pc' = pc
  BY WriteFrame
<1>2. ASSUME NEW u \in Tasks, u # t
      PROVE  /\ Reporting(u) => Reporting(u)'
             /\ Unfinished(u)' = Unfinished(u) /\ AcceptedHere(u)' = AcceptedHere(u)
             /\ Decided(u)' = Decided(u) /\ Answered(u)' = Answered(u)
             /\ task'[u] = task[u]
  <2>1. ~ReportLine(Line, u)
    BY <1>2 DEF ReportLine
  <2>2. task'[u] = task[u]
    BY <1>2
  <2> QED
    BY <2>1, <2>2, ReportingStays DEF Unfinished, AcceptedHere, Decided, Answered, Accepted, IsTerminal, EventsOf
<1> QED
  BY <1>1, <1>2 DEF StageInv

\* The stages of a start, when the line changes no decision and no history.
LEMMA StageSame ==
  ASSUME TypeOK, LinesInv, StageInv, WriteLine, boot' = boot, \A u : ~ReportLine(Line, u),
         \A u \in Tasks : /\ task'[u].decision = task[u].decision /\ task'[u].events = task[u].events
                          /\ task'[u].terminal = task[u].terminal
  PROVE  StageInv'
<1>1. pc' = pc
  BY WriteFrame
<1>2. ASSUME NEW u \in Tasks
      PROVE  /\ Reporting(u) => Reporting(u)'
             /\ Unfinished(u)' = Unfinished(u) /\ AcceptedHere(u)' = AcceptedHere(u)
             /\ Decided(u)' = Decided(u) /\ Answered(u)' = Answered(u)
             /\ task'[u].events = task[u].events /\ task'[u].decision = task[u].decision
  <2>1. Reporting(u) => Reporting(u)'
    BY ReportingStays
  <2> QED
    BY <2>1 DEF Unfinished, AcceptedHere, Decided, Answered, Accepted, IsTerminal, EventsOf
<1> QED
  BY <1>1, <1>2 DEF StageInv

\* What is queued or owed stays so when a line is written that takes nothing back.
LEMMA TrafficStep ==
  ASSUME TypeOK, LinesInv, TrafficInv, WriteLine,
         \A u \in Tasks : /\ \A e \in EventsOf(u) : e \in EventsOf(u)'
                          /\ Answered(u) => Answered(u)'
                          /\ RefusedOnRequest(u) => RefusedOnRequest(u)'
                          /\ Line.kind = "task_event_persisted" /\ Line.task = u =>
                               Answered(u)' \/ RefusedOnRequest(u)'
  PROVE  TrafficInv'
<1>1. /\ pc' = pc /\ handling' = handling /\ replay' = replay /\ out' = out /\ sending' = sending
      /\ acked' = acked /\ batch # <<>>
  BY WriteFrame
<1>2. pc' # "down"
  BY <1>1 DEF TrafficInv
<1>3. \A p \in replay' \cup out' \cup {sending'} : p.task # NoTask /\ p.ref = 0 => p.event \in EventsOf(p.task)'
  <2>1. SUFFICES ASSUME NEW p \in replay \cup out \cup {sending}, p.task # NoTask, p.ref = 0
                 PROVE  p.event \in EventsOf(p.task)'
    BY <1>1
  <2>2. p.event \in EventsOf(p.task)
    BY <2>1 DEF TrafficInv
  <2>3. p.task \in Tasks
    <3>1. p \in Publications \/ p = NoPublication
      BY DEF TypeOK
    <3> QED
      BY <2>1, <3>1 DEF Publications, NoPublication, Publication
  <2> QED
    BY <2>2, <2>3
<1>4. \A u \in acked' : Answered(u)' \/ RefusedOnRequest(u)'
  BY <1>1 DEF TrafficInv, TypeOK
<1>5. ASSUME NEW h \in Tasks, h = handling
      PROVE  \/ Answered(h)' \/ RefusedOnRequest(h)'
             \/ \E i \in 1 .. Len(batch') : batch'[i].kind = "task_event_persisted" /\ batch'[i].task = h
  <2>1. CASE Answered(h) \/ RefusedOnRequest(h)
    BY <2>1
  <2>2. CASE ~(Answered(h) \/ RefusedOnRequest(h))
    <3>1. h # NoTask
      BY ConstantsAssumption
    <3>2. PICK i \in 1 .. Len(batch) : batch[i].kind = "task_event_persisted" /\ batch[i].task = h
      BY <1>5, <2>2, <3>1 DEF TrafficInv
    <3>3. Line = batch[1] /\ Len(batch) \in Nat /\ Len(batch') = Len(batch) - 1
          /\ \A j \in 1 .. Len(batch') : batch'[j] = batch[j + 1]
      BY HeadLine
    <3>4. CASE i = 1
      BY <3>2, <3>3, <3>4
    <3>5. CASE i # 1
      <4>1. i - 1 \in 1 .. Len(batch') /\ (i - 1) + 1 = i
        BY <3>3, <3>5
      <4>2. batch'[i - 1] = batch[i]
        BY <3>3, <4>1
      <4> QED
        BY <3>2, <4>1, <4>2
    <3> QED
      BY <3>4, <3>5
  <2> QED
    BY <2>1, <2>2
<1>6. handling \in Tasks \cup {NoTask}
  BY DEF TypeOK
<1>7. handling' # NoTask =>
       \/ Answered(handling)' \/ RefusedOnRequest(handling)'
       \/ \E i \in 1 .. Len(batch') : batch'[i].kind = "task_event_persisted" /\ batch'[i].task = handling'
  <2>1. SUFFICES ASSUME handling' # NoTask
                 PROVE  \/ Answered(handling)' \/ RefusedOnRequest(handling)'
                        \/ \E i \in 1 .. Len(batch') : batch'[i].kind = "task_event_persisted" /\ batch'[i].task = handling'
    OBVIOUS
  <2>2. PICK h \in Tasks : h = handling
    BY <1>1, <1>6, <2>1
  <2> QED
    BY <1>1, <1>5, <2>2 DEF Answered, RefusedOnRequest, Decided
<1> QED
  BY <1>2, <1>3, <1>4, <1>7 DEF TrafficInv

\* A line that changes no decision and no history leaves what is queued and owed.
LEMMA TrafficSame ==
  ASSUME TypeOK, LinesInv, TrafficInv, WriteLine, Line.kind # "task_event_persisted", rejections' = rejections,
         \A u \in Tasks : task'[u].decision = task[u].decision /\ task'[u].events = task[u].events
  PROVE  TrafficInv'
<1>1. \A u \in Tasks : EventsOf(u)' = EventsOf(u) /\ Answered(u)' = Answered(u) /\ RefusedOnRequest(u)' = RefusedOnRequest(u)
  BY DEF EventsOf, Answered, Decided, RefusedOnRequest
<1> QED
  BY <1>1, TrafficStep

-----------------------------------------------------------------------------
(* Writing one line keeps the invariant.                                   *)

\* The view when one task changes: that task is sound, the others are not concerned.
LEMMA ViewStep ==
  ASSUME TypeOK, TypeOK', ViewInv, NEW t \in Tasks, \A u \in Tasks : u # t => task'[u] = task[u],
         boot <= boot', announced \subseteq announced', \A u \in Tasks : u # t => runs'[u] = runs[u],
         \A u \in Tasks : u # t => (current' = u <=> current = u),
         \A u \in Tasks : u # t /\ Unfinished(u) /\ cond'.awaitingHuman => cond.awaitingHuman,
         TaskSound(t)',
         task'[t].decision = "undecided" => \A u \in Tasks : u # t => task[u].decision # "undecided"
  PROVE  ViewInv'
<1>1. ASSUME NEW u \in Tasks PROVE TaskSound(u)'
  <2>1. CASE u = t
    BY <2>1
  <2>2. CASE u # t
    <3>1. TaskSound(u)
      BY DEF ViewInv
    <3> QED
      BY <2>2, <3>1, OtherTask
  <2> QED
    BY <2>1, <2>2
<1>2. OneUndecided'
  BY DEF ViewInv, OneUndecided
<1> QED
  BY <1>1, <1>2 DEF ViewInv

\* A task nothing is known of yet, or that is not decided.
LEMMA UntouchedFacts ==
  ASSUME TypeOK, ViewInv, NEW t \in Tasks, ~Decided(t)
  PROVE  /\ Untouched(t) /\ EventsOf(t) = {} /\ ~IsTerminal(t) /\ ~Unfinished(t) /\ ~Answered(t)
         /\ (current # NoTask => current # t) /\ (runs[t] > 0 => t \in announced)
<1>1. TaskSound(t)
  BY DEF ViewInv
<1>2. Untouched(t)
  BY <1>1 DEF TaskSound, FieldsAgree
<1>3. EventsOf(t) = {}
  BY <1>2, NoEvents DEF Untouched
<1>4. ~Accepted(t)
  BY DEF Decided, Accepted
<1> QED
  BY <1>1, <1>2, <1>3, <1>4 DEF TaskSound, FieldsAgree, Untouched, Unfinished, IsTerminal, Answered, ConfirmedKnown

\* A received request is a task without a history.
LEMMA ReceivedKeepsView ==
  ASSUME TypeOK, TypeOK', RobotInv, WriteLine, WriteReceived
  PROVE  ViewInv' /\ \A u \in Tasks : u = Line.task => ~Decided(u) /\ ~Decided(u)' /\ task'[u].events = <<>>
<1>0. LinesInv /\ ViewInv
  BY DEF RobotInv
<1>1. PICK t \in Tasks : t = Line.task
  BY <1>0, ReceivedEffect
<1>2. /\ task'[t] = NewTask /\ \A u \in Tasks : u # t => task'[u] = task[u]
      /\ UNCHANGED <<boot, cond, current, runs>> /\ announced' = announced
  BY <1>0, <1>1, ReceivedEffect, WriteFrame
<1>3. task[t].decision = "unknown" /\ \A u \in Tasks : task[u].decision # "undecided"
  BY <1>0, <1>1, HeadLine, ReceivedEffect DEF LineTrue
<1>4. ~Decided(t) /\ Untouched(t) /\ ~Unfinished(t) /\ (current = t => FALSE) /\ (runs[t] > 0 => t \in announced)
  <2>1. ~Decided(t)
    BY <1>3 DEF Decided
  <2> QED
    BY <1>0, <2>1, UntouchedFacts, ConstantsAssumption DEF ViewInv
<1>5. /\ task'[t].decision = "undecided" /\ task'[t].events = <<>> /\ task'[t].confirmed = {} /\ ~task'[t].started
      /\ task'[t].completed = "no" /\ task'[t].terminal = "none" /\ task'[t].step = 0
  BY <1>2 DEF NewTask, UnknownTask
<1>6. ~Decided(t)' /\ Untouched(t)' /\ ~Accepted(t)' /\ ~IsTerminal(t)' /\ ~Unfinished(t)'
  BY <1>5 DEF Decided, Untouched, Accepted, IsTerminal, Unfinished
<1>7. EventsOf(t)' = {}
  BY <1>5 DEF EventsOf
<1>8. TaskSound(t)'
  <2>1. FieldsAgree(t)'
    BY <1>2, <1>4, <1>5, <1>6, <1>7 DEF FieldsAgree
  <2>2. Linear(t)'
    BY <1>5 DEF Linear
  <2>3. ConfirmedKnown(t)'
    BY <1>2, <1>4, <1>5, <1>7 DEF ConfirmedKnown
  <2> QED
    BY <1>7, <2>1, <2>2, <2>3 DEF TaskSound
<1>9. ViewInv'
  <2>1. boot <= boot'
    BY <1>2 DEF TypeOK
  <2> QED
    BY <1>0, <1>2, <1>3, <1>8, <2>1, ViewStep
<1> QED
  BY <1>1, <1>4, <1>5, <1>6, <1>9

\* A received request keeps the invariant.
LEMMA ReceivedKeeps ==
  ASSUME TypeOK, TypeOK', RobotInv, WriteLine, WriteReceived
  PROVE  RobotInv'
<1>0. LinesInv /\ ViewInv /\ StageInv /\ TrafficInv
  BY DEF RobotInv
<1>1. PICK t \in Tasks : t = Line.task
  BY <1>0, ReceivedEffect
<1>2. /\ task'[t] = NewTask /\ \A u \in Tasks : u # t => task'[u] = task[u]
      /\ UNCHANGED <<boot, cond, current, runs, rejections>> /\ Line.kind = "request_received"
  BY <1>0, <1>1, ReceivedEffect
<1>3. ViewInv' /\ ~Decided(t) /\ ~Decided(t)' /\ task'[t].events = <<>>
  BY <1>1, ReceivedKeepsView
<1>4. task[t].decision = "unknown" /\ \E j \in 1 .. Len(batch) : ReportLine(batch[j], t)
  BY <1>0, <1>1, <1>2, HeadLine DEF LineTrue
<1>5. Untouched(t) /\ EventsOf(t) = {} /\ ~Answered(t)
  BY <1>0, <1>3, UntouchedFacts
<1>6. /\ task'[t].decision = "undecided" /\ task'[t].terminal = "none" /\ ~task'[t].started
  BY <1>2 DEF NewTask, UnknownTask
<1>7. Reporting(t)'
  <2>1. Reporting(t) /\ ~ReportLine(Line, t)
    BY <1>2, <1>4 DEF Reporting, ReportLine
  <2> QED
    BY <1>0, <2>1, ReportingStays
<1>8. LinesInv'
  <2>0. task'[t].started = task[t].started
    <3>1. task[t].started \in BOOLEAN /\ task'[t].started = FALSE
      BY <1>2, TaskFields DEF TaskView, NewTask, UnknownTask
    <3> QED
      BY <1>5, <3>1 DEF Untouched
  <2>1. LeadStep(t)
    BY <1>2, <1>3, <1>4, <1>5, <1>6, <2>0 DEF LeadStep, Untouched
  <2> QED
    BY <1>0, <1>1, <1>2, <2>1, LinesMoveUp
<1>9. StageInv'
  <2>1. ~Unfinished(t)'
    BY <1>3 DEF Unfinished, Accepted, Decided
  <2> QED
    BY <1>0, <1>1, <1>2, <1>3, <1>7, <2>1, StageStep
<1>10. TrafficInv'
  <2>1. ASSUME NEW u \in Tasks
        PROVE  (\A e \in EventsOf(u) : e \in EventsOf(u)') /\ (Answered(u) => Answered(u)')
    <3>1. CASE u = t
      BY <1>5, <3>1
    <3>2. CASE u # t
      <4>1. task'[u] = task[u]
        BY <1>2, <3>2
      <4> QED
        BY <4>1 DEF EventsOf, Answered, Decided
    <3> QED
      BY <3>1, <3>2
  <2>2. \A u \in Tasks : RefusedOnRequest(u) => RefusedOnRequest(u)'
    BY <1>2 DEF RefusedOnRequest
  <2> QED
    BY <1>0, <1>2, <2>1, <2>2, TrafficStep
<1> QED
  BY <1>3, <1>8, <1>9, <1>10 DEF RobotInv

\* A decision of a task that has none yet keeps the view.
LEMMA DecisionKeepsView ==
  ASSUME TypeOK, TypeOK', RobotInv, WriteLine, WriteDecision
  PROVE  ViewInv'
<1>0. LinesInv /\ ViewInv
  BY DEF RobotInv
<1>1. PICK t \in Tasks, d \in {"accepted", "rejected"} : t = Line.task /\ d = Line.decision
  BY <1>0, DecisionEffect
<1>2. /\ task'[t].decision = d /\ task'[t].events = task[t].events /\ task'[t].confirmed = task[t].confirmed
      /\ task'[t].started = task[t].started /\ task'[t].completed = task[t].completed
      /\ task'[t].terminal = task[t].terminal /\ task'[t].step = task[t].step
      /\ \A u \in Tasks : u # t => task'[u] = task[u]
      /\ current' = IF d = "accepted" THEN t ELSE current
      /\ cond'.awaitingHuman = cond.awaitingHuman
      /\ UNCHANGED <<boot, runs>> /\ announced' = announced
  BY <1>0, <1>1, DecisionEffect, WriteFrame
<1>3. task[t].decision = "undecided" /\ (d = "accepted" => current = NoTask /\ ~cond.awaitingHuman)
  <2>1. DecisionSound(batch, 1) /\ Line = batch[1]
    BY <1>0, HeadLine, DecisionEffect DEF LineTrue
  <2> QED
    BY <1>1, <2>1 DEF DecisionSound
<1>4. ~Decided(t) /\ Untouched(t) /\ EventsOf(t) = {} /\ (current = t => FALSE) /\ (runs[t] > 0 => t \in announced)
  <2>1. ~Decided(t)
    BY <1>3 DEF Decided
  <2> QED
    BY <1>0, <2>1, UntouchedFacts, ConstantsAssumption
<1>5. EventsOf(t)' = {} /\ Decided(t)' /\ ~IsTerminal(t)'
  BY <1>2, <1>4 DEF EventsOf, Decided, IsTerminal, Untouched
<1>6. TaskSound(t)'
  <2>1. ~task'[t].started /\ task'[t].step = 0 /\ task'[t].completed = "no" /\ task'[t].confirmed = {} /\ task'[t].events = <<>>
    BY <1>2, <1>4 DEF Untouched
  <2>2. Unfinished(t)' <=> current' = t
    BY <1>2, <1>4, <1>5 DEF Unfinished, Accepted
  <2>3. FieldsAgree(t)'
    BY <1>2, <1>3, <1>5, <2>1, <2>2 DEF FieldsAgree, Unfinished, Accepted
  <2>4. Linear(t)'
    BY <2>1 DEF Linear
  <2>5. ConfirmedKnown(t)'
    BY <1>2, <1>4, <1>5, <2>1 DEF ConfirmedKnown
  <2> QED
    BY <1>5, <2>3, <2>4, <2>5 DEF TaskSound
<1>7. \A u \in Tasks : u # t => (current' = u <=> current = u)
  BY <1>2, <1>3, ConstantsAssumption
<1> QED
  <2>1. boot <= boot' /\ task'[t].decision # "undecided"
    BY <1>2 DEF TypeOK
  <2> QED
    BY <1>0, <1>2, <1>6, <1>7, <2>1, ViewStep

\* A decision keeps the invariant: its report is the next line.
LEMMA DecisionKeeps ==
  ASSUME TypeOK, TypeOK', RobotInv, WriteLine, WriteDecision
  PROVE  RobotInv'
<1>0. LinesInv /\ ViewInv /\ StageInv /\ TrafficInv
  BY DEF RobotInv
<1>1. PICK t \in Tasks, d \in {"accepted", "rejected"} : t = Line.task /\ d = Line.decision
  BY <1>0, DecisionEffect
<1>2. /\ task'[t].decision = d /\ task'[t].events = task[t].events
      /\ task'[t].started = task[t].started /\ task'[t].terminal = task[t].terminal
      /\ \A u \in Tasks : u # t => task'[u] = task[u]
      /\ UNCHANGED <<boot, runs, rejections>> /\ Line.kind = "task_decision"
  BY <1>0, <1>1, DecisionEffect
<1>3. DecisionSound(batch, 1) /\ Line = batch[1] /\ batch' \in Seq(Lines)
  BY <1>0, <1>2, HeadLine DEF LineTrue
<1>4. task[t].decision = "undecided" /\ 2 \in 1 .. Len(batch) /\ ReportLine(batch[2], t)
  BY <1>1, <1>3 DEF DecisionSound
<1>5. ~Decided(t) /\ Untouched(t) /\ EventsOf(t) = {} /\ ~Answered(t)
  <2>1. ~Decided(t)
    BY <1>4 DEF Decided
  <2> QED
    BY <1>0, <2>1, UntouchedFacts
<1>6. Reporting(t)'
  <2>1. Reporting(t) /\ ~ReportLine(Line, t)
    BY <1>2, <1>4 DEF Reporting, ReportLine
  <2> QED
    BY <1>0, <2>1, ReportingStays
<1>7. LinesInv'
  <2>1. LeadStep(t)
    BY <1>1, <1>2, <1>4 DEF LeadStep
  <2> QED
    BY <1>0, <1>1, <1>2, <2>1, LinesMoveUp
<1>8. StageInv'
  <2>1. task'[t].events = <<>> /\ task'[t].decision # "undecided"
    BY <1>2, <1>5 DEF Untouched
  <2> QED
    BY <1>0, <1>1, <1>2, <1>6, <2>1, StageStep
<1>9. TrafficInv'
  <2>1. ASSUME NEW u \in Tasks
        PROVE  (\A e \in EventsOf(u) : e \in EventsOf(u)') /\ (Answered(u) => Answered(u)')
    <3>1. CASE u = t
      BY <1>5, <3>1
    <3>2. CASE u # t
      <4>1. task'[u] = task[u]
        BY <1>2, <3>2
      <4> QED
        BY <4>1 DEF EventsOf, Answered, Decided
    <3> QED
      BY <3>1, <3>2
  <2>2. \A u \in Tasks : RefusedOnRequest(u) => RefusedOnRequest(u)'
    BY <1>2 DEF RefusedOnRequest
  <2> QED
    BY <1>0, <1>2, <2>1, <2>2, TrafficStep
<1> QED
  BY <1>7, <1>8, <1>9, DecisionKeepsView DEF RobotInv

\* A line that changes neither histories nor decisions, nor what the batch needs behind it.
LEMMA QuietWrite ==
  ASSUME TypeOK, TypeOK', RobotInv, WriteLine, boot' = boot, rejections' = rejections,
         Line.kind # "task_event_persisted", ViewInv', LinesInv',
         \A u \in Tasks : /\ task'[u].decision = task[u].decision /\ task'[u].events = task[u].events
                          /\ task'[u].terminal = task[u].terminal
  PROVE  RobotInv'
<1>1. StageInv'
  <2>1. \A u : ~ReportLine(Line, u)
    BY DEF ReportLine
  <2> QED
    BY <2>1, StageSame DEF RobotInv
<1>2. TrafficInv'
  BY TrafficSame DEF RobotInv
<1> QED
  BY <1>1, <1>2 DEF RobotInv

\* Equal fields, equal queries.
LEMMA SameQueries ==
  ASSUME NEW t, task'[t].events = task[t].events, task'[t].terminal = task[t].terminal,
         task'[t].decision = task[t].decision
  PROVE  /\ EventsOf(t)' = EventsOf(t) /\ IsTerminal(t)' = IsTerminal(t) /\ Accepted(t)' = Accepted(t)
         /\ Decided(t)' = Decided(t) /\ Unfinished(t)' = Unfinished(t) /\ Blocked(t)' = Blocked(t)
         /\ Linear(t)' = Linear(t)
BY DEF EventsOf, IsTerminal, Accepted, Decided, Unfinished, Blocked, Linear

\* The first start of an accepted task.
LEMMA StartKeeps ==
  ASSUME TypeOK, TypeOK', RobotInv, WriteLine, WriteExecutionStarted
  PROVE  RobotInv'
<1>0. LinesInv /\ ViewInv
  BY DEF RobotInv
<1>1. PICK t \in Tasks : t = Line.task
  BY <1>0, StartEffect
<1>2. /\ task'[t].started = TRUE /\ task'[t].events = task[t].events /\ task'[t].confirmed = task[t].confirmed
      /\ task'[t].decision = task[t].decision /\ task'[t].completed = task[t].completed
      /\ task'[t].terminal = task[t].terminal
      /\ \A u \in Tasks : u # t => task'[u] = task[u] /\ runs'[u] = runs[u]
      /\ UNCHANGED <<boot, current, cond, rejections>> /\ announced' = announced /\ Line.kind = "execution_started"
  BY <1>0, <1>1, StartEffect, WriteFrame
<1>3. Unfinished(t) /\ t \in announced /\ ~task[t].started
  BY <1>0, <1>1, <1>2, HeadLine DEF LineTrue
<1>4. /\ EventsOf(t)' = EventsOf(t) /\ IsTerminal(t)' = IsTerminal(t) /\ Accepted(t)' = Accepted(t)
      /\ Decided(t)' = Decided(t) /\ Unfinished(t)' = Unfinished(t) /\ Blocked(t)' = Blocked(t)
      /\ Linear(t)' = Linear(t)
  BY <1>2, SameQueries
<1>5. TaskSound(t) /\ Accepted(t) /\ ~IsTerminal(t) /\ Decided(t)
  BY <1>0, <1>3 DEF ViewInv, Unfinished, Accepted, Decided
<1>6. TaskSound(t)'
  <2>1. FieldsAgree(t)'
    BY <1>2, <1>3, <1>4, <1>5 DEF TaskSound, FieldsAgree
  <2>2. \A e \in EventsOf(t) : EventTrue(t, e)'
    BY <1>2, <1>4, <1>5 DEF TaskSound, FieldsAgree, EventTrue
  <2>3. ConfirmedKnown(t)'
    BY <1>2, <1>3, <1>4, <1>5 DEF TaskSound, ConfirmedKnown
  <2> QED
    BY <1>4, <1>5, <2>1, <2>2, <2>3 DEF TaskSound
<1>7. ViewInv'
  <2>1. boot <= boot' /\ task[t].decision # "undecided"
    BY <1>2, <1>5 DEF TypeOK, Accepted
  <2> QED
    BY <1>0, <1>2, <1>6, <2>1, ViewStep
<1>8. LinesInv'
  <2>1. LeadStep(t)
    BY <1>2 DEF LeadStep
  <2> QED
    BY <1>0, <1>1, <1>2, <2>1, LinesMoveUp
<1> QED
  BY <1>2, <1>7, <1>8, QuietWrite

\* The steps of a running execution.
LEMMA ProgressKeeps ==
  ASSUME TypeOK, TypeOK', RobotInv, WriteLine, WriteExecutionProgress
  PROVE  RobotInv'
<1>0. LinesInv /\ ViewInv
  BY DEF RobotInv
<1>1. PICK t \in Tasks : t = Line.task
  BY <1>0, ProgressEffect
<1>2. /\ task'[t].started = task[t].started /\ task'[t].events = task[t].events /\ task'[t].confirmed = task[t].confirmed
      /\ task'[t].decision = task[t].decision /\ task'[t].completed = task[t].completed
      /\ task'[t].terminal = task[t].terminal /\ (task[t].step = 2 => task'[t].step = 2)
      /\ \A u \in Tasks : u # t => task'[u] = task[u]
      /\ UNCHANGED <<boot, current, cond, rejections, runs>> /\ announced' = announced /\ Line.kind = "execution_progress"
  BY <1>0, <1>1, ProgressEffect, WriteFrame
<1>3. task[t].started
  BY <1>0, <1>1, <1>2, HeadLine DEF LineTrue
<1>4. /\ EventsOf(t)' = EventsOf(t) /\ IsTerminal(t)' = IsTerminal(t) /\ Accepted(t)' = Accepted(t)
      /\ Decided(t)' = Decided(t) /\ Unfinished(t)' = Unfinished(t) /\ Blocked(t)' = Blocked(t)
      /\ Linear(t)' = Linear(t)
  BY <1>2, SameQueries
<1>5. TaskSound(t) /\ Accepted(t) /\ Decided(t)
  <2>1. TaskSound(t)
    BY <1>0 DEF ViewInv
  <2>2. Accepted(t)
    BY <1>3, <2>1 DEF TaskSound, FieldsAgree
  <2> QED
    BY <2>1, <2>2 DEF Accepted, Decided
<1>6. TaskSound(t)'
  <2>1. FieldsAgree(t)'
    BY <1>2, <1>3, <1>4, <1>5 DEF TaskSound, FieldsAgree
  <2>2. \A e \in EventsOf(t) : EventTrue(t, e)'
    BY <1>2, <1>4, <1>5 DEF TaskSound, EventTrue
  <2>3. ConfirmedKnown(t)'
    BY <1>2, <1>4, <1>5 DEF TaskSound, ConfirmedKnown
  <2> QED
    BY <1>4, <1>5, <2>1, <2>2, <2>3 DEF TaskSound
<1>7. ViewInv'
  <2>1. boot <= boot' /\ task'[t].decision # "undecided"
    BY <1>2, <1>5 DEF TypeOK, Accepted
  <2> QED
    BY <1>0, <1>2, <1>6, <2>1, ViewStep
<1>8. LinesInv'
  <2>1. LeadStep(t)
    BY <1>2 DEF LeadStep
  <2> QED
    BY <1>0, <1>1, <1>2, <2>1, LinesMoveUp
<1> QED
  BY <1>2, <1>7, <1>8, QuietWrite

\* The end of an execution, before it is reported.
LEMMA CompletedKeeps ==
  ASSUME TypeOK, TypeOK', RobotInv, WriteLine, WriteExecutionCompleted
  PROVE  RobotInv'
<1>0. LinesInv /\ ViewInv
  BY DEF RobotInv
<1>1. PICK t \in Tasks : t = Line.task
  BY <1>0, CompletedEffect
<1>2. /\ task'[t].started = task[t].started /\ task'[t].events = task[t].events /\ task'[t].confirmed = task[t].confirmed
      /\ task'[t].decision = task[t].decision /\ task'[t].completed = Line.outcome
      /\ task'[t].terminal = task[t].terminal /\ task'[t].step = task[t].step
      /\ \A u \in Tasks : u # t => task'[u] = task[u]
      /\ UNCHANGED <<boot, current, cond, rejections, runs>> /\ announced' = announced /\ Line.kind = "execution_completed"
  BY <1>0, <1>1, CompletedEffect, WriteFrame
<1>3. Unfinished(t) /\ (Line.outcome = "SUCCEEDED" => task[t].started /\ task[t].step = 2 /\ ~Blocked(t))
  BY <1>0, <1>1, <1>2, HeadLine DEF LineTrue
<1>4. /\ EventsOf(t)' = EventsOf(t) /\ IsTerminal(t)' = IsTerminal(t) /\ Accepted(t)' = Accepted(t)
      /\ Decided(t)' = Decided(t) /\ Unfinished(t)' = Unfinished(t) /\ Blocked(t)' = Blocked(t)
      /\ Linear(t)' = Linear(t)
  BY <1>2, SameQueries
<1>5. TaskSound(t) /\ Accepted(t) /\ ~IsTerminal(t) /\ Decided(t)
  BY <1>0, <1>3 DEF ViewInv, Unfinished, Accepted, Decided
<1>6. TaskSound(t)'
  <2>1. FieldsAgree(t)'
    BY <1>2, <1>3, <1>4, <1>5 DEF TaskSound, FieldsAgree
  <2>2. \A e \in EventsOf(t) : EventTrue(t, e)'
    BY <1>2, <1>4, <1>5 DEF TaskSound, FieldsAgree, EventTrue, TerminalKinds
  <2>3. ConfirmedKnown(t)'
    BY <1>2, <1>4, <1>5 DEF TaskSound, ConfirmedKnown
  <2> QED
    BY <1>4, <1>5, <2>1, <2>2, <2>3 DEF TaskSound
<1>7. ViewInv'
  <2>1. boot <= boot' /\ task'[t].decision # "undecided"
    BY <1>2, <1>5 DEF TypeOK, Accepted
  <2> QED
    BY <1>0, <1>2, <1>6, <2>1, ViewStep
<1>8. LinesInv'
  <2>1. LeadStep(t)
    BY <1>2 DEF LeadStep
  <2> QED
    BY <1>0, <1>1, <1>2, <2>1, LinesMoveUp
<1> QED
  BY <1>2, <1>7, <1>8, QuietWrite

\* In a history in order no two events have one key.
LEMMA KeysAreUnique ==
  ASSUME TypeOK, NEW t \in Tasks, Linear(t), NEW x \in EventsOf(t), NEW y \in EventsOf(t), Key(x) = Key(y)
  PROVE  x = y
<1>1. PICK i \in 1 .. Len(task[t].events), j \in 1 .. Len(task[t].events) : x = task[t].events[i] /\ y = task[t].events[j]
  BY DEF EventsOf
<1>2. x.boot = y.boot /\ x.seq = y.seq /\ x.seq \in Nat /\ x.boot \in Nat
  BY EventsAreEvents DEF Key, Event
<1>3. i \in Nat /\ j \in Nat
  BY EventsAreEvents
<1>4. ~(i < j) /\ ~(j < i)
  BY <1>1, <1>2 DEF Linear
<1>5. i = j
  BY <1>3, <1>4
<1> QED
  BY <1>1, <1>5

\* The broker's confirmation of a publication.
LEMMA ConfirmedKeeps ==
  ASSUME TypeOK, TypeOK', RobotInv, WriteLine, WriteConfirmed
  PROVE  RobotInv'
<1>0. LinesInv /\ ViewInv
  BY DEF RobotInv
<1>1. Line.kind = "event_publish_confirmed"
  BY DEF WriteConfirmed
<1>2. LinesInv'
  BY <1>0, <1>1, LinesMoveUp DEF LeadLine, WriteConfirmed
<1>3. CASE Line.ref # 0
  <2>1. UNCHANGED <<task, boot, current, cond, runs, rejections>> /\ announced' = announced
    BY <1>0, <1>3, WriteFrame DEF WriteConfirmed
  <2>2. ViewInv'
    <3>1. ASSUME NEW u \in Tasks PROVE TaskSound(u)'
      <4>1. TaskSound(u) /\ boot <= boot'
        BY <1>0, <2>1 DEF ViewInv, TypeOK
      <4> QED
        BY <2>1, <4>1, OtherTask
    <3> QED
      BY <1>0, <2>1, <3>1 DEF ViewInv, OneUndecided
  <2> QED
    BY <1>1, <1>2, <2>1, <2>2, QuietWrite
<1>4. CASE Line.ref = 0
  <2>1. PICK t \in Tasks : t = Line.task
    BY <1>0, <1>4, ConfirmedEffect
  <2>2. /\ task'[t].started = task[t].started /\ task'[t].events = task[t].events
        /\ task'[t].decision = task[t].decision /\ task'[t].completed = task[t].completed
        /\ task'[t].terminal = task[t].terminal /\ task'[t].step = task[t].step
        /\ task'[t].confirmed = task[t].confirmed \cup {Line.key}
        /\ \A u \in Tasks : u # t => task'[u] = task[u]
        /\ UNCHANGED <<boot, current, cond, rejections, runs>> /\ announced' = announced
    BY <1>0, <1>4, <2>1, ConfirmedEffect, WriteFrame
  <2>3. PICK x \in EventsOf(t) : Key(x) = Line.key /\ (x.kind = "ACCEPTED" => t \in announced)
    BY <1>0, <1>1, <1>4, <2>1, HeadLine DEF LineTrue
  <2>4. /\ EventsOf(t)' = EventsOf(t) /\ IsTerminal(t)' = IsTerminal(t) /\ Accepted(t)' = Accepted(t)
        /\ Decided(t)' = Decided(t) /\ Unfinished(t)' = Unfinished(t) /\ Blocked(t)' = Blocked(t)
        /\ Linear(t)' = Linear(t)
    BY <2>2, SameQueries
  <2>5. TaskSound(t) /\ Linear(t)
    BY <1>0 DEF ViewInv, TaskSound
  <2>6. Decided(t)
    <3>1. EventsOf(t) # {}
      BY <2>3
    <3> QED
      BY <1>0, <3>1, UntouchedFacts
  <2>7. TaskSound(t)'
    <3>1. FieldsAgree(t)'
      BY <2>2, <2>4, <2>5, <2>6 DEF TaskSound, FieldsAgree
    <3>2. \A e \in EventsOf(t) : EventTrue(t, e)'
      BY <2>2, <2>4, <2>5 DEF TaskSound, EventTrue
    <3>3. ConfirmedKnown(t)'
      <4>1. ASSUME NEW e \in EventsOf(t), e.kind = "ACCEPTED", Key(e) \in task'[t].confirmed
            PROVE  t \in announced
        <5>1. CASE Key(e) \in task[t].confirmed
          BY <2>5, <4>1, <5>1 DEF TaskSound, ConfirmedKnown
        <5>2. CASE Key(e) = Line.key
          <6>1. e = x
            BY <2>3, <2>5, <5>2, KeysAreUnique
          <6> QED
            BY <2>3, <4>1, <6>1
        <5> QED
          BY <2>2, <4>1, <5>1, <5>2
      <4>2. \A k \in task'[t].confirmed : \E e \in EventsOf(t) : Key(e) = k
        BY <2>2, <2>3, <2>5 DEF TaskSound, ConfirmedKnown
      <4>3. \A e : Key(e)' = Key(e)
        BY DEF Key
      <4> QED
        BY <2>2, <2>4, <2>5, <4>1, <4>2, <4>3 DEF TaskSound, ConfirmedKnown
    <3> QED
      BY <2>4, <2>5, <3>1, <3>2, <3>3 DEF TaskSound
  <2>8. ViewInv'
    <3>1. boot <= boot' /\ task'[t].decision # "undecided"
      BY <2>2, <2>6 DEF TypeOK, Decided
    <3> QED
      BY <1>0, <2>2, <2>7, <3>1, ViewStep
  <2>9. \A u \in Tasks : /\ task'[u].decision = task[u].decision /\ task'[u].events = task[u].events
                         /\ task'[u].terminal = task[u].terminal
    BY <2>2
  <2> QED
    BY <1>1, <1>2, <2>2, <2>8, <2>9, QuietWrite
<1> QED
  BY <1>3, <1>4

\* The operator's reset, behind the report of the task it abandons.
LEMMA ResetKeeps ==
  ASSUME TypeOK, TypeOK', RobotInv, WriteLine, WriteReset
  PROVE  RobotInv'
<1>0. LinesInv /\ ViewInv
  BY DEF RobotInv
<1>1. Line.kind = "simulate_reset" /\ current' = NoTask /\ cond' = ClearCondition /\ announced' = announced
      /\ UNCHANGED <<task, boot, rejections, runs>>
  BY <1>0, WriteFrame DEF WriteReset
<1>2. current = NoTask
  BY <1>0, <1>1, HeadLine DEF LineTrue
<1>3. ~cond'.awaitingHuman
  BY <1>1 DEF ClearCondition
<1>4. ViewInv'
  <2>1. ASSUME NEW u \in Tasks PROVE TaskSound(u)'
    <3>1. TaskSound(u) /\ boot <= boot'
      BY <1>0, <1>1 DEF ViewInv, TypeOK
    <3> QED
      BY <1>1, <1>2, <1>3, <3>1, OtherTask
  <2> QED
    BY <1>0, <1>1, <2>1 DEF ViewInv, OneUndecided
<1>5. LinesInv'
  BY <1>0, <1>1, LinesMoveUp DEF LeadLine
<1> QED
  BY <1>1, <1>4, <1>5, QuietWrite

\* The provisioning of the identity, the rejection of a foreign request, and the boot line.
LEMMA ProvisionedKeeps ==
  ASSUME TypeOK, TypeOK', RobotInv, WriteLine, WriteProvisioned
  PROVE  RobotInv'
<1>0. LinesInv /\ ViewInv
  BY DEF RobotInv
<1>1. Line.kind = "robot_provisioned" /\ announced' = announced
      /\ UNCHANGED <<task, boot, current, cond, rejections, runs>>
  BY <1>0, WriteFrame DEF WriteProvisioned
<1>2. ViewInv'
  <2>1. ASSUME NEW u \in Tasks PROVE TaskSound(u)'
    <3>1. TaskSound(u) /\ boot <= boot'
      BY <1>0, <1>1 DEF ViewInv, TypeOK
    <3> QED
      BY <1>1, <3>1, OtherTask
  <2> QED
    BY <1>0, <1>1, <2>1 DEF ViewInv, OneUndecided
<1>3. LinesInv'
  BY <1>0, <1>1, LinesMoveUp DEF LeadLine
<1> QED
  BY <1>1, <1>2, <1>3, QuietWrite

\* A new boot: nothing of an earlier one is in flight any more.
LEMMA StartedKeeps ==
  ASSUME TypeOK, TypeOK', RobotInv, WriteLine, WriteStarted
  PROVE  RobotInv'
<1>0. LinesInv /\ ViewInv /\ StageInv /\ TrafficInv
  BY DEF RobotInv
<1>1. Line.kind = "robot_started" /\ announced' = announced /\ boot' = Line.boot
      /\ UNCHANGED <<task, current, cond, rejections, runs>>
  BY <1>0, WriteFrame DEF WriteStarted
<1>2. pc = "pass1" /\ Len(batch) = 1 /\ \A t \in Tasks : \A e \in EventsOf(t) : e.boot <= Line.boot
  BY <1>0, <1>1, HeadLine DEF LineTrue
<1>3. ViewInv'
  <2>1. ASSUME NEW u \in Tasks PROVE TaskSound(u)'
    <3>1. TaskSound(u) /\ \A e \in EventsOf(u) : e.boot <= boot'
      BY <1>0, <1>1, <1>2 DEF ViewInv
    <3>2. /\ EventsOf(u)' = EventsOf(u) /\ IsTerminal(u)' = IsTerminal(u) /\ Accepted(u)' = Accepted(u)
          /\ Decided(u)' = Decided(u) /\ Unfinished(u)' = Unfinished(u) /\ Blocked(u)' = Blocked(u)
          /\ Linear(u)' = Linear(u)
      BY <1>1, SameQueries
    <3>3. FieldsAgree(u)' /\ ConfirmedKnown(u)'
      BY <1>1, <3>1, <3>2 DEF TaskSound, FieldsAgree, Untouched, ConfirmedKnown
    <3>4. \A e \in EventsOf(u) : EventTrue(u, e)'
      BY <1>1, <3>1, <3>2 DEF TaskSound, EventTrue
    <3> QED
      BY <3>1, <3>2, <3>3, <3>4 DEF TaskSound
  <2> QED
    BY <1>0, <1>1, <2>1 DEF ViewInv, OneUndecided
<1>4. LinesInv'
  <2>1. Len(batch') = 0
    BY <1>0, <1>2, HeadLine
  <2> QED
    BY <2>1 DEF LinesInv
<1>5. StageInv'
  BY <1>0, <1>2, WriteFrame DEF StageInv
<1>6. TrafficInv'
  BY <1>0, <1>1, TrafficSame
<1> QED
  BY <1>3, <1>4, <1>5, <1>6 DEF RobotInv

\* The rejection of a request that names another incarnation.
LEMMA RequestRejectionKeeps ==
  ASSUME TypeOK, TypeOK', RobotInv, WriteLine, WriteRequestRejection
  PROVE  RobotInv'
<1>0. LinesInv /\ ViewInv /\ StageInv /\ TrafficInv
  BY DEF RobotInv
<1>1. PICK t \in Tasks : t = Line.task
  BY <1>0, HeadLine, LineFields DEF WriteRequestRejection
<1>2. Line.kind = "task_event_persisted" /\ Line.event.seq = 0 /\ announced' = announced
      /\ rejections' = Append(rejections, [task |-> Line.task, event |-> Line.event])
      /\ UNCHANGED <<task, boot, current, cond, runs>>
  BY <1>0, WriteFrame DEF WriteRequestRejection
<1>3. ViewInv'
  <2>1. ASSUME NEW u \in Tasks PROVE TaskSound(u)'
    <3>1. TaskSound(u) /\ boot <= boot'
      BY <1>0, <1>2 DEF ViewInv, TypeOK
    <3> QED
      BY <1>2, <3>1, OtherTask
  <2> QED
    BY <1>0, <1>2, <2>1 DEF ViewInv, OneUndecided
<1>4. \A u : ~ReportLine(Line, u)
  BY <1>2 DEF ReportLine
<1>5. LinesInv'
  BY <1>0, <1>2, <1>4, LinesMoveUp DEF LeadLine
<1>6. StageInv'
  BY <1>0, <1>2, <1>4, StageSame
<1>7. (\A u \in Tasks : RefusedOnRequest(u) => RefusedOnRequest(u)') /\ RefusedOnRequest(t)'
  <2>1. PICK r \in [task : Tasks, event : Event] : r = [task |-> Line.task, event |-> Line.event]
    <3>1. Line.event \in Event
      BY <1>0, <1>2, HeadLine, LineFields
    <3> QED
      BY <1>1, <3>1
  <2>2. rejections \in Seq([task : Tasks, event : Event]) /\ Len(rejections) \in Nat
    BY LenProperties DEF TypeOK
  <2>3. /\ Len(rejections') = Len(rejections) + 1 /\ rejections'[Len(rejections) + 1] = r
        /\ \A n \in 1 .. Len(rejections) : rejections'[n] = rejections[n]
    BY <1>2, <2>1, <2>2, AppendProperties
  <2>4. Len(rejections) + 1 \in 1 .. Len(rejections') /\ r.task = t
    BY <1>1, <2>1, <2>2, <2>3
  <2>5. \A n \in 1 .. Len(rejections) : n \in 1 .. Len(rejections')
    BY <2>2, <2>3
  <2> QED
    BY <2>3, <2>4, <2>5 DEF RefusedOnRequest
<1>8. TrafficInv'
  <2>1. \A u \in Tasks : EventsOf(u)' = EventsOf(u) /\ Answered(u)' = Answered(u)
    BY <1>2 DEF EventsOf, Answered, Decided
  <2> QED
    BY <1>0, <1>1, <1>7, <2>1, TrafficStep
<1> QED
  BY <1>3, <1>5, <1>6, <1>8 DEF RobotInv

\* The history of a task with one more event.
LEMMA HistoryGrows ==
  ASSUME TypeOK, NEW t \in Tasks, NEW e \in Event, task'[t].events = Append(task[t].events, e)
  PROVE  /\ EventsOf(t)' = EventsOf(t) \cup {e}
         /\ task'[t].events # <<>>
         /\ Len(task'[t].events) = Len(task[t].events) + 1
         /\ task'[t].events[Len(task[t].events) + 1] = e
         /\ \A i \in 1 .. Len(task[t].events) : task'[t].events[i] = task[t].events[i]
<1>1. PICK h \in Seq(Event) : h = task[t].events
  BY TaskFields
<1>2. PICK g \in Seq(Event) : g = task'[t].events /\ g = Append(h, e)
  BY <1>1, AppendProperties
<1>3. /\ Len(h) \in Nat /\ Len(g) = Len(h) + 1 /\ g[Len(h) + 1] = e
      /\ \A i \in 1 .. Len(h) : g[i] = h[i]
  BY <1>2, AppendProperties, LenProperties
<1>4. g # <<>>
  BY <1>2, <1>3, EmptySeq
<1>5. \A i : i \in 1 .. Len(g) <=> (i \in 1 .. Len(h) \/ i = Len(h) + 1)
  BY <1>3
<1>6. {g[i] : i \in 1 .. Len(g)} = {h[i] : i \in 1 .. Len(h)} \cup {e}
  BY <1>3, <1>5
<1>7. EventsOf(t)' = EventsOf(t) \cup {e}
  BY <1>1, <1>2, <1>6 DEF EventsOf
<1> QED
  BY <1>1, <1>2, <1>3, <1>4, <1>7

\* A history with a fresh event behind no end is in order.
LEMMA LinearGrows ==
  ASSUME TypeOK, NEW t \in Tasks, NEW e \in Event, task'[t].events = Append(task[t].events, e),
         Linear(t), Fresh(t, e), \A x \in EventsOf(t) : x.boot <= boot /\ x.kind \notin TerminalKinds
  PROVE  Linear(t)'
<1> DEFINE h == task[t].events
           g == task'[t].events
<1>1. /\ Len(g) = Len(h) + 1 /\ g[Len(h) + 1] = e /\ Len(h) \in Nat
      /\ \A i \in 1 .. Len(h) : g[i] = h[i] /\ h[i] \in EventsOf(t) /\ h[i] \in Event
  BY HistoryGrows, EventsAreEvents
<1>2. ASSUME NEW i \in 1 .. Len(g), NEW j \in 1 .. Len(g), i < j
      PROVE  /\ \/ g[i].boot < g[j].boot
                \/ g[i].boot = g[j].boot /\ g[i].seq < g[j].seq
             /\ g[i].kind \notin TerminalKinds
  <2>1. i \in 1 .. Len(h) /\ (j \in 1 .. Len(h) \/ j = Len(h) + 1)
    BY <1>1, <1>2
  <2>2. g[i] = h[i] /\ h[i] \in EventsOf(t)
    BY <1>1, <2>1
  <2>3. CASE j \in 1 .. Len(h)
    <3>1. g[j] = h[j]
      BY <1>1, <2>3
    <3> QED
      BY <1>2, <2>1, <2>2, <2>3, <3>1 DEF Linear
  <2>4. CASE j = Len(h) + 1
    <3>1. PICK x \in Event : x = h[i]
      BY <1>1, <2>1
    <3>2. g[i] = x /\ g[j] = e /\ x \in EventsOf(t)
      BY <1>1, <2>2, <2>4, <3>1
    <3>3. x.boot <= boot /\ x.kind \notin TerminalKinds /\ (x.boot < boot \/ x.seq < e.seq) /\ e.boot = boot
      BY <3>2 DEF Fresh
    <3>4. x.boot \in Nat /\ boot \in Nat
      BY DEF Event, TypeOK
    <3>5. x.boot < e.boot \/ (x.boot = e.boot /\ x.seq < e.seq)
      BY <3>3, <3>4
    <3> QED
      BY <3>2, <3>3, <3>5
  <2> QED
    BY <2>1, <2>3, <2>4
<1> QED
  BY <1>2 DEF Linear

\* The condition after an event.
LEMMA ConditionEffect ==
  ASSUME NEW c \in Condition, NEW e \in Event
  PROVE  /\ e.kind = "SUCCEEDED" => ~ConditionAfter(c, e).awaitingHuman
         /\ e.kind \in {"ASSISTANCE_REQUIRED", "FAILED", "INCONCLUSIVE"} => ConditionAfter(c, e).awaitingHuman
         /\ e.kind \in {"ACCEPTED", "PROGRESS", "REJECTED"} => ConditionAfter(c, e) = c
<1>1. e.kind \in EventKinds
  BY DEF Event
<1>2. CASE e.kind = "SUCCEEDED"
  BY <1>2 DEF ConditionAfter, ClearCondition
<1>3. CASE e.kind \in {"ASSISTANCE_REQUIRED", "FAILED", "INCONCLUSIVE"}
  <2>1. ConditionAfter(c, e) = Protect(c, e.reason)
    BY <1>3 DEF ConditionAfter
  <2>2. Protect(c, e.reason).awaitingHuman
    BY DEF Protect, Condition
  <2> QED
    BY <1>3, <2>1, <2>2
<1>4. CASE e.kind \in {"ACCEPTED", "PROGRESS", "REJECTED"}
  BY <1>4 DEF ConditionAfter
<1> QED
  BY <1>1, <1>2, <1>3, <1>4 DEF EventKinds, TerminalKinds

\* The report at the head of the batch, field by field.
LEMMA HeadReport ==
  ASSUME TypeOK, RobotInv, WriteLine, WriteEvent, NEW t \in Tasks, t = Line.task, NEW e \in Event, e = Line.event
  PROVE  /\ TaskSound(t) /\ Fresh(t, e) /\ ~IsTerminal(t) /\ Decided(t) /\ e.kind \in EventKinds
         /\ e.kind = "ACCEPTED" => task[t].events = <<>> /\ Accepted(t)
         /\ e.kind = "REJECTED" => task[t].events = <<>> /\ ~Accepted(t) /\ ~task[t].started
         /\ e.kind \notin {"ACCEPTED", "REJECTED"} => Accepted(t)
         /\ e.kind = "SUCCEEDED" => task[t].started /\ ~Blocked(t) /\ task[t].completed = "SUCCEEDED"
         /\ e.kind \in {"PROGRESS", "ASSISTANCE_REQUIRED"} => AcceptedHere(t)
         /\ e.reason = "not_started_after_restart" => ~task[t].started /\ e.kind \in TerminalKinds
         /\ e.kind = "INCONCLUSIVE" => task[t].started /\ task[t].completed = "no"
         /\ e.kind = "ASSISTANCE_REQUIRED" => task[t].started /\ ~cond.awaitingHuman /\ task[t].completed # "SUCCEEDED"
         /\ e.kind \in {"FAILED", "INCONCLUSIVE"} => e.reason \notin {"unknown_fault", "energy_insufficient"}
         /\ Accepted(t) <=> current = t
<1>1. ReportSound(batch, 1) /\ Line = batch[1]
  BY HeadLine, EventEffect DEF RobotInv, LineTrue
<1>2. TaskSound(t) /\ e.kind \in EventKinds
  BY DEF RobotInv, ViewInv, Event
<1>3. Fresh(t, e) /\ ~IsTerminal(t)
  BY <1>1 DEF ReportSound
<1>4. Accepted(t) <=> current = t
  BY <1>2, <1>3 DEF TaskSound, FieldsAgree, Unfinished
<1>5. /\ e.kind = "ACCEPTED" => task[t].events = <<>> /\ Accepted(t)
      /\ e.kind = "REJECTED" => task[t].events = <<>> /\ task[t].decision = "rejected" /\ ~task[t].started
      /\ e.kind \notin {"ACCEPTED", "REJECTED"} => Accepted(t)
  BY <1>1 DEF ReportSound, Accepted
<1>6. Decided(t) /\ (e.kind = "REJECTED" => ~Accepted(t))
  BY <1>5 DEF Decided, Accepted
<1>7. /\ e.kind = "SUCCEEDED" => task[t].started /\ ~Blocked(t) /\ task[t].completed = "SUCCEEDED"
      /\ e.kind \in {"PROGRESS", "ASSISTANCE_REQUIRED"} => AcceptedHere(t)
      /\ e.reason = "not_started_after_restart" => ~task[t].started /\ e.kind \in TerminalKinds
      /\ e.kind = "INCONCLUSIVE" => task[t].started /\ task[t].completed = "no"
      /\ e.kind = "ASSISTANCE_REQUIRED" => task[t].started /\ ~cond.awaitingHuman /\ task[t].completed # "SUCCEEDED"
      /\ e.kind \in {"FAILED", "INCONCLUSIVE"} => e.reason \notin {"unknown_fault", "energy_insufficient"}
  BY <1>1 DEF ReportSound
<1> QED
  BY <1>2, <1>3, <1>4, <1>5, <1>6, <1>7

\* A reported event keeps the view: it is true, in order, and ends what it says it ends.
LEMMA EventKeepsView ==
  ASSUME TypeOK, TypeOK', RobotInv, WriteLine, WriteEvent
  PROVE  ViewInv'
<1>0. LinesInv /\ ViewInv
  BY DEF RobotInv
<1>1. PICK t \in Tasks, e \in Event : t = Line.task /\ e = Line.event
  BY <1>0, EventEffect
<1>2. /\ task'[t].events = Append(task[t].events, e)
      /\ task'[t].terminal = IF e.kind \in TerminalKinds THEN e.kind ELSE task[t].terminal
      /\ task'[t].decision = task[t].decision /\ task'[t].confirmed = task[t].confirmed
      /\ task'[t].started = task[t].started /\ task'[t].completed = task[t].completed /\ task'[t].step = task[t].step
      /\ \A u \in Tasks : u # t => task'[u] = task[u]
      /\ current' = IF e.kind \in TerminalKinds /\ current = t THEN NoTask ELSE current
      /\ cond' = ConditionAfter(cond, e)
      /\ UNCHANGED <<boot, runs>> /\ announced' = announced
  BY <1>0, <1>1, EventEffect, WriteFrame
<1>3. /\ TaskSound(t) /\ Fresh(t, e) /\ ~IsTerminal(t) /\ Decided(t) /\ e.kind \in EventKinds
      /\ e.kind = "ACCEPTED" => task[t].events = <<>> /\ Accepted(t)
      /\ e.kind = "REJECTED" => task[t].events = <<>> /\ ~Accepted(t) /\ ~task[t].started
      /\ e.kind \notin {"ACCEPTED", "REJECTED"} => Accepted(t)
      /\ e.kind = "SUCCEEDED" => task[t].started /\ ~Blocked(t) /\ task[t].completed = "SUCCEEDED"
      /\ e.reason = "not_started_after_restart" => ~task[t].started /\ e.kind \in TerminalKinds
      /\ e.kind = "INCONCLUSIVE" => task[t].started /\ task[t].completed = "no"
      /\ e.kind = "ASSISTANCE_REQUIRED" => ~cond.awaitingHuman /\ task[t].completed # "SUCCEEDED"
      /\ Accepted(t) <=> current = t
  BY <1>1, HeadReport
<1>4. EventsOf(t)' = EventsOf(t) \cup {e}
  BY <1>2, HistoryGrows
<1>5. Accepted(t)' = Accepted(t) /\ Decided(t)'
  BY <1>2, <1>3 DEF Accepted, Decided
<1>6. IsTerminal(t)' <=> e.kind \in TerminalKinds
  BY <1>2, <1>3 DEF IsTerminal, TerminalKinds
<1>7. \A x \in EventsOf(t) : x.kind \notin TerminalKinds /\ x.boot <= boot
  BY <1>3 DEF TaskSound, FieldsAgree, EventTrue
<1>8. Blocked(t)' <=> e.kind \notin TerminalKinds /\ (Blocked(t) \/ e.kind = "ASSISTANCE_REQUIRED")
  BY <1>3, <1>4, <1>6 DEF Blocked
<1>9. cond \in Condition /\ t # NoTask
  BY ConstantsAssumption DEF TypeOK
<1>10. cond'.awaitingHuman /\ Unfinished(t)' => Blocked(t)'
  <2>1. CASE e.kind \in TerminalKinds
    BY <1>6, <2>1 DEF Unfinished
  <2>2. CASE e.kind = "ASSISTANCE_REQUIRED"
    BY <1>8, <2>2 DEF TerminalKinds
  <2>3. CASE e.kind \in {"ACCEPTED", "PROGRESS"}
    <3>1. cond' = cond
      BY <1>2, <1>9, <2>3, ConditionEffect
    <3>2. Unfinished(t)' => Unfinished(t)
      BY <1>3, <1>5 DEF Unfinished
    <3> QED
      BY <1>3, <1>8, <2>3, <3>1, <3>2 DEF TaskSound, FieldsAgree, TerminalKinds
  <2> QED
    BY <1>3, <2>1, <2>2, <2>3 DEF EventKinds
<1>11. FieldsAgree(t)'
  <2>1. ~IsTerminal(t)' <=> \A x \in EventsOf(t)' : x.kind \notin TerminalKinds
    BY <1>4, <1>6, <1>7
  <2>2. Unfinished(t)' <=> current' = t
    BY <1>2, <1>3, <1>5, <1>6, <1>9 DEF Unfinished
  <2>3. task'[t].completed = "SUCCEEDED" => ~Blocked(t)'
    BY <1>2, <1>3, <1>8 DEF TaskSound, FieldsAgree
  <2>4. /\ task'[t].started => Accepted(t)'
        /\ task'[t].step # 0 => task'[t].started
        /\ task'[t].completed = "SUCCEEDED" => task'[t].started /\ task'[t].step = 2
    BY <1>2, <1>3, <1>5 DEF TaskSound, FieldsAgree
  <2> QED
    BY <1>5, <1>10, <2>1, <2>2, <2>3, <2>4 DEF FieldsAgree
<1>12. ASSUME NEW x \in EventsOf(t)' PROVE EventTrue(t, x)'
  <2>1. CASE x \in EventsOf(t)
    <3>1. EventTrue(t, x) /\ ~IsTerminal(t)
      BY <1>3, <2>1 DEF TaskSound
    <3> QED
      BY <1>2, <1>5, <3>1 DEF EventTrue
  <2>2. CASE x = e
    <3>1. e.boot <= boot'
      <4>1. e.boot = boot /\ boot \in Nat
        BY <1>3 DEF Fresh, TypeOK
      <4> QED
        BY <1>2, <4>1
    <3> QED
      BY <1>2, <1>3, <1>5, <1>6, <2>2, <3>1 DEF EventTrue
  <2> QED
    BY <1>4, <2>1, <2>2
<1>13. Linear(t)'
  BY <1>2, <1>3, <1>7, LinearGrows DEF TaskSound
<1>14. ConfirmedKnown(t)'
  <2>1. \A k \in task'[t].confirmed : \E x \in EventsOf(t)' : Key(x) = k
    BY <1>2, <1>3, <1>4 DEF TaskSound, ConfirmedKnown
  <2>2. ASSUME NEW x \in EventsOf(t)', x.kind = "ACCEPTED", Key(x) \in task'[t].confirmed
        PROVE  t \in announced
    <3>1. CASE x \in EventsOf(t)
      BY <1>2, <1>3, <2>2, <3>1 DEF TaskSound, ConfirmedKnown
    <3>2. CASE x = e
      <4>1. task[t].events = <<>>
        BY <1>3, <2>2, <3>2
      <4>2. EventsOf(t) = {}
        BY <4>1, NoEvents
      <4>3. task[t].confirmed = {}
        BY <1>3, <4>2 DEF TaskSound, ConfirmedKnown
      <4> QED
        BY <1>2, <2>2, <4>3
    <3> QED
      BY <1>4, <3>1, <3>2
  <2>3. \A x : Key(x)' = Key(x)
    BY DEF Key
  <2> QED
    BY <1>2, <1>3, <2>1, <2>2, <2>3 DEF TaskSound, ConfirmedKnown
<1>15. TaskSound(t)'
  BY <1>11, <1>12, <1>13, <1>14 DEF TaskSound
<1>16. ASSUME NEW u \in Tasks, u # t
       PROVE  /\ current' = u <=> current = u
              /\ Unfinished(u) /\ cond'.awaitingHuman => cond.awaitingHuman
  <2>1. current' = u <=> current = u
    BY <1>2, <1>16, ConstantsAssumption
  <2>2. Unfinished(u) <=> current = u
    BY <1>0 DEF ViewInv, TaskSound, FieldsAgree
  <2>3. Unfinished(u) => ~Accepted(t)
    BY <1>3, <1>16, <2>2
  <2>4. ~Accepted(t) => cond' = cond
    BY <1>2, <1>3, <1>9, ConditionEffect
  <2> QED
    BY <2>1, <2>3, <2>4
<1>17. boot <= boot' /\ task'[t].decision # "undecided"
  BY <1>2, <1>3 DEF TypeOK, Decided
<1> QED
  BY <1>0, <1>2, <1>15, <1>16, <1>17, ViewStep

\* A reported event keeps the invariant.
LEMMA EventKeeps ==
  ASSUME TypeOK, TypeOK', RobotInv, WriteLine, WriteEvent
  PROVE  RobotInv'
<1>0. LinesInv /\ ViewInv /\ StageInv /\ TrafficInv
  BY DEF RobotInv
<1>1. PICK t \in Tasks, e \in Event : t = Line.task /\ e = Line.event
  BY <1>0, EventEffect
<1>2. /\ task'[t].events = Append(task[t].events, e)
      /\ task'[t].terminal = IF e.kind \in TerminalKinds THEN e.kind ELSE task[t].terminal
      /\ task'[t].decision = task[t].decision
      /\ \A u \in Tasks : u # t => task'[u] = task[u]
      /\ current' = IF e.kind \in TerminalKinds /\ current = t THEN NoTask ELSE current
      /\ UNCHANGED <<boot, runs, rejections>> /\ Line.kind = "task_event_persisted"
  BY <1>0, <1>1, EventEffect
<1>3. /\ Fresh(t, e) /\ ~IsTerminal(t) /\ Decided(t) /\ e.kind \in EventKinds
      /\ e.kind = "REJECTED" => ~Accepted(t)
      /\ e.kind \in {"PROGRESS", "ASSISTANCE_REQUIRED"} => AcceptedHere(t)
  BY <1>1, HeadReport
<1>4. EventsOf(t)' = EventsOf(t) \cup {e} /\ task'[t].events # <<>>
  BY <1>2, HistoryGrows
<1>5. Answered(t)' /\ Decided(t)'
  BY <1>2, <1>3, <1>4 DEF Answered, Decided
<1>6. LinesInv'
  <2>1. ReportLine(Line, current) /\ e.kind = "FAILED" => current' = NoTask
    BY <1>1, <1>2 DEF ReportLine, TerminalKinds
  <2> QED
    BY <1>0, <1>1, <1>2, <2>1, LinesMoveUp DEF LeadLine
<1>7. StageInv'
  <2>1. Unfinished(t)' => AcceptedHere(t)'
    <3>1. CASE e.kind \in TerminalKinds
      BY <1>2, <3>1 DEF Unfinished, IsTerminal, TerminalKinds
    <3>2. CASE e.kind = "ACCEPTED"
      BY <1>2, <1>3, <1>4, <3>2 DEF AcceptedHere, Fresh
    <3>3. CASE e.kind \in {"PROGRESS", "ASSISTANCE_REQUIRED"}
      BY <1>2, <1>3, <1>4, <3>3 DEF AcceptedHere
    <3> QED
      BY <1>3, <3>1, <3>2, <3>3 DEF EventKinds
  <2>2. task'[t].decision # "undecided"
    BY <1>2, <1>3 DEF Decided
  <2> QED
    BY <1>0, <1>1, <1>2, <1>5, <2>1, <2>2, StageStep
<1>8. TrafficInv'
  <2>1. ASSUME NEW u \in Tasks
        PROVE  (\A x \in EventsOf(u) : x \in EventsOf(u)') /\ (Answered(u) => Answered(u)')
    <3>1. CASE u = t
      BY <1>4, <1>5, <3>1
    <3>2. CASE u # t
      <4>1. task'[u] = task[u]
        BY <1>2, <3>2
      <4> QED
        BY <4>1 DEF EventsOf, Answered, Decided
    <3> QED
      BY <3>1, <3>2
  <2>2. \A u \in Tasks : RefusedOnRequest(u) => RefusedOnRequest(u)'
    BY <1>2 DEF RefusedOnRequest
  <2> QED
    BY <1>0, <1>1, <1>5, <2>1, <2>2, TrafficStep
<1> QED
  BY <1>6, <1>7, <1>8, EventKeepsView DEF RobotInv

\* Writing any line keeps the invariant.
LEMMA WriteLineKeeps ==
  ASSUME TypeOK, TypeOK', RobotInv, WriteLine
  PROVE  RobotInv'
BY ReceivedKeeps, DecisionKeeps, StartKeeps, ProgressKeeps, CompletedKeeps, ConfirmedKeeps, ResetKeeps,
   ProvisionedKeeps, StartedKeeps, RequestRejectionKeeps, EventKeeps DEF WriteLine

-----------------------------------------------------------------------------
(* Steps that write nothing.                                               *)

\* Lines planned on the view as it is.
LEMMA PlannedLines ==
  ASSUME UNCHANGED <<boot, task, cond, current>>, announced \subseteq announced', NEW b, batch' = b,
         \A i \in 1 .. Len(b) : LineTrue(b, i) /\ (b[i].kind = "robot_started" => pc' = pc)
  PROVE  LinesInv'
<1>1. ASSUME NEW t \in Tasks
      PROVE  /\ EventsOf(t)' = EventsOf(t) /\ IsTerminal(t)' = IsTerminal(t) /\ Accepted(t)' = Accepted(t)
             /\ Unfinished(t)' = Unfinished(t) /\ Blocked(t)' = Blocked(t) /\ AcceptedHere(t)' = AcceptedHere(t)
  BY DEF EventsOf, IsTerminal, Accepted, Unfinished, Blocked, AcceptedHere
<1>2. ASSUME NEW i \in 1 .. Len(b) PROVE LineTrue(batch, i)'
  <2>1. LineTrue(b, i) /\ (b[i].kind = "robot_started" => pc' = pc)
    OBVIOUS
  <2>2. b[i].kind = "task_event_persisted" /\ b[i].event.seq # 0 => ReportSound(batch, i)'
    BY <2>1 DEF LineTrue, ReportSound, Fresh, EventsOf, IsTerminal, Accepted, Blocked, AcceptedHere
  <2>3. b[i].kind = "task_decision" => DecisionSound(batch, i)'
    BY <2>1 DEF LineTrue, DecisionSound
  <2>4. b[i].kind = "event_publish_confirmed" =>
          /\ i = 1
          /\ b[i].ref = 0 => \E e \in EventsOf(b[i].task)' : Key(e) = b[i].key /\ (e.kind = "ACCEPTED" => b[i].task \in announced')
    BY <2>1 DEF LineTrue, EventsOf
  <2>5. b[i].kind = "execution_started" =>
          /\ i = 1 /\ Unfinished(b[i].task)' /\ ~task'[b[i].task].started /\ ~cond'.awaitingHuman
          /\ AcceptedHere(b[i].task)' /\ b[i].task \in announced'
    BY <2>1 DEF LineTrue, Unfinished, Accepted, IsTerminal, AcceptedHere, EventsOf
  <2>6. b[i].kind = "execution_completed" =>
          /\ i = 1 /\ Unfinished(b[i].task)'
          /\ b[i].outcome = "SUCCEEDED" => task'[b[i].task].started /\ task'[b[i].task].step = 2 /\ ~Blocked(b[i].task)'
    BY <2>1 DEF LineTrue, Unfinished, Accepted, IsTerminal, Blocked, EventsOf
  <2>7. b[i].kind = "robot_started" =>
          /\ pc' = "pass1" /\ i = Len(b) /\ \A j \in 1 .. i - 1 : b[j].kind = "robot_provisioned"
          /\ \A t \in Tasks : \A e \in EventsOf(t)' : e.boot <= b[i].boot
    BY <1>1, <2>1 DEF LineTrue
  <2>8. b[i].kind = "request_received" =>
          /\ i = 1 /\ task'[b[i].task].decision = "unknown" /\ \A u \in Tasks : task'[u].decision # "undecided"
          /\ \E j \in 1 .. Len(b) : ReportLine(b[j], b[i].task)
    BY <2>1 DEF LineTrue
  <2>9. b[i].kind = "execution_progress" => i = 1 /\ task'[b[i].task].started
    BY <2>1 DEF LineTrue
  <2>10. b[i].kind = "simulate_reset" =>
           /\ \A j \in 1 .. i - 1 : b[j].kind \in {"execution_completed", "task_event_persisted"}
           /\ \/ current' = NoTask
              \/ i # 1 /\ ReportLine(b[i - 1], current') /\ b[i - 1].event.kind = "FAILED"
    BY <2>1 DEF LineTrue
  <2>11. /\ b[i].kind = "robot_provisioned" => i = 1
         /\ b[i].kind = "task_event_persisted" /\ b[i].event.seq = 0 => i = 1
    BY <2>1 DEF LineTrue
  <2> QED
    BY <2>2, <2>3, <2>4, <2>5, <2>6, <2>7, <2>8, <2>9, <2>10, <2>11 DEF LineTrue, Key
<1> QED
  BY <1>2 DEF LinesInv

\* Nothing is planned.
LEMMA NoLines ==
  ASSUME batch = <<>>
  PROVE  LinesInv /\ \A u : ~Reporting(u)
<1>1. 1 .. Len(batch) = {}
  BY EmptySeq
<1> QED
  BY <1>1 DEF LinesInv, Reporting

\* What the passes have settled once their lines are written.
LEMMA Settled ==
  ASSUME StageInv, batch = <<>>, pc # "down"
  PROVE  /\ pc # "pass1" => \A t \in Tasks : Unfinished(t) => AcceptedHere(t)
         /\ pc \notin {"pass1", "pass2"} => \A t \in Tasks : Decided(t) => Answered(t)
         /\ pc \notin {"pass1", "pass2", "pass3"} => \A t \in Tasks : task[t].decision # "undecided"
BY NoLines DEF StageInv

\* A view that has settled stays so while it is left alone.
LEMMA StageHolds ==
  ASSUME UNCHANGED <<boot, task>>,
         pc' \notin {"down", "pass1"} => \A t \in Tasks : Unfinished(t) => AcceptedHere(t),
         pc' \notin {"down", "pass1", "pass2"} => \A t \in Tasks : Decided(t) => Answered(t),
         pc' \notin {"down", "pass1", "pass2", "pass3"} => \A t \in Tasks : task[t].decision # "undecided"
  PROVE  StageInv'
<1>1. ASSUME NEW t \in Tasks
      PROVE  /\ Unfinished(t)' = Unfinished(t) /\ AcceptedHere(t)' = AcceptedHere(t)
             /\ Decided(t)' = Decided(t) /\ Answered(t)' = Answered(t)
  BY DEF Unfinished, Accepted, IsTerminal, AcceptedHere, EventsOf, Decided, Answered
<1> QED
  BY <1>1 DEF StageInv

\* What is queued and owed, after a step that leaves the journal alone.
LEMMA TrafficHolds ==
  ASSUME UNCHANGED <<task, rejections>>, pc' # "down",
         \A p \in replay' \cup out' \cup {sending'} : p.task # NoTask /\ p.ref = 0 => p.event \in EventsOf(p.task),
         \A u \in acked' : Answered(u) \/ RefusedOnRequest(u),
         handling' # NoTask =>
           \/ Answered(handling') \/ RefusedOnRequest(handling')
           \/ \E i \in 1 .. Len(batch') : batch'[i].kind = "task_event_persisted" /\ batch'[i].task = handling'
  PROVE  TrafficInv'
<1>1. ASSUME NEW u PROVE EventsOf(u)' = EventsOf(u) /\ Answered(u)' = Answered(u) /\ RefusedOnRequest(u)' = RefusedOnRequest(u)
  BY DEF EventsOf, Answered, Decided, RefusedOnRequest
<1>2. \A p \in replay' \cup out' \cup {sending'} : p.task # NoTask /\ p.ref = 0 => p.event \in EventsOf(p.task)'
  BY <1>1
<1>3. handling' # NoTask =>
        \/ Answered(handling)' \/ RefusedOnRequest(handling)'
        \/ \E i \in 1 .. Len(batch') : batch'[i].kind = "task_event_persisted" /\ batch'[i].task = handling'
  BY DEF Answered, Decided, RefusedOnRequest
<1> QED
  BY <1>1, <1>2, <1>3 DEF TrafficInv

-----------------------------------------------------------------------------
(* The start of the device.                                                *)

\* A journal without a provisioning knows no task.
LEMMA BlankJournal ==
  ASSUME TypeOK, ViewInv, ExecutionInv, token = 0
  PROVE  \A t \in Tasks : EventsOf(t) = {}
<1>1. ASSUME NEW t \in Tasks PROVE EventsOf(t) = {}
  <2>1. Incarnation[t] # 0
    BY ConstantsAssumption
  <2>2. task[t].decision = "unknown"
    BY <2>1 DEF ExecutionInv, RunsRemembered
  <2>3. Untouched(t)
    BY <2>2 DEF ViewInv, TaskSound, FieldsAgree, Decided
  <2> QED
    BY <2>3, NoEvents DEF Untouched
<1> QED
  BY <1>1

\* Entering the process.
LEMMA EnterKeeps ==
  ASSUME TypeOK, TypeOK', RobotInv, UNCHANGED <<journalVars, runs, announced, acked>>, EnterProcess, LinesInv'
  PROVE  RobotInv'
<1>0. UNCHANGED <<boot, task, cond, current, rejections, runs, announced, acked>>
  BY DEF journalVars
<1>1. pc' = "pass1" /\ handling' = NoTask /\ replay' = {} /\ out' = {} /\ sending' = NoPublication
  BY DEF EnterProcess
<1>2. ViewInv'
  BY ViewStays DEF RobotInv
<1>3. StageInv'
  BY <1>0, <1>1, StageHolds
<1>4. TrafficInv'
  <2>1. \A u \in acked' : Answered(u) \/ RefusedOnRequest(u)
    BY <1>0 DEF RobotInv, TrafficInv
  <2>2. sending'.task = NoTask
    BY <1>1 DEF NoPublication, Publication
  <2> QED
    BY <1>0, <1>1, <2>1, <2>2, TrafficHolds
<1> QED
  BY <1>2, <1>3, <1>4 DEF RobotInv

\* The explicit first boot.
LEMMA ProvisioningKeeps ==
  ASSUME TypeOK, TypeOK', RobotInv, ExecutionInv, StartProvisioning
  PROVE  RobotInv'
<1>1. /\ UNCHANGED <<journalVars, runs, announced, acked>> /\ EnterProcess /\ token = 0 /\ pc' = "pass1"
      /\ UNCHANGED <<boot, task, cond, current>>
  BY DEF StartProvisioning, EnterProcess, journalVars
<1>2. PICK b : b = << LineProvisioned(minted + 1), LineStarted(1) >>
  OBVIOUS
<1>3. /\ Len(b) = 2 /\ b[1].kind = "robot_provisioned" /\ b[2].kind = "robot_started" /\ b[2].boot = 1 /\ batch' = b
  BY <1>2 DEF LineProvisioned, LineStarted, StartProvisioning
<1>4. \A t \in Tasks : EventsOf(t) = {}
  BY <1>1, BlankJournal DEF RobotInv
<1>5. LinesInv'
  <2>1. \A t \in Tasks : EventsOf(t)' = {}
    BY <1>1, <1>4 DEF EventsOf
  <2>2. LineTrue(batch, 1)'
    BY <1>3 DEF LineTrue
  <2>3. LineTrue(batch, 2)'
    BY <1>1, <1>3, <2>1 DEF LineTrue
  <2>4. \A i \in 1 .. Len(batch') : i = 1 \/ i = 2
    <3>1. Len(batch') = 2
      BY <1>3
    <3> QED
      BY <3>1
  <2> QED
    BY <2>2, <2>3, <2>4 DEF LinesInv
<1> QED
  BY <1>1, <1>5, EnterKeeps

\* A restart.
LEMMA StartAgainKeeps ==
  ASSUME TypeOK, TypeOK', RobotInv, StartAgain
  PROVE  RobotInv'
<1>1. /\ UNCHANGED <<journalVars, runs, announced, acked>> /\ EnterProcess /\ pc' = "pass1"
      /\ UNCHANGED <<boot, task, cond, current>>
  BY DEF StartAgain, EnterProcess, journalVars
<1>2. PICK b : b = << LineStarted(boot + 1) >>
  OBVIOUS
<1>3. /\ Len(b) = 1 /\ b[1].kind = "robot_started" /\ b[1].boot = boot + 1 /\ batch' = b
  BY <1>2 DEF LineStarted, StartAgain
<1>4. \A t \in Tasks : \A e \in EventsOf(t) : e.boot <= boot + 1
  <2>1. ASSUME NEW t \in Tasks, NEW e \in EventsOf(t) PROVE e.boot <= boot + 1
    <3>1. e.boot <= boot /\ boot \in Nat /\ e.boot \in Nat
      BY EventsAreEvents DEF RobotInv, ViewInv, TaskSound, EventTrue, TypeOK, Event
    <3> QED
      BY <3>1
  <2> QED
    BY <2>1
<1>5. LinesInv'
  <2>1. \A t \in Tasks : EventsOf(t)' = EventsOf(t)
    BY <1>1 DEF EventsOf
  <2>2. LineTrue(batch, 1)'
    BY <1>1, <1>3, <1>4, <2>1 DEF LineTrue
  <2>3. \A i \in 1 .. Len(batch') : i = 1
    <3>1. Len(batch') = 1
      BY <1>3
    <3> QED
      BY <3>1
  <2> QED
    BY <2>2, <2>3 DEF LinesInv
<1> QED
  BY <1>1, <1>5, EnterKeeps

-----------------------------------------------------------------------------
(* Planning: what a handler puts into the batch.                           *)

\* A handler that plans lines in a process that has none under way.
LEMMA PlanKeeps ==
  ASSUME TypeOK, TypeOK', RobotInv, batch = <<>>, pc # "down", pc' # "down",
         UNCHANGED <<journalVars, runs, announced, acked, handling, replay, out, sending>>,
         pc' = pc \/ (pc \notin {"pass1", "pass2", "pass3"} /\ pc' \notin {"pass1", "pass2", "pass3"}),
         NEW b, batch' = b, \A i \in 1 .. Len(b) : LineTrue(b, i) /\ b[i].kind # "robot_started"
  PROVE  RobotInv'
<1>1. UNCHANGED <<boot, task, cond, current, rejections, runs, announced, acked, handling, replay, out, sending>>
  BY DEF journalVars
<1>2. ViewInv'
  BY <1>1, ViewStays DEF RobotInv
<1>3. LinesInv'
  BY <1>1, PlannedLines
<1>4. StageInv'
  BY <1>1, Settled, StageHolds DEF RobotInv
<1>5. TrafficInv'
  <2>1. 1 .. Len(batch) = {}
    BY EmptySeq
  <2>2. \A p \in replay' \cup out' \cup {sending'} : p.task # NoTask /\ p.ref = 0 => p.event \in EventsOf(p.task)
    BY <1>1 DEF RobotInv, TrafficInv
  <2>3. \A u \in acked' : Answered(u) \/ RefusedOnRequest(u)
    BY <1>1 DEF RobotInv, TrafficInv
  <2>4. handling' # NoTask => Answered(handling') \/ RefusedOnRequest(handling')
    BY <1>1, <2>1 DEF RobotInv, TrafficInv
  <2> QED
    BY <1>1, <2>2, <2>3, <2>4, TrafficHolds
<1> QED
  BY <1>2, <1>3, <1>4, <1>5 DEF RobotInv

\* What a planned report is.
LEMMA ReportFacts ==
  ASSUME TypeOK, ViewInv, NEW t \in Tasks, NEW k, NEW r, NEW l, l = Report(t, k, r)
  PROVE  /\ l.kind = "task_event_persisted" /\ l.task = t /\ l.event.seq # 0
         /\ l.event.kind = k /\ l.event.reason = r /\ Fresh(t, l.event) /\ ReportLine(l, t)
<1>1. PICK n : n = NextSequence(t)
  OBVIOUS
<1>2. n # 0
  BY <1>1, NextSequenceIsFree
<1>3. Fresh(t, MakeEvent(k, r, n))
  BY <1>1, ReportIsFresh DEF ViewInv, TaskSound, EventTrue
<1>4. l = [kind |-> "task_event_persisted", task |-> t, event |-> [boot |-> boot, seq |-> n, kind |-> k, reason |-> r]]
  BY <1>1 DEF Report, LineEvent, MakeEvent
<1> QED
  BY <1>2, <1>3, <1>4 DEF MakeEvent, ReportLine

\* A report planned on its own.
LEMMA LoneReport ==
  ASSUME TypeOK, ViewInv, NEW t \in Tasks, NEW k, NEW r, Unfinished(t), k \notin {"ACCEPTED", "REJECTED"},
         k = "SUCCEEDED" => task[t].started /\ task[t].completed = "SUCCEEDED",
         r = "not_started_after_restart" => ~task[t].started /\ k \in TerminalKinds,
         k = "INCONCLUSIVE" => task[t].started /\ task[t].completed = "no",
         k \in {"PROGRESS", "ASSISTANCE_REQUIRED"} => AcceptedHere(t),
         k = "ASSISTANCE_REQUIRED" => task[t].started /\ ~cond.awaitingHuman /\ task[t].completed # "SUCCEEDED",
         k \in {"FAILED", "INCONCLUSIVE"} => r \notin {"unknown_fault", "energy_insufficient"},
         NEW b, b = << Report(t, k, r) >>
  PROVE  \A i \in 1 .. Len(b) : LineTrue(b, i) /\ b[i].kind # "robot_started"
<1>1. PICK l : l = Report(t, k, r)
  OBVIOUS
<1>2. Len(b) = 1 /\ b[1] = l
  BY <1>1
<1>3. /\ l.kind = "task_event_persisted" /\ l.task = t /\ l.event.seq # 0
      /\ l.event.kind = k /\ l.event.reason = r /\ Fresh(t, l.event)
  BY <1>1, ReportFacts
<1>4. Accepted(t) /\ ~IsTerminal(t)
  BY DEF Unfinished
<1>5. k = "SUCCEEDED" => ~Blocked(t)
  BY DEF ViewInv, TaskSound, FieldsAgree
<1>6. 1 .. 1 - 1 = {}
  OBVIOUS
<1>7. ReportSound(b, 1)
  BY <1>2, <1>3, <1>4, <1>5, <1>6 DEF ReportSound
<1>8. LineTrue(b, 1)
  BY <1>2, <1>3, <1>7 DEF LineTrue
<1>9. \A i \in 1 .. Len(b) : i = 1
  BY <1>2
<1> QED
  BY <1>2, <1>3, <1>8, <1>9

\* A report planned behind a line about the same execution.
LEMMA ReportBehind ==
  ASSUME TypeOK, ViewInv, NEW t \in Tasks, NEW k, NEW r, NEW m, Unfinished(t),
         m.task = t, m.kind \in {"execution_started", "execution_progress", "execution_completed"},
         k \in {"PROGRESS", "FAILED", "SUCCEEDED"}, r \notin {"not_started_after_restart", "unknown_fault", "energy_insufficient"},
         k = "SUCCEEDED" => task[t].started /\ ~Blocked(t) /\ m.kind = "execution_completed" /\ m.outcome = "SUCCEEDED",
         k = "PROGRESS" => AcceptedHere(t),
         NEW b, b[1] = m, b[2] = Report(t, k, r)
  PROVE  LineTrue(b, 2) /\ ReportLine(b[2], t) /\ b[2].event.kind = k /\ b[2].kind = "task_event_persisted"
<1>1. PICK l : l = Report(t, k, r)
  OBVIOUS
<1>2. /\ l.kind = "task_event_persisted" /\ l.task = t /\ l.event.seq # 0
      /\ l.event.kind = k /\ l.event.reason = r /\ Fresh(t, l.event) /\ ReportLine(l, t)
  BY <1>1, ReportFacts
<1>3. Accepted(t) /\ ~IsTerminal(t)
  BY DEF Unfinished
<1>4. \A j \in 1 .. 2 - 1 : LeadLine(b[j], t)
  <2>1. \A j \in 1 .. 2 - 1 : j = 1
    OBVIOUS
  <2> QED
    BY <2>1 DEF LeadLine
<1>5. 2 - 1 = 1 /\ 2 # 1
  OBVIOUS
<1>6. ReportSound(b, 2)
  BY <1>1, <1>2, <1>3, <1>4, <1>5 DEF ReportSound
<1> QED
  BY <1>1, <1>2, <1>6 DEF LineTrue

\* A pair of lines.
LEMMA PairTrue ==
  ASSUME NEW m, NEW l, NEW b, b = << m, l >>, LineTrue(b, 1), LineTrue(b, 2),
         m.kind # "robot_started", l.kind # "robot_started"
  PROVE  \A i \in 1 .. Len(b) : LineTrue(b, i) /\ b[i].kind # "robot_started"
<1>1. Len(b) = 2 /\ b[1] = m /\ b[2] = l
  OBVIOUS
<1>2. \A i \in 1 .. Len(b) : i = 1 \/ i = 2
  BY <1>1
<1> QED
  BY <1>1, <1>2

-----------------------------------------------------------------------------
(* The start of the device, continued: the three passes.                   *)

\* The two lines of a decision, and when it can be an acceptance.
LEMMA DecisionShape ==
  ASSUME TypeOK, NEW t \in Tasks, NEW c, c = DecideNewTask(t)
  PROVE  /\ Len(c) = 2 /\ c[1].kind = "task_decision" /\ c[1].task = t
         /\ c[2].kind = "task_event_persisted" /\ c[2].task = t /\ c[2].event.boot = boot /\ c[2].event.seq = 1
         /\ \/ c[1].decision = "accepted" /\ c[2].event.kind = "ACCEPTED" /\ current = NoTask /\ ~cond.awaitingHuman
            \/ c[1].decision = "rejected" /\ c[2].event.kind = "REJECTED"
         /\ c[2].event.reason # "not_started_after_restart"
<1>1. PICK r : r = RefusalReason(t)
  OBVIOUS
<1>2. cond \in Condition
  BY DEF TypeOK
<1>3. r = "none" => current = NoTask /\ ~cond.awaitingHuman
  BY <1>1, <1>2 DEF RefusalReason, Condition
<1>4. r # "not_started_after_restart"
  BY <1>1, <1>2 DEF RefusalReason, Condition
<1>5. CASE r = "none"
  <2>1. c = << LineDecision(t, "accepted", "none"), LineEvent(t, MakeEvent("ACCEPTED", "none", 1)) >>
    BY <1>1, <1>5 DEF DecideNewTask
  <2> QED
    BY <1>3, <1>5, <2>1 DEF LineDecision, LineEvent, MakeEvent
<1>6. CASE r # "none"
  <2>1. c = << LineDecision(t, "rejected", r), LineEvent(t, MakeEvent("REJECTED", r, 1)) >>
    BY <1>1, <1>6 DEF DecideNewTask
  <2> QED
    BY <1>4, <2>1 DEF LineDecision, LineEvent, MakeEvent
<1> QED
  BY <1>5, <1>6

\* The event of a decision, wherever it stands behind its decision.
LEMMA DecisionReport ==
  ASSUME TypeOK, ViewInv, NEW t \in Tasks, ~Decided(t), NEW b, NEW i \in {2, 3},
         b[i].kind = "task_event_persisted", b[i].task = t, b[i].event.boot = boot, b[i].event.seq = 1,
         b[i].event.reason # "not_started_after_restart",
         b[i - 1].kind = "task_decision", b[i - 1].task = t,
         \/ b[i - 1].decision = "accepted" /\ b[i].event.kind = "ACCEPTED"
         \/ b[i - 1].decision = "rejected" /\ b[i].event.kind = "REJECTED",
         i = 3 => b[1].kind = "request_received" /\ b[1].task = t
  PROVE  LineTrue(b, i) /\ ReportLine(b[i], t)
<1>1. Untouched(t) /\ EventsOf(t) = {} /\ ~IsTerminal(t)
  BY UntouchedFacts
<1>2. Fresh(t, b[i].event)
  BY <1>1 DEF Fresh
<1>3. \A j \in 1 .. i - 1 : LeadLine(b[j], t)
  <2>1. \A j \in 1 .. i - 1 : j = i - 1 \/ (i = 3 /\ j = 1)
    OBVIOUS
  <2> QED
    BY <2>1 DEF LeadLine
<1>4. i # 1
  OBVIOUS
<1>5. task[t].events = <<>> /\ ~task[t].started
  BY <1>1 DEF Untouched
<1>6. ReportSound(b, i)
  BY <1>1, <1>2, <1>3, <1>4, <1>5 DEF ReportSound
<1> QED
  BY <1>6 DEF LineTrue, ReportLine

\* A decision planned on its own, for a request that was persisted without one.
LEMMA DecisionAlone ==
  ASSUME TypeOK, ViewInv, NEW t \in Tasks, task[t].decision = "undecided", NEW b, b = DecideNewTask(t)
  PROVE  \A i \in 1 .. Len(b) : LineTrue(b, i) /\ b[i].kind # "robot_started"
<1>1. /\ Len(b) = 2 /\ b[1].kind = "task_decision" /\ b[1].task = t
      /\ b[2].kind = "task_event_persisted" /\ b[2].task = t /\ b[2].event.boot = boot /\ b[2].event.seq = 1
      /\ \/ b[1].decision = "accepted" /\ b[2].event.kind = "ACCEPTED" /\ current = NoTask /\ ~cond.awaitingHuman
         \/ b[1].decision = "rejected" /\ b[2].event.kind = "REJECTED"
      /\ b[2].event.reason # "not_started_after_restart"
  BY DecisionShape
<1>2. ~Decided(t) /\ 2 - 1 = 1 /\ 2 \in {2, 3} /\ 2 # 3
  BY DEF Decided
<1>3. LineTrue(b, 2) /\ ReportLine(b[2], t)
  BY <1>1, <1>2, DecisionReport
<1>4. DecisionSound(b, 1)
  <2>1. 1 + 1 \in 1 .. Len(b) /\ 1 + 1 = 2
    BY <1>1
  <2> QED
    BY <1>1, <1>3, <2>1 DEF DecisionSound
<1>5. LineTrue(b, 1)
  BY <1>1, <1>4 DEF LineTrue
<1>6. \A i \in 1 .. Len(b) : i = 1 \/ i = 2
  BY <1>1
<1> QED
  BY <1>1, <1>3, <1>5, <1>6

\* A batch whose lines are true, and one that reports a task.
PlanTrue(b)       == \A i \in 1 .. Len(b) : LineTrue(b, i) /\ b[i].kind # "robot_started"
PlanAnswers(b, t) == \E i \in 1 .. Len(b) : b[i].kind = "task_event_persisted" /\ b[i].task = t

\* A new request and its decision.
LEMMA DecisionOnArrival ==
  ASSUME TypeOK, ViewInv, NEW t \in Tasks, task[t].decision = "unknown", \A u \in Tasks : task[u].decision # "undecided",
         NEW b, b = << LineReceived(t) >> \o DecideNewTask(t)
  PROVE  PlanTrue(b) /\ PlanAnswers(b, t)
<1>1. PICK c : c = DecideNewTask(t)
  OBVIOUS
<1>2. c \in Seq(Lines)
  BY <1>1, DecideNewTaskType
<1>3. /\ Len(c) = 2 /\ c[1].kind = "task_decision" /\ c[1].task = t
      /\ c[2].kind = "task_event_persisted" /\ c[2].task = t /\ c[2].event.boot = boot /\ c[2].event.seq = 1
      /\ \/ c[1].decision = "accepted" /\ c[2].event.kind = "ACCEPTED" /\ current = NoTask /\ ~cond.awaitingHuman
         \/ c[1].decision = "rejected" /\ c[2].event.kind = "REJECTED"
      /\ c[2].event.reason # "not_started_after_restart"
  BY <1>1, DecisionShape
<1>4. LineReceived(t) \in Lines
  BY LineTypes
<1>5. Len(b) = 3 /\ b[1] = LineReceived(t) /\ b[2] = c[1] /\ b[3] = c[2]
  <2>1. PICK r \in Seq(Lines) : r = << LineReceived(t) >> /\ Len(r) = 1 /\ r[1] = LineReceived(t)
    BY <1>4, OneLine
  <2>2. /\ b = r \o c /\ Len(r \o c) = Len(r) + Len(c)
        /\ \A i \in 1 .. Len(r) + Len(c) : (r \o c)[i] = IF i <= Len(r) THEN r[i] ELSE c[i - Len(r)]
    BY <1>1, <1>2, <2>1, ConcatProperties
  <2> QED
    BY <1>3, <2>1, <2>2
<1>6. b[1].kind = "request_received" /\ b[1].task = t
  BY <1>5 DEF LineReceived
<1>7. ~Decided(t) /\ 3 - 1 = 2 /\ 3 \in {2, 3}
  BY DEF Decided
<1>8. LineTrue(b, 3) /\ ReportLine(b[3], t)
  BY <1>3, <1>5, <1>6, <1>7, DecisionReport
<1>9. DecisionSound(b, 2)
  <2>1. 2 + 1 \in 1 .. Len(b) /\ 2 + 1 = 3 /\ 2 # 1
    BY <1>5
  <2> QED
    BY <1>3, <1>5, <1>6, <1>8, <2>1 DEF DecisionSound
<1>10. LineTrue(b, 2)
  BY <1>3, <1>5, <1>9 DEF LineTrue
<1>11. 3 \in 1 .. Len(b) /\ \A i \in 1 .. Len(b) : i = 1 \/ i = 2 \/ i = 3
  BY <1>5
<1>12. LineTrue(b, 1)
  BY <1>6, <1>8, <1>11 DEF LineTrue
<1> QED
  BY <1>3, <1>5, <1>6, <1>8, <1>10, <1>11, <1>12 DEF PlanTrue, PlanAnswers

\* The rejection of a decided task, reported on its own.
LEMMA RejectionAlone ==
  ASSUME TypeOK, ViewInv, NEW t \in Tasks, task[t].decision = "rejected", task[t].events = <<>>,
         NEW r, NEW b, b = << LineEvent(t, MakeEvent("REJECTED", r, 1)) >>
  PROVE  \A i \in 1 .. Len(b) : LineTrue(b, i) /\ b[i].kind # "robot_started"
<1>1. /\ Len(b) = 1 /\ b[1].kind = "task_event_persisted" /\ b[1].task = t /\ b[1].event.boot = boot
      /\ b[1].event.seq = 1 /\ b[1].event.kind = "REJECTED" /\ b[1].event.reason = r
  BY DEF LineEvent, MakeEvent
<1>2. EventsOf(t) = {}
  BY NoEvents
<1>3. ~IsTerminal(t) /\ ~task[t].started
  BY <1>2 DEF ViewInv, TaskSound, FieldsAgree, Accepted
<1>4. 1 .. 1 - 1 = {}
  OBVIOUS
<1>5. ReportSound(b, 1)
  BY <1>1, <1>2, <1>3, <1>4 DEF ReportSound, Fresh, TerminalKinds
<1>6. LineTrue(b, 1)
  BY <1>1, <1>5 DEF LineTrue
<1>7. \A i \in 1 .. Len(b) : i = 1
  BY <1>1
<1> QED
  BY <1>1, <1>6, <1>7

\* What happened before a restart is reported as the journal shows it.
LEMMA OutcomePlanned ==
  ASSUME TypeOK, ViewInv, NEW t \in Tasks, Unfinished(t), NEW b, b = << OutcomeAfterRestart(t) >>
  PROVE  \A i \in 1 .. Len(b) : LineTrue(b, i) /\ b[i].kind # "robot_started"
<1>1. task[t].completed \in {"no", "SUCCEEDED", "FAILED"} /\ task[t].started \in BOOLEAN
  BY TaskFields DEF TaskView
<1>2. task[t].completed = "SUCCEEDED" => task[t].started
  BY DEF ViewInv, TaskSound, FieldsAgree
<1>3. CASE task[t].completed = "SUCCEEDED"
  <2>1. b = << Report(t, "SUCCEEDED", "none") >>
    BY <1>3 DEF OutcomeAfterRestart
  <2> QED
    BY <1>2, <1>3, <2>1, LoneReport
<1>4. CASE task[t].completed = "FAILED"
  <2>1. b = << Report(t, "FAILED", "cannot_continue") >>
    BY <1>4 DEF OutcomeAfterRestart
  <2> QED
    BY <2>1, LoneReport
<1>5. CASE task[t].completed = "no" /\ ~task[t].started
  <2>1. b = << Report(t, "FAILED", "not_started_after_restart") >>
    BY <1>5 DEF OutcomeAfterRestart
  <2> QED
    BY <1>5, <2>1, LoneReport DEF TerminalKinds
<1>6. CASE task[t].completed = "no" /\ task[t].started
  <2>1. b = << Report(t, "INCONCLUSIVE", "interrupted_execution_unknown_outcome") >>
    BY <1>6 DEF OutcomeAfterRestart
  <2> QED
    BY <1>6, <2>1, LoneReport
<1> QED
  BY <1>1, <1>3, <1>4, <1>5, <1>6

\* A pass that is over has settled what it is for.
LEMMA PassEnds ==
  ASSUME TypeOK, TypeOK', RobotInv, batch = <<>>, batch' = <<>>, pc \in {"pass1", "pass2", "pass3"},
         UNCHANGED <<journalVars, runs, announced, acked, handling, replay, out, sending>>,
         \/ pc = "pass1" /\ pc' = "pass2" /\ \A t \in Tasks : ~Unfinished(t)
         \/ pc = "pass2" /\ pc' = "pass3" /\ \A t \in Tasks : ~(task[t].decision = "rejected" /\ task[t].events = <<>>)
         \/ pc = "pass3" /\ pc' = "idle" /\ \A t \in Tasks : task[t].decision # "undecided"
  PROVE  RobotInv'
<1>1. UNCHANGED <<boot, task, cond, current, rejections, runs, announced, acked, handling, replay, out, sending>>
  BY DEF journalVars
<1>2. ViewInv'
  BY <1>1, ViewStays DEF RobotInv
<1>3. LinesInv'
  <2>1. 1 .. Len(batch') = {}
    BY EmptySeq
  <2> QED
    BY <2>1 DEF LinesInv
<1>4. StageInv'
  <2>1. pc' \notin {"down", "pass1"} => \A t \in Tasks : Unfinished(t) => AcceptedHere(t)
    BY Settled DEF RobotInv
  <2>2. ASSUME pc = "pass2", pc' = "pass3", NEW t \in Tasks, Decided(t) PROVE Answered(t)
    <3>1. CASE task[t].decision = "rejected"
      BY <2>2, <3>1 DEF Answered
    <3>2. CASE Unfinished(t)
      <4>1. AcceptedHere(t)
        BY <2>2, <3>2, Settled DEF RobotInv
      <4>2. EventsOf(t) # {}
        BY <4>1 DEF AcceptedHere
      <4> QED
        BY <2>2, <4>2, NoEvents DEF Answered
    <3>3. CASE IsTerminal(t)
      <4>1. EventsOf(t) # {}
        BY <3>3 DEF RobotInv, ViewInv, TaskSound, FieldsAgree
      <4> QED
        BY <2>2, <4>1, NoEvents DEF Answered
    <3> QED
      BY <2>2, <3>1, <3>2, <3>3 DEF Decided, Unfinished, Accepted
  <2>3. pc' \notin {"down", "pass1", "pass2"} => \A t \in Tasks : Decided(t) => Answered(t)
    BY <2>2, Settled DEF RobotInv
  <2> QED
    BY <1>1, <2>1, <2>3, StageHolds
<1>5. TrafficInv'
  <2>1. 1 .. Len(batch) = {}
    BY EmptySeq
  <2>2. \A p \in replay' \cup out' \cup {sending'} : p.task # NoTask /\ p.ref = 0 => p.event \in EventsOf(p.task)
    BY <1>1 DEF RobotInv, TrafficInv
  <2>3. \A u \in acked' : Answered(u) \/ RefusedOnRequest(u)
    BY <1>1 DEF RobotInv, TrafficInv
  <2>4. handling' # NoTask => Answered(handling') \/ RefusedOnRequest(handling')
    BY <1>1, <2>1 DEF RobotInv, TrafficInv
  <2> QED
    BY <1>1, <2>2, <2>3, <2>4, TrafficHolds
<1> QED
  BY <1>2, <1>3, <1>4, <1>5 DEF RobotInv

\* The three passes.
LEMMA RecoverKeeps ==
  ASSUME TypeOK, TypeOK', RobotInv, Recover
  PROVE  RobotInv'
<1>0. UNCHANGED <<journalVars, runs, announced, acked, handling, replay, out, sending>> /\ ViewInv
  BY DEF Recover, worldVars, RobotInv
<1>1. CASE \E t \in Tasks : CloseInterrupted(t) \/ ReportRejected(t) \/ DecidePersisted(t)
  <2>1. PICK t \in Tasks : CloseInterrupted(t) \/ ReportRejected(t) \/ DecidePersisted(t)
    BY <1>1
  <2>2. PICK b : b = batch'
    OBVIOUS
  <2>3. batch = <<>> /\ pc' = pc /\ pc # "down"
    BY <2>1 DEF CloseInterrupted, ReportRejected, DecidePersisted
  <2>4. \A i \in 1 .. Len(b) : LineTrue(b, i) /\ b[i].kind # "robot_started"
    <3>1. CASE CloseInterrupted(t)
      <4>1. Unfinished(t) /\ b = << OutcomeAfterRestart(t) >>
        BY <2>2, <3>1 DEF CloseInterrupted, Interrupted
      <4> QED
        BY <1>0, <4>1, OutcomePlanned
    <3>2. CASE ReportRejected(t)
      <4>1. task[t].decision = "rejected" /\ task[t].events = <<>>
            /\ b = << LineEvent(t, MakeEvent("REJECTED", task[t].reason, 1)) >>
        BY <2>2, <3>2 DEF ReportRejected
      <4> QED
        BY <1>0, <4>1, RejectionAlone
    <3>3. CASE DecidePersisted(t)
      <4>1. task[t].decision = "undecided" /\ b = DecideNewTask(t)
        BY <2>2, <3>3 DEF DecidePersisted
      <4> QED
        BY <1>0, <4>1, DecisionAlone
    <3> QED
      BY <2>1, <3>1, <3>2, <3>3
  <2> QED
    BY <1>0, <2>2, <2>3, <2>4, PlanKeeps
<1>2. CASE EndPass1 \/ EndPass2
  BY <1>0, <1>2, PassEnds DEF EndPass1, EndPass2, Interrupted
<1> QED
  BY <1>1, <1>2 DEF Recover

\* The whole start.
LEMMA BootKeeps ==
  ASSUME TypeOK, TypeOK', RobotInv, ExecutionInv, Boot
  PROVE  RobotInv'
<1>1. CASE FinishBoot
  <2>1. /\ batch = <<>> /\ batch' = <<>> /\ pc = "pass3" /\ pc' = "idle" /\ \A t \in Tasks : task[t].decision # "undecided"
        /\ UNCHANGED <<journalVars, runs, announced, acked, handling, replay, out, sending>>
    BY <1>1 DEF FinishBoot, worldVars
  <2> QED
    BY <2>1, PassEnds
<1> QED
  BY <1>1, ProvisioningKeeps, StartAgainKeeps, RecoverKeeps DEF Boot

-----------------------------------------------------------------------------
(* Requests.                                                               *)

\* A delivery that is taken in: the rejection, the replay or the decision it calls for.
LEMMA ArrivalKeeps ==
  ASSUME TypeOK, TypeOK', RobotInv, Listening, NEW t \in Tasks, handling' = t,
         UNCHANGED <<journalVars, runs, announced, acked, pc, out, sending>>,
         \A p \in replay' : p \in replay \/ (p.event \in EventsOf(t) /\ p.task = t),
         NEW b, batch' = b, PlanTrue(b), Answered(t) \/ PlanAnswers(b, t)
  PROVE  RobotInv'
<1>1. UNCHANGED <<boot, task, cond, current, rejections, runs, announced, acked, pc, out, sending>>
  BY DEF journalVars
<1>2. ViewInv'
  BY <1>1, ViewStays DEF RobotInv
<1>3. LinesInv'
  BY <1>1, PlannedLines DEF PlanTrue
<1>4. batch = <<>> /\ pc # "down"
  BY DEF Listening
<1>5. StageInv'
  BY <1>1, <1>4, Settled, StageHolds DEF RobotInv
<1>6. TrafficInv'
  <2>1. \A p \in replay' \cup out' \cup {sending'} : p.task # NoTask /\ p.ref = 0 => p.event \in EventsOf(p.task)
    BY <1>1 DEF RobotInv, TrafficInv
  <2>2. \A u \in acked' : Answered(u) \/ RefusedOnRequest(u)
    BY <1>1 DEF RobotInv, TrafficInv
  <2> QED
    BY <1>1, <1>4, <2>1, <2>2, TrafficHolds DEF PlanAnswers
<1> QED
  BY <1>2, <1>3, <1>5, <1>6 DEF RobotInv

\* A delivery of a request.
LEMMA ReceiveKeeps ==
  ASSUME TypeOK, TypeOK', RobotInv, NEW t \in Tasks, Receive(t)
  PROVE  RobotInv'
<1>1. /\ Listening /\ handling' = t /\ UNCHANGED <<journalVars, runs, announced, acked, pc, out, sending>>
      /\ ViewInv /\ batch = <<>>
  BY DEF Receive, worldVars, RobotInv, Listening
<1>2. PICK b : b = batch'
  OBVIOUS
<1>3. \A u \in Tasks : task[u].decision # "undecided" /\ (Decided(u) => Answered(u))
  BY <1>1, Settled DEF Listening, RobotInv
<1>4. CASE ~ForThisIncarnation(t)
  <2>1. b = << LineEvent(t, MakeEvent("REJECTED", "none", 0)) >> /\ replay' = replay
    BY <1>2, <1>4 DEF Receive
  <2>2. Len(b) = 1 /\ b[1].kind = "task_event_persisted" /\ b[1].task = t /\ b[1].event.seq = 0
    BY <2>1 DEF LineEvent, MakeEvent
  <2>3. LineTrue(b, 1)
    BY <2>2 DEF LineTrue
  <2>4. 1 \in 1 .. Len(b) /\ \A i \in 1 .. Len(b) : i = 1
    BY <2>2
  <2>5. PlanTrue(b)
    BY <2>2, <2>3, <2>4 DEF PlanTrue
  <2>6. PlanAnswers(b, t)
    BY <2>2, <2>4 DEF PlanAnswers
  <2>7. \A p \in replay' : p \in replay \/ (p.event \in EventsOf(t) /\ p.task = t)
    <3>1. replay' = replay
      BY <2>1
    <3> QED
      BY <3>1
  <2> QED
    BY <1>1, <1>2, <2>5, <2>6, <2>7, ArrivalKeeps
<1>5. CASE ForThisIncarnation(t) /\ task[t].decision # "unknown"
  <2>1. b = <<>> /\ replay' = History(t)
    BY <1>1, <1>2, <1>5 DEF Receive
  <2>2. task[t].decision \in {"unknown", "undecided", "accepted", "rejected"}
    BY TaskFields DEF TaskView
  <2>3. Answered(t)
    BY <1>3, <1>5, <2>2 DEF Decided
  <2>4. PlanTrue(b)
    <3>1. 1 .. Len(b) = {}
      BY <2>1, EmptySeq
    <3> QED
      BY <3>1 DEF PlanTrue
  <2>5. \A p \in replay' : p.event \in EventsOf(t) /\ p.task = t
    BY <2>1 DEF History, Publication
  <2> QED
    BY <1>1, <1>2, <2>3, <2>4, <2>5, ArrivalKeeps
<1>6. CASE ForThisIncarnation(t) /\ task[t].decision = "unknown"
  <2>1. b = << LineReceived(t) >> \o DecideNewTask(t) /\ replay' = replay
    BY <1>2, <1>6 DEF Receive
  <2>2. \A u \in Tasks : task[u].decision # "undecided"
    BY <1>3
  <2>3. b = << LineReceived(t) >> \o DecideNewTask(t)
    BY <2>1
  <2>4. task[t].decision = "unknown"
    BY <1>6
  <2>5. PlanTrue(b) /\ PlanAnswers(b, t)
    BY <1>1, <2>2, <2>3, <2>4, DecisionOnArrival
  <2>6. \A p \in replay' : p \in replay \/ (p.event \in EventsOf(t) /\ p.task = t)
    <3>1. replay' = replay
      BY <2>1
    <3> QED
      BY <3>1
  <2> QED
    BY <1>1, <1>2, <2>5, <2>6, ArrivalKeeps
<1> QED
  BY <1>4, <1>5, <1>6

\* The acknowledgement follows the records.
LEMMA AckKeeps ==
  ASSUME TypeOK, TypeOK', RobotInv, AckRequest
  PROVE  RobotInv'
<1>1. /\ UNCHANGED <<boot, task, cond, current, rejections, runs, announced, pc, replay, out, sending>>
      /\ UNCHANGED <<journalVars, runs, announced>>
      /\ batch = <<>> /\ batch' = <<>> /\ handling' = NoTask /\ acked' = acked \cup {handling} /\ handling # NoTask
  BY DEF AckRequest, journalVars
<1>2. ViewInv'
  BY <1>1, ViewStays DEF RobotInv
<1>3. 1 .. Len(batch) = {} /\ 1 .. Len(batch') = {}
  BY <1>1, EmptySeq
<1>4. LinesInv'
  BY <1>3 DEF LinesInv
<1>5. pc # "down"
  BY <1>1 DEF RobotInv, TrafficInv
<1>6. StageInv'
  BY <1>1, <1>5, Settled, StageHolds DEF RobotInv
<1>7. TrafficInv'
  <2>1. \A p \in replay' \cup out' \cup {sending'} : p.task # NoTask /\ p.ref = 0 => p.event \in EventsOf(p.task)
    BY <1>1 DEF RobotInv, TrafficInv
  <2>2. \A u \in acked' : Answered(u) \/ RefusedOnRequest(u)
    BY <1>1, <1>3 DEF RobotInv, TrafficInv
  <2> QED
    BY <1>1, <1>5, <2>1, <2>2, TrafficHolds
<1> QED
  BY <1>2, <1>4, <1>6, <1>7 DEF RobotInv

-----------------------------------------------------------------------------
(* Execution.                                                              *)

\* What holds of the task the robot may take a step of.
LEMMA AdvanceFacts ==
  ASSUME TypeOK, RobotInv, NEW t \in Tasks, AtRest, current = t, ~IsTerminal(t), ~Blocked(t)
  PROVE  /\ TaskSound(t) /\ Unfinished(t) /\ AcceptedHere(t) /\ ~cond.awaitingHuman
         /\ task[t].step # 0 => task[t].started
         /\ Unconfirmed(t) = {} => t \in announced
<1>1. TaskSound(t) /\ Unfinished(t)
  BY DEF RobotInv, ViewInv, TaskSound, FieldsAgree
<1>2. AcceptedHere(t)
  BY <1>1, Settled DEF RobotInv, AtRest
<1>3. ~cond.awaitingHuman /\ (task[t].step # 0 => task[t].started)
  BY <1>1 DEF TaskSound, FieldsAgree
<1>4. Unconfirmed(t) = {} => t \in announced
  BY <1>1, <1>2 DEF Unconfirmed, AcceptedHere, TaskSound, ConfirmedKnown
<1> QED
  BY <1>1, <1>2, <1>3, <1>4

\* The lines of each execution step.
LEMMA StepPlanned ==
  ASSUME TypeOK, RobotInv, ExecutionInv, NEW t \in Tasks,
         BeginExecution(t) \/ Collect(t) \/ GiveUp(t) \/ AskForHelp(t) \/ CompleteExecution(t),
         NEW b, b = batch'
  PROVE  \A i \in 1 .. Len(b) : LineTrue(b, i) /\ b[i].kind # "robot_started"
<1>1. AtRest /\ current = t /\ ~IsTerminal(t) /\ ~Blocked(t) /\ Unconfirmed(t) = {}
  BY DEF BeginExecution, Collect, GiveUp, AskForHelp, CompleteExecution, CanAdvance
<1>2. /\ TaskSound(t) /\ Unfinished(t) /\ AcceptedHere(t) /\ ~cond.awaitingHuman
      /\ task[t].step # 0 => task[t].started
      /\ t \in announced
  BY <1>1, AdvanceFacts
<1>3. ViewInv
  BY DEF RobotInv
<1>4. CASE BeginExecution(t)
  <2>1. ~task[t].started
    BY <1>4 DEF BeginExecution, ExecutionInv, RunsRemembered
  <2>2. PICK m : m = LineBegun(t)
    OBVIOUS
  <2>3. m.kind = "execution_started" /\ m.task = t
    BY <2>2 DEF LineBegun
  <2>4. ASSUME NEW c, c[1] = m PROVE LineTrue(c, 1)
    BY <1>2, <2>1, <2>3, <2>4 DEF LineTrue
  <2>5. CASE b = << m >>
    <3>1. Len(b) = 1 /\ b[1] = m
      BY <2>5
    <3>2. \A i \in 1 .. Len(b) : i = 1
      BY <3>1
    <3> QED
      BY <2>3, <2>4, <3>1, <3>2
  <2>6. CASE b = << m, Report(t, "PROGRESS", "none") >>
    <3>1. b[1] = m /\ b[2] = Report(t, "PROGRESS", "none")
      BY <2>6
    <3>2. LineTrue(b, 1)
      BY <2>4, <3>1
    <3>3. LineTrue(b, 2) /\ b[2].kind = "task_event_persisted"
      BY <1>2, <1>3, <2>3, <3>1, ReportBehind
    <3> QED
      BY <2>3, <2>6, <3>1, <3>2, <3>3, PairTrue
  <2> QED
    BY <1>4, <2>2, <2>5, <2>6 DEF BeginExecution
<1>5. CASE Collect(t)
  <2>1. PICK m : m = LineProgress(t, 2)
    OBVIOUS
  <2>2. m.kind = "execution_progress" /\ m.task = t /\ task[t].started
    BY <1>2, <1>5, <2>1 DEF LineProgress, Collect
  <2>3. b = << m, Report(t, "PROGRESS", "none") >>
    BY <1>5, <2>1 DEF Collect
  <2>4. b[1] = m /\ b[2] = Report(t, "PROGRESS", "none")
    BY <2>3
  <2>5. LineTrue(b, 1)
    BY <2>2, <2>4 DEF LineTrue
  <2>6. LineTrue(b, 2) /\ b[2].kind = "task_event_persisted"
    BY <1>2, <1>3, <2>2, <2>4, ReportBehind
  <2> QED
    BY <2>2, <2>3, <2>4, <2>5, <2>6, PairTrue
<1>6. CASE GiveUp(t)
  <2>1. PICK m : m = LineCompleted(t, "FAILED")
    OBVIOUS
  <2>2. m.kind = "execution_completed" /\ m.task = t /\ m.outcome = "FAILED"
    BY <2>1 DEF LineCompleted
  <2>3. b = << m, Report(t, "FAILED", "cannot_continue") >>
    BY <1>6, <2>1 DEF GiveUp
  <2>4. b[1] = m /\ b[2] = Report(t, "FAILED", "cannot_continue")
    BY <2>3
  <2>5. LineTrue(b, 1)
    BY <1>2, <2>2, <2>4 DEF LineTrue
  <2>6. LineTrue(b, 2) /\ b[2].kind = "task_event_persisted"
    BY <1>2, <1>3, <2>2, <2>4, ReportBehind
  <2> QED
    BY <2>2, <2>3, <2>4, <2>5, <2>6, PairTrue
<1>7. CASE AskForHelp(t)
  <2>1. PICK r : r = IF behavior = "help_unknown_fault" THEN "unknown_fault" ELSE "energy_insufficient"
    OBVIOUS
  <2>2. b = << Report(t, "ASSISTANCE_REQUIRED", r) >> /\ task[t].step = 1
    BY <1>7, <2>1 DEF AskForHelp
  <2>3. task[t].started /\ task[t].completed # "SUCCEEDED" /\ r # "not_started_after_restart"
    BY <1>2, <2>1, <2>2 DEF TaskSound, FieldsAgree
  <2> QED
    BY <1>2, <1>3, <2>2, <2>3, LoneReport
<1>8. CASE CompleteExecution(t)
  <2>1. PICK m : m = LineCompleted(t, "SUCCEEDED")
    OBVIOUS
  <2>2. m.kind = "execution_completed" /\ m.task = t /\ m.outcome = "SUCCEEDED"
    BY <2>1 DEF LineCompleted
  <2>3. b = << m, Report(t, "SUCCEEDED", "none") >> /\ task[t].started /\ task[t].step = 2
    BY <1>2, <1>8, <2>1 DEF CompleteExecution
  <2>4. b[1] = m /\ b[2] = Report(t, "SUCCEEDED", "none")
    BY <2>3
  <2>5. LineTrue(b, 1)
    BY <1>1, <1>2, <2>2, <2>3, <2>4 DEF LineTrue
  <2>6. LineTrue(b, 2) /\ b[2].kind = "task_event_persisted"
    BY <1>1, <1>2, <1>3, <2>2, <2>3, <2>4, ReportBehind
  <2> QED
    BY <2>2, <2>3, <2>4, <2>5, <2>6, PairTrue
<1> QED
  BY <1>4, <1>5, <1>6, <1>7, <1>8

\* A step of the execution.
LEMMA ExecutionStepKeeps ==
  ASSUME TypeOK, TypeOK', RobotInv, ExecutionInv, ExecutionStep
  PROVE  RobotInv'
<1>1. PICK t \in Tasks : \/ BeginExecution(t) \/ Collect(t) \/ GiveUp(t) \/ AskForHelp(t)
                         \/ CompleteExecution(t) \/ LeaveAfterAccept(t)
  BY DEF ExecutionStep
<1>2. PICK b : b = batch'
  OBVIOUS
<1>3. UNCHANGED <<journalVars, runs, announced, acked, handling, replay, out, sending>>
  BY DEF ExecutionStep, worldVars
<1>4. batch = <<>> /\ pc = "idle" /\ pc' \in {"exiting", "drain"}
  BY <1>1 DEF BeginExecution, Collect, GiveUp, AskForHelp, CompleteExecution, LeaveAfterAccept, CanAdvance, AtRest
<1>5. \A i \in 1 .. Len(b) : LineTrue(b, i) /\ b[i].kind # "robot_started"
  <2>1. CASE LeaveAfterAccept(t)
    <3>1. 1 .. Len(b) = {}
      BY <1>2, <1>4, <2>1, EmptySeq DEF LeaveAfterAccept
    <3> QED
      BY <3>1
  <2>2. CASE BeginExecution(t) \/ Collect(t) \/ GiveUp(t) \/ AskForHelp(t) \/ CompleteExecution(t)
    BY <1>2, <2>2, StepPlanned
  <2> QED
    BY <1>1, <2>1, <2>2
<1> QED
  BY <1>2, <1>3, <1>4, <1>5, PlanKeeps

\* The lines of a reset: the task at hand is given up first.
LEMMA ResetPlanned ==
  ASSUME TypeOK, RobotInv, NEW b, b = ResetLines
  PROVE  PlanTrue(b)
<1>1. ViewInv
  BY DEF RobotInv
<1>2. PICK z : z = LineReset
  OBVIOUS
<1>3. z.kind = "simulate_reset"
  BY <1>2 DEF LineReset
<1>4. CASE current = NoTask
  <2>1. b = <<>> \o << z >>
    BY <1>2, <1>4 DEF ResetLines, Abandoned
  <2>2. b = << z >>
    BY <2>1
  <2>3. Len(b) = 1 /\ b[1] = z
    BY <2>2
  <2>4. 1 .. 1 - 1 = {}
    OBVIOUS
  <2>5. LineTrue(b, 1)
    BY <1>3, <1>4, <2>3, <2>4 DEF LineTrue
  <2>6. \A i \in 1 .. Len(b) : i = 1
    BY <2>3
  <2> QED
    BY <1>3, <2>3, <2>5, <2>6 DEF PlanTrue
<1>5. CASE current # NoTask
  <2>1. PICK t \in Tasks : t = current
    BY <1>5 DEF TypeOK
  <2>2. Unfinished(t)
    BY <1>1, <2>1 DEF ViewInv, TaskSound, FieldsAgree
  <2>3. ~IsTerminal(current)
    BY <2>1, <2>2 DEF Unfinished
  <2>4. PICK m, l : m = LineCompleted(t, "FAILED") /\ l = Report(t, "FAILED", "cannot_continue")
    OBVIOUS
  <2>5. Abandoned = << m, l >>
    BY <1>5, <2>1, <2>3, <2>4 DEF Abandoned
  <2>6. b = << m, l >> \o << z >>
    BY <1>2, <2>5 DEF ResetLines
  <2>7. Len(b) = 3 /\ b[1] = m /\ b[2] = l /\ b[3] = z
    BY <2>6
  <2>8. m.kind = "execution_completed" /\ m.task = t /\ m.outcome = "FAILED"
    BY <2>4 DEF LineCompleted
  <2>9. LineTrue(b, 1)
    BY <2>2, <2>7, <2>8 DEF LineTrue
  <2>10. LineTrue(b, 2) /\ ReportLine(b[2], t) /\ b[2].event.kind = "FAILED" /\ b[2].kind = "task_event_persisted"
    <3>1. b[1] = m /\ b[2] = Report(t, "FAILED", "cannot_continue")
      BY <2>4, <2>7
    <3> QED
      BY <1>1, <2>2, <2>8, <3>1, ReportBehind
  <2>11. LineTrue(b, 3)
    <3>1. \A j \in 1 .. 3 - 1 : j = 1 \/ j = 2
      OBVIOUS
    <3>2. \A j \in 1 .. 3 - 1 : b[j].kind \in {"execution_completed", "task_event_persisted"}
      BY <2>7, <2>8, <2>10, <3>1
    <3>3. 3 - 1 = 2 /\ 3 # 1
      OBVIOUS
    <3> QED
      BY <1>3, <2>1, <2>7, <2>10, <3>2, <3>3 DEF LineTrue
  <2>12. \A i \in 1 .. Len(b) : i = 1 \/ i = 2 \/ i = 3
    BY <2>7
  <2> QED
    BY <1>3, <2>7, <2>8, <2>9, <2>10, <2>11, <2>12 DEF PlanTrue
<1> QED
  BY <1>4, <1>5

\* The operator's reset.
LEMMA SimulateResetKeeps ==
  ASSUME TypeOK, TypeOK', RobotInv, SimulateReset
  PROVE  RobotInv'
<1>1. PICK b : b = batch'
  OBVIOUS
<1>2. /\ UNCHANGED <<journalVars, runs, announced, acked, handling, replay, out, sending>>
      /\ batch = <<>> /\ pc = "idle" /\ pc' = "drain" /\ b = ResetLines
  BY <1>1 DEF SimulateReset, AtRest, worldVars
<1>3. PlanTrue(b)
  BY <1>2, ResetPlanned
<1>4. \A i \in 1 .. Len(b) : LineTrue(b, i) /\ b[i].kind # "robot_started"
  BY <1>3 DEF PlanTrue
<1> QED
  BY <1>1, <1>2, <1>4, PlanKeeps

-----------------------------------------------------------------------------
(* Publishing.                                                             *)

\* Pending publications of the history are in the history.
LEMMA PendingKnown ==
  ASSUME TypeOK, NEW p \in PendingPublications, p.ref = 0
  PROVE  p.event \in EventsOf(p.task)
<1>1. CASE p \in UNION {{Publication(t, e, 0, FALSE) : e \in Unconfirmed(t)} : t \in Tasks}
  <2>0. PICK t \in Tasks : p \in {Publication(t, e, 0, FALSE) : e \in Unconfirmed(t)}
    BY <1>1
  <2>1. PICK e \in Unconfirmed(t) : p = Publication(t, e, 0, FALSE)
    BY <2>0
  <2>2. p.event = e /\ p.task = t
    BY <2>1 DEF Publication
  <2> QED
    BY <2>1, <2>2 DEF Unconfirmed
<1>2. CASE p \in {Publication(rejections[n].task, rejections[n].event, n, FALSE) :
                    n \in {m \in 1 .. Len(rejections) : m \notin confirmedRejections}}
  <2>1. PICK n \in 1 .. Len(rejections) : p = Publication(rejections[n].task, rejections[n].event, n, FALSE)
    BY <1>2
  <2>2. p.ref = n
    BY <2>1 DEF Publication
  <2>3. n # 0
    BY <2>1
  <2> QED
    BY <2>2, <2>3
<1> QED
  BY <1>1, <1>2 DEF PendingPublications

\* A step of the publisher: the journal, the batch and the stage stay.
LEMMA PublisherKeeps ==
  ASSUME TypeOK, TypeOK', RobotInv, batch = <<>>, pc \notin {"down", "pass1", "pass2", "pass3"},
         pc' \notin {"down", "pass1", "pass2", "pass3"}, UNCHANGED <<journalVars, runs, acked, handling>>,
         announced \subseteq announced', LinesInv',
         \A p \in replay' \cup out' \cup {sending'} : p.task # NoTask /\ p.ref = 0 => p.event \in EventsOf(p.task)
  PROVE  RobotInv'
<1>1. UNCHANGED <<boot, task, cond, current, rejections, runs, acked, handling>>
  BY DEF journalVars
<1>2. ViewInv'
  BY <1>1, ViewStays DEF RobotInv
<1>3. StageInv'
  BY <1>1, Settled, StageHolds DEF RobotInv
<1>4. TrafficInv'
  <2>1. 1 .. Len(batch) = {}
    BY EmptySeq
  <2>2. \A u \in acked' : Answered(u) \/ RefusedOnRequest(u)
    BY <1>1 DEF RobotInv, TrafficInv
  <2>3. handling' # NoTask => Answered(handling') \/ RefusedOnRequest(handling')
    BY <1>1, <2>1 DEF RobotInv, TrafficInv
  <2> QED
    BY <1>1, <2>2, <2>3, TrafficHolds
<1> QED
  BY <1>2, <1>3, <1>4 DEF RobotInv

\* Collecting, sending, and waiting for the broker.
LEMMA PublishingKeeps ==
  ASSUME TypeOK, TypeOK', RobotInv, PublishPending \/ SendNext \/ HopOneConfirmed \/ HopOneTimeout
  PROVE  RobotInv'
<1>0. \A p \in replay \cup out \cup {sending} : p.task # NoTask /\ p.ref = 0 => p.event \in EventsOf(p.task)
  BY DEF RobotInv, TrafficInv
<1>1. CASE PublishPending
  <2>1. /\ batch = <<>> /\ batch' = <<>> /\ pc \in {"drain", "idle"} /\ pc' \in {"idle", "publishing"}
        /\ UNCHANGED <<journalVars, runs, acked, handling>> /\ announced' = announced
        /\ out' = replay \cup PendingPublications /\ replay' = {} /\ sending' = sending
    BY <1>1 DEF PublishPending, worldVars
  <2>2. LinesInv'
    <3>1. 1 .. Len(batch') = {}
      BY <2>1, EmptySeq
    <3> QED
      BY <3>1 DEF LinesInv
  <2>3. \A p \in replay' \cup out' \cup {sending'} : p.task # NoTask /\ p.ref = 0 => p.event \in EventsOf(p.task)
    BY <1>0, <2>1, PendingKnown
  <2> QED
    BY <2>1, <2>2, <2>3, PublisherKeeps
<1>2. CASE SendNext
  <2>1. /\ batch = <<>> /\ batch' = <<>> /\ pc = "publishing" /\ pc' = "awaiting"
        /\ UNCHANGED <<journalVars, runs, acked, handling>> /\ announced' = announced
        /\ sending' \in out /\ out' \subseteq out /\ replay' = replay
    BY <1>2 DEF SendNext, worldVars
  <2>2. LinesInv'
    <3>1. 1 .. Len(batch') = {}
      BY <2>1, EmptySeq
    <3> QED
      BY <3>1 DEF LinesInv
  <2>3. \A p \in replay' \cup out' \cup {sending'} : p.task # NoTask /\ p.ref = 0 => p.event \in EventsOf(p.task)
    BY <1>0, <2>1
  <2> QED
    BY <2>1, <2>2, <2>3, PublisherKeeps
<1>3. CASE HopOneConfirmed \/ HopOneTimeout
  <2>1. /\ batch = <<>> /\ pc = "awaiting" /\ pc' \in {"idle", "publishing"} /\ UNCHANGED <<journalVars, runs, acked, handling>>
        /\ sending' = NoPublication /\ UNCHANGED <<replay, out, task>> /\ announced \subseteq announced'
    BY <1>3 DEF HopOneConfirmed, HopOneTimeout, EndWait, journalVars
  <2>2. LinesInv'
    <3>1. CASE batch' = <<>>
      <4>1. 1 .. Len(batch') = {}
        BY <3>1, EmptySeq
      <4> QED
        BY <4>1 DEF LinesInv
    <3>2. CASE batch' # <<>>
      <4>1. ~sending.again /\ batch' = << LineConfirmed(sending) >> /\ announced' = announced \cup Announces(sending)
        BY <1>3, <2>1, <3>2 DEF HopOneConfirmed, HopOneTimeout
      <4>2. sending \in Publications
        BY <4>1 DEF TypeOK, NoPublication, Publication
      <4>3. PICK t \in Tasks, e \in Event : t = sending.task /\ e = sending.event
        BY <4>2 DEF Publications
      <4>4. PICK b : b = << LineConfirmed(sending) >>
        OBVIOUS
      <4>5. /\ Len(b) = 1 /\ b[1].kind = "event_publish_confirmed" /\ b[1].task = t /\ b[1].key = Key(e) /\ b[1].ref = sending.ref
            /\ b = batch'
        BY <4>1, <4>3, <4>4 DEF LineConfirmed
      <4>6. b[1].ref = 0 => e \in EventsOf(t)
        BY <1>0, <4>3, <4>5, ConstantsAssumption
      <4>7. e.kind = "ACCEPTED" => t \in announced'
        BY <4>1, <4>3 DEF Announces
      <4>8. EventsOf(t)' = EventsOf(t) /\ \A x : Key(x)' = Key(x)
        BY <2>1 DEF EventsOf, Key
      <4>9. LineTrue(batch, 1)'
        BY <4>5, <4>6, <4>7, <4>8 DEF LineTrue
      <4>10. \A i \in 1 .. Len(b) : i = 1
        BY <4>5
      <4> QED
        BY <4>5, <4>9, <4>10 DEF LinesInv
    <3> QED
      BY <3>1, <3>2
  <2>3. sending'.task = NoTask
    BY <2>1 DEF NoPublication, Publication
  <2>4. \A p \in replay' \cup out' \cup {sending'} : p.task # NoTask /\ p.ref = 0 => p.event \in EventsOf(p.task)
    BY <1>0, <2>1, <2>3
  <2> QED
    BY <2>1, <2>2, <2>4, PublisherKeeps
<1> QED
  BY <1>1, <1>2, <1>3

-----------------------------------------------------------------------------
(* Leaving, crashing, losing the journal; the clock.                       *)

\* The end of the process keeps the journal and forgets everything else.
LEMMA StopKeeps ==
  ASSUME TypeOK, TypeOK', RobotInv, Leave \/ Crash
  PROVE  RobotInv'
<1>1. /\ UNCHANGED <<journalVars, runs, acked>> /\ UNCHANGED <<task, rejections, acked>> /\ announced \subseteq announced'
      /\ pc' = "down" /\ batch' = <<>> /\ handling' = NoTask /\ replay' = {} /\ out' = {} /\ sending' = NoPublication
  BY DEF Leave, Crash, StopProcess, journalVars
<1>2. ViewInv'
  BY <1>1, ViewStays DEF RobotInv
<1>3. LinesInv'
  <2>1. 1 .. Len(batch') = {}
    BY <1>1, EmptySeq
  <2> QED
    BY <2>1 DEF LinesInv
<1>4. StageInv'
  BY <1>1 DEF StageInv
<1>5. TrafficInv'
  <2>1. \A u \in acked' : Answered(u)' \/ RefusedOnRequest(u)'
    BY <1>1 DEF RobotInv, TrafficInv, Answered, Decided, RefusedOnRequest
  <2>2. sending'.task = NoTask
    BY <1>1 DEF NoPublication, Publication
  <2> QED
    BY <1>1, <2>1, <2>2 DEF TrafficInv
<1> QED
  BY <1>2, <1>3, <1>4, <1>5 DEF RobotInv

\* A lost journal leaves a robot that knows nothing and promises nothing.
LEMMA LossKeeps ==
  ASSUME TypeOK, TypeOK', RobotInv, LoseJournal
  PROVE  RobotInv'
<1>1. /\ pc = "down" /\ UNCHANGED <<pc, batch, handling, replay, out, sending, runs, announced>>
      /\ boot' = 0 /\ task' = [t \in Tasks |-> UnknownTask] /\ cond' = ClearCondition /\ current' = NoTask /\ acked' = {}
  BY DEF LoseJournal, processVars
<1>2. ASSUME NEW t \in Tasks PROVE TaskSound(t)' /\ task'[t].decision = "unknown"
  <2>1. task'[t] = UnknownTask
    BY <1>1
  <2>2. /\ task'[t].decision = "unknown" /\ task'[t].events = <<>> /\ task'[t].confirmed = {} /\ task'[t].started = FALSE
        /\ task'[t].completed = "no" /\ task'[t].terminal = "none" /\ task'[t].step = 0
    BY <2>1 DEF UnknownTask
  <2>3. EventsOf(t)' = {} /\ Linear(t)'
    <3>1. 1 .. Len(task'[t].events) = {}
      BY <2>2, EmptySeq
    <3> QED
      BY <3>1 DEF EventsOf, Linear
  <2>4. ~IsTerminal(t)' /\ ~Accepted(t)' /\ ~Unfinished(t)'
    BY <2>2 DEF IsTerminal, Accepted, Unfinished
  <2>5. Untouched(t)' /\ current' # t /\ ~Blocked(t)'
    BY <1>1, <2>2, <2>3, ConstantsAssumption DEF Untouched, Blocked
  <2>6. FieldsAgree(t)'
    BY <2>2, <2>3, <2>4, <2>5 DEF FieldsAgree
  <2>7. ConfirmedKnown(t)'
    BY <1>1, <2>2, <2>3 DEF RobotInv, ViewInv, TaskSound, ConfirmedKnown
  <2> QED
    BY <2>2, <2>3, <2>6, <2>7 DEF TaskSound
<1>3. ViewInv'
  BY <1>2 DEF ViewInv, OneUndecided
<1>4. /\ batch' = <<>> /\ replay' = {} /\ out' = {} /\ sending' = NoPublication /\ handling' = NoTask
  BY <1>1 DEF RobotInv, TrafficInv
<1>5. LinesInv'
  <2>1. 1 .. Len(batch') = {}
    BY <1>4, EmptySeq
  <2> QED
    BY <2>1 DEF LinesInv
<1>6. StageInv'
  BY <1>1 DEF StageInv
<1>7. TrafficInv'
  <2>1. sending'.task = NoTask
    BY <1>4 DEF NoPublication, Publication
  <2> QED
    BY <1>1, <1>4, <2>1 DEF TrafficInv
<1> QED
  BY <1>3, <1>5, <1>6, <1>7 DEF RobotInv

\* What the invariant speaks of is left alone.
LEMMA IdleKeeps ==
  ASSUME TypeOK, TypeOK', RobotInv, UNCHANGED vars \/ \E t \in Tasks : Expire(t)
  PROVE  RobotInv'
<1>1. /\ UNCHANGED <<journalVars, runs, announced>>
      /\ UNCHANGED <<boot, task, cond, current, rejections, pc, batch, handling, replay, out, sending, announced, acked>>
  BY DEF Expire, vars, journalVars, processVars, worldVars
<1>2. ViewInv'
  BY <1>1, ViewStays DEF RobotInv
<1>3. PICK b : b = batch
  OBVIOUS
<1>4. LinesInv'
  <2>1. \A i \in 1 .. Len(b) : LineTrue(b, i)
    BY <1>3 DEF RobotInv, LinesInv
  <2> QED
    BY <1>1, <1>3, <2>1, PlannedLines
<1>5. StageInv'
  <2>1. ASSUME NEW t \in Tasks
        PROVE  /\ Unfinished(t)' = Unfinished(t) /\ AcceptedHere(t)' = AcceptedHere(t) /\ Reporting(t)' = Reporting(t)
               /\ Decided(t)' = Decided(t) /\ Answered(t)' = Answered(t)
    BY <1>1 DEF Unfinished, Accepted, IsTerminal, AcceptedHere, EventsOf, Decided, Answered, Reporting
  <2> QED
    BY <1>1, <2>1 DEF RobotInv, StageInv
<1>6. TrafficInv'
  <2>1. \A u : EventsOf(u)' = EventsOf(u) /\ Answered(u)' = Answered(u) /\ RefusedOnRequest(u)' = RefusedOnRequest(u)
    BY <1>1 DEF EventsOf, Answered, Decided, RefusedOnRequest
  <2>2. handling' # NoTask =>
          \/ Answered(handling)' \/ RefusedOnRequest(handling)'
          \/ \E i \in 1 .. Len(batch') : batch'[i].kind = "task_event_persisted" /\ batch'[i].task = handling'
    BY <1>1 DEF RobotInv, TrafficInv, Answered, Decided, RefusedOnRequest
  <2>3. \A p \in replay' \cup out' \cup {sending'} : p.task # NoTask /\ p.ref = 0 => p.event \in EventsOf(p.task)'
    BY <1>1, <2>1 DEF RobotInv, TrafficInv
  <2>4. \A u \in acked' : Answered(u)' \/ RefusedOnRequest(u)'
    BY <1>1, <2>1 DEF RobotInv, TrafficInv
  <2>5. pc' = "down" => batch' = <<>> /\ replay' = {} /\ out' = {} /\ sending' = NoPublication /\ handling' = NoTask
    BY <1>1 DEF RobotInv, TrafficInv
  <2> QED
    BY <2>2, <2>3, <2>4, <2>5 DEF TrafficInv
<1> QED
  BY <1>2, <1>4, <1>5, <1>6 DEF RobotInv

-----------------------------------------------------------------------------
(* The invariant, and what it says.                                        *)

\* Every line the robot writes is right when it is written, whatever the crashes, restarts
\* and losses of the journal left behind (the executor's rules and the device process).
THEOREM RobotInvariant == Spec => []RobotInv
<1>1. Init => RobotInv
  <2> SUFFICES ASSUME Init PROVE RobotInv
    OBVIOUS
  <2>0. /\ pc = "down" /\ boot = 0 /\ task = [t \in Tasks |-> UnknownTask] /\ current = NoTask /\ acked = {}
        /\ batch = <<>> /\ replay = {} /\ out = {} /\ sending = NoPublication /\ handling = NoTask
        /\ runs = [t \in Tasks |-> 0]
    BY DEF Init
  <2>1. ASSUME NEW t \in Tasks PROVE TaskSound(t) /\ task[t].decision = "unknown"
    <3>1. /\ task[t].decision = "unknown" /\ task[t].events = <<>> /\ task[t].confirmed = {} /\ task[t].started = FALSE
          /\ task[t].completed = "no" /\ task[t].terminal = "none" /\ task[t].step = 0
      BY <2>0 DEF UnknownTask
    <3>2. EventsOf(t) = {} /\ Linear(t)
      <4>1. 1 .. Len(task[t].events) = {}
        BY <3>1, EmptySeq
      <4> QED
        BY <4>1 DEF EventsOf, Linear
    <3>3. ~IsTerminal(t) /\ ~Accepted(t) /\ ~Unfinished(t)
      BY <3>1 DEF IsTerminal, Accepted, Unfinished
    <3>4. Untouched(t) /\ current # t /\ ~Blocked(t)
      BY <2>0, <3>1, <3>2, ConstantsAssumption DEF Untouched, Blocked
    <3>5. FieldsAgree(t)
      BY <3>1, <3>2, <3>3, <3>4 DEF FieldsAgree
    <3>6. ConfirmedKnown(t)
      BY <2>0, <3>1, <3>2 DEF ConfirmedKnown
    <3> QED
      BY <3>1, <3>2, <3>5, <3>6 DEF TaskSound
  <2>2. ViewInv
    BY <2>1 DEF ViewInv, OneUndecided
  <2>3. LinesInv
    BY <2>0, NoLines
  <2>4. StageInv
    BY <2>0 DEF StageInv
  <2>5. TrafficInv
    <3>1. sending.task = NoTask
      BY <2>0 DEF NoPublication, Publication
    <3> QED
      BY <2>0, <3>1 DEF TrafficInv
  <2> QED
    BY <2>2, <2>3, <2>4, <2>5 DEF RobotInv
<1>2. TypeOK /\ TypeOK' /\ ExecutionInv /\ RobotInv /\ [Next]_vars => RobotInv'
  <2> SUFFICES ASSUME TypeOK, TypeOK', ExecutionInv, RobotInv, [Next]_vars PROVE RobotInv'
    OBVIOUS
  <2>1. CASE WriteLine
    BY <2>1, WriteLineKeeps
  <2>2. CASE Boot
    BY <2>2, BootKeeps
  <2>3. CASE \E t \in Tasks : Receive(t)
    BY <2>3, ReceiveKeeps
  <2>4. CASE AckRequest
    BY <2>4, AckKeeps
  <2>5. CASE ExecutionStep
    BY <2>5, ExecutionStepKeeps
  <2>6. CASE SimulateReset
    BY <2>6, SimulateResetKeeps
  <2>7. CASE PublishPending \/ SendNext \/ HopOneConfirmed \/ HopOneTimeout
    BY <2>7, PublishingKeeps
  <2>8. CASE Leave \/ Crash
    BY <2>8, StopKeeps
  <2>9. CASE LoseJournal
    BY <2>9, LossKeeps
  <2>10. CASE UNCHANGED vars \/ \E t \in Tasks : Expire(t)
    BY <2>10, IdleKeeps
  <2> QED
    BY <2>1, <2>2, <2>3, <2>4, <2>5, <2>6, <2>7, <2>8, <2>9, <2>10 DEF Next
<1> QED
  BY <1>1, <1>2, TypeCorrect, ExecutionInvariant, PTL DEF Spec

\* What the robot reports is what happened: every event is borne out by the journal, a
\* history has one order and one end, and no request that the broker forgot is unanswered.
THEOREM ReportsHold == Spec => []ReportsAreTrue
<1>1. RobotInv => ReportsAreTrue
  <2> SUFFICES ASSUME RobotInv PROVE ReportsAreTrue
    OBVIOUS
  <2>1. TerminalMatchesEvidence
    BY DEF RobotInv, ViewInv, TaskSound, EventTrue, TerminalMatchesEvidence
  <2>2. HistoryIsLinear
    BY DEF RobotInv, ViewInv, TaskSound, Linear, HistoryIsLinear
  <2>3. AckedRequestIsAnswered
    BY DEF RobotInv, TrafficInv, Answered, Decided, RefusedOnRequest, AckedRequestIsAnswered
  <2> QED
    BY <2>1, <2>2, <2>3 DEF ReportsAreTrue
<1> QED
  BY <1>1, RobotInvariant, PTL

\* The robot is engaged for one task at a time, and moves for none whose acceptance the
\* broker does not hold.
THEOREM MotionHolds == Spec => []MotionIsGuarded
<1>1. RobotInv => MotionIsGuarded
  <2> SUFFICES ASSUME RobotInv PROVE MotionIsGuarded
    OBVIOUS
  <2>1. OneTaskAtATime
    BY DEF RobotInv, ViewInv, TaskSound, FieldsAgree, OneUndecided, OneTaskAtATime
  <2>2. NoMotionBeforeAcceptanceIsOut
    BY DEF RobotInv, ViewInv, TaskSound, ConfirmedKnown, NoMotionBeforeAcceptanceIsOut
  <2> QED
    BY <2>1, <2>2 DEF MotionIsGuarded
<1> QED
  BY <1>1, RobotInvariant, PTL

\* Only the writing of a line and the loss of the file change the journal.
LEMMA JournalStays ==
  ASSUME [Next]_vars, ~WriteLine, ~LoseJournal
  PROVE  UNCHANGED <<journalVars, runs>>
<1>1. CASE UNCHANGED vars
  BY <1>1 DEF vars, worldVars
<1>2. CASE Boot
  BY <1>2 DEF Boot, StartProvisioning, StartAgain, Recover, FinishBoot, worldVars
<1>3. CASE \E t \in Tasks : Receive(t) \/ Expire(t)
  BY <1>3 DEF Receive, Expire, worldVars
<1>4. CASE AckRequest \/ ExecutionStep \/ SimulateReset
  BY <1>4 DEF AckRequest, ExecutionStep, SimulateReset, worldVars
<1>5. CASE PublishPending \/ SendNext \/ HopOneConfirmed \/ HopOneTimeout
  BY <1>5 DEF PublishPending, SendNext, HopOneConfirmed, HopOneTimeout, EndWait, worldVars
<1>6. CASE Leave \/ Crash
  BY <1>6 DEF Leave, Crash, StopProcess, worldVars
<1> QED
  BY <1>1, <1>2, <1>3, <1>4, <1>5, <1>6 DEF Next

\* An event of a protected robot leaves the protection and its facts in place.
LEMMA EventProtects ==
  ASSUME TypeOK, RobotInv, WriteLine, WriteEvent, cond.awaitingHuman
  PROVE  /\ cond'.awaitingHuman
         /\ cond.needsRecharge = "yes" => cond'.needsRecharge = "yes"
         /\ cond.availability = "FAULTED" => cond'.availability = "FAULTED"
<1>1. PICK t \in Tasks, e \in Event : t = Line.task /\ e = Line.event
  BY EventEffect DEF RobotInv
<1>2. cond' = ConditionAfter(cond, e) /\ cond \in Condition
  BY <1>1, EventEffect DEF RobotInv, TypeOK
<1>3. /\ TaskSound(t) /\ ~IsTerminal(t) /\ e.kind \in EventKinds
      /\ e.kind \notin {"ACCEPTED", "REJECTED"} => Accepted(t)
      /\ e.kind = "SUCCEEDED" => ~Blocked(t)
      /\ e.kind = "ASSISTANCE_REQUIRED" => ~cond.awaitingHuman
      /\ e.kind \in {"FAILED", "INCONCLUSIVE"} => e.reason \notin {"unknown_fault", "energy_insufficient"}
  BY <1>1, HeadReport
<1>4. e.kind # "SUCCEEDED"
  BY <1>3 DEF TaskSound, FieldsAgree, Unfinished
<1>5. CASE e.kind \in {"FAILED", "INCONCLUSIVE"}
  <2>1. cond' = Protect(cond, e.reason)
    BY <1>2, <1>5 DEF ConditionAfter
  <2>2. PICK r : r = e.reason /\ r \notin {"unknown_fault", "energy_insufficient"}
    BY <1>3, <1>5
  <2> QED
    BY <1>2, <2>1, <2>2 DEF Protect, Condition
<1>6. CASE e.kind \in {"ACCEPTED", "PROGRESS", "REJECTED"}
  <2>1. cond' = cond
    BY <1>2, <1>6, ConditionEffect
  <2> QED
    BY <2>1
<1> QED
  BY <1>3, <1>4, <1>5, <1>6 DEF EventKinds, TerminalKinds

\* No other line touches the protection of a protected robot, the reset excepted.
LEMMA LineProtects ==
  ASSUME TypeOK, RobotInv, WriteLine, cond.awaitingHuman, Line.kind # "simulate_reset", ~WriteEvent
  PROVE  cond' = cond
<1>1. CASE WriteDecision
  <2>1. DecisionSound(batch, 1) /\ Line = batch[1]
    BY <1>1, HeadLine DEF RobotInv, LineTrue, WriteDecision
  <2>2. Line.decision # "accepted"
    BY <2>1 DEF DecisionSound
  <2> QED
    BY <1>1, <2>2 DEF WriteDecision
<1>2. CASE ~WriteDecision
  BY <1>2 DEF WriteLine, WriteProvisioned, WriteStarted, WriteReceived, WriteRequestRejection,
     WriteConfirmed, WriteExecutionStarted, WriteExecutionProgress, WriteExecutionCompleted, WriteReset
<1> QED
  BY <1>1, <1>2

\* An execution starts only as its line says it may.
LEMMA StartsAreAllowed ==
  ASSUME TypeOK, RobotInv, WriteLine, NEW u \in Tasks, runs'[u] > runs[u]
  PROVE  Accepted(u) /\ ~IsTerminal(u) /\ ~cond.awaitingHuman /\ AcceptedHere(u)
<1>1. runs[u] \in Nat
  BY DEF TypeOK
<1>2. WriteExecutionStarted
  <2>1. runs' # runs
    BY <1>1
  <2> QED
    BY <2>1 DEF WriteLine, WriteProvisioned, WriteStarted, WriteReceived, WriteDecision, WriteRequestRejection, WriteEvent,
       WriteConfirmed, WriteExecutionProgress, WriteExecutionCompleted, WriteReset
<1>3. Line.task = u /\ Line.kind = "execution_started"
  BY <1>1, <1>2, StartEffect DEF RobotInv
<1>4. Unfinished(u) /\ ~cond.awaitingHuman /\ AcceptedHere(u)
  BY <1>3, HeadLine DEF RobotInv, LineTrue
<1> QED
  BY <1>4 DEF Unfinished

\* A crash and a restart are no way around protection and no way to resume an execution:
\* only the operator's reset lifts protection (or the loss of the journal), and an execution
\* starts in the boot that accepted its task.
THEOREM RestartsHold == Spec => RestartsAreSafe
<1>1. TypeOK /\ TypeOK' /\ RobotInv /\ [Next]_vars => [ProtectionNeedsReset /\ ExecutionStaysInItsBoot]_vars
  <2> SUFFICES ASSUME TypeOK, TypeOK', RobotInv, [Next]_vars PROVE ProtectionNeedsReset /\ ExecutionStaysInItsBoot
    OBVIOUS
  <2>1. CASE WriteLine
    <3>1. ProtectionNeedsReset
      <4>1. batch # <<>>
        BY <2>1 DEF WriteLine
      <4> QED
        BY <2>1, <4>1, EventProtects, LineProtects DEF ProtectionNeedsReset
    <3>2. ExecutionStaysInItsBoot
      BY <2>1, StartsAreAllowed DEF ExecutionStaysInItsBoot, AcceptedHere
    <3> QED
      BY <3>1, <3>2
  <2>2. CASE LoseJournal
    BY <2>2 DEF LoseJournal, ProtectionNeedsReset, ExecutionStaysInItsBoot, TypeOK
  <2>3. CASE ~WriteLine /\ ~LoseJournal
    <3>1. cond' = cond /\ runs' = runs
      BY <2>3, JournalStays DEF journalVars
    <3> QED
      BY <3>1 DEF ProtectionNeedsReset, ExecutionStaysInItsBoot, TypeOK
  <2> QED
    BY <2>1, <2>2, <2>3
<1> QED
  BY <1>1, TypeCorrect, RobotInvariant, PTL DEF Spec, RestartsAreSafe

-----------------------------------------------------------------------------
(* The robot keeps TaskPromise.                                            *)

Phases == [t \in Tasks |-> Phase(t)]
Ran    == {t \in Tasks : runs[t] > 0}

\* The phase that TaskPromise sees, in terms of the view.
LEMMA PhaseFacts ==
  ASSUME TypeOK, NEW t \in Tasks
  PROVE  /\ task[t].decision = "unknown" => Phase(t) = "unseen"
         /\ task[t].decision = "undecided" => Phase(t) = "undecided"
         /\ task[t].decision = "rejected" => Phase(t) = "refused"
         /\ Accepted(t) /\ IsTerminal(t) => Phase(t) = "ended"
         /\ Unfinished(t) /\ task[t].started => Phase(t) = "running"
         /\ Unfinished(t) /\ ~task[t].started => Phase(t) = "accepted"
         /\ Phase(t) \in {"accepted", "running"} => Unfinished(t)
<1>1. task[t].decision \in {"unknown", "undecided", "accepted", "rejected"}
  BY TaskFields DEF TaskView
<1>2. CASE ~Accepted(t)
  BY <1>1, <1>2 DEF Phase, Accepted, Unfinished
<1>3. CASE Accepted(t)
  BY <1>3 DEF Phase, Accepted, Unfinished
<1> QED
  BY <1>2, <1>3

\* The same facts, of the state that a step reaches.
LEMMA NextPhase ==
  ASSUME TypeOK', NEW t \in Tasks
  PROVE  /\ task'[t].decision = "undecided" => Phase(t)' = "undecided"
         /\ task'[t].decision = "rejected" => Phase(t)' = "refused"
         /\ Accepted(t)' /\ IsTerminal(t)' => Phase(t)' = "ended"
         /\ Unfinished(t)' /\ task'[t].started => Phase(t)' = "running"
         /\ Unfinished(t)' /\ ~task'[t].started => Phase(t)' = "accepted"
<1>1. task'[t] \in TaskView
  BY DEF TypeOK
<1>2. task'[t].decision \in {"unknown", "undecided", "accepted", "rejected"}
  BY <1>1 DEF TaskView
<1>3. CASE ~Accepted(t)'
  BY <1>2, <1>3 DEF Phase, Accepted, Unfinished
<1>4. CASE Accepted(t)'
  BY <1>4 DEF Phase, Accepted, Unfinished
<1> QED
  BY <1>3, <1>4

\* The phase of a task follows its decision, its end and its start.
LEMMA SamePhase ==
  ASSUME NEW t \in Tasks, task'[t].decision = task[t].decision, task'[t].terminal = task[t].terminal,
         task'[t].started = task[t].started
  PROVE  Phase(t)' = Phase(t)
BY DEF Phase, Accepted, Unfinished, IsTerminal

\* One task changes its phase.
LEMMA OnePhase ==
  ASSUME NEW t \in Tasks, \A u \in Tasks : u # t => task'[u] = task[u]
  PROVE  Phases' = [Phases EXCEPT ![t] = Phase(t)']
<1>1. \A u \in Tasks : u # t => Phase(u)' = Phase(u)
  BY SamePhase
<1> QED
  BY <1>1 DEF Phases

\* TaskPromise does not see a step that moves no task and neither protects nor releases.
LEMMA Unseen ==
  ASSUME Phases' = Phases, cond'.awaitingHuman = cond.awaitingHuman, Ran' = Ran
  PROVE  UNCHANGED Promise!vars
BY DEF Promise!vars, Phases, Ran

\* While the robot is engaged for no task, TaskPromise is idle.
LEMMA NothingEngaged ==
  ASSUME TypeOK, ViewInv, current = NoTask
  PROVE  \A t \in Tasks : Phases[t] \notin {"accepted", "running"}
<1>1. ASSUME NEW t \in Tasks PROVE Phase(t) \notin {"accepted", "running"}
  <2>1. ~Unfinished(t)
    BY ConstantsAssumption DEF ViewInv, TaskSound, FieldsAgree
  <2> QED
    BY <2>1, PhaseFacts
<1> QED
  BY <1>1 DEF Phases

\* A task that has a line in flight for this incarnation has not run unless the view says so.
LEMMA NotRun ==
  ASSUME TypeOK, ExecutionInv, NEW t \in Tasks, task[t].decision # "unknown", ~task[t].started
  PROVE  runs[t] = 0 /\ t \notin Ran
<1>1. runs[t] \in Nat
  BY DEF TypeOK
<1>2. ~(runs[t] > 0)
  BY DEF ExecutionInv, RunsRemembered
<1> QED
  BY <1>1, <1>2 DEF Ran

\* A request is taken up.
LEMMA ReceivedPromised ==
  ASSUME TypeOK, TypeOK', RobotInv, WriteLine, WriteReceived
  PROVE  Promise!Next
<1>1. PICK t \in Tasks : t = Line.task
  BY ReceivedEffect DEF RobotInv
<1>2. task'[t] = NewTask /\ (\A u \in Tasks : u # t => task'[u] = task[u]) /\ UNCHANGED <<cond, runs>>
      /\ Line.kind = "request_received"
  BY <1>1, ReceivedEffect DEF RobotInv
<1>3. task[t].decision = "unknown" /\ task'[t].decision = "undecided"
  <2>1. LineTrue(batch, 1) /\ Line = batch[1]
    BY HeadLine DEF RobotInv
  <2> QED
    BY <1>1, <1>2, <2>1 DEF LineTrue, NewTask, UnknownTask
<1>4. Phases[t] = "unseen" /\ Phase(t)' = "undecided"
  BY <1>3, PhaseFacts, NextPhase DEF Phases
<1>5. Phases' = [Phases EXCEPT ![t] = "undecided"]
  BY <1>2, <1>4, OnePhase
<1>6. Promise!Take(t)
  BY <1>2, <1>4, <1>5 DEF Promise!Take, Promise!Move, Phases
<1> QED
  BY <1>6 DEF Promise!Next

\* A request is decided.
LEMMA DecisionPromised ==
  ASSUME TypeOK, TypeOK', RobotInv, ExecutionInv, WriteLine, WriteDecision
  PROVE  Promise!Next
<1>1. PICK t \in Tasks, d \in {"accepted", "rejected"} : t = Line.task /\ d = Line.decision
  BY DecisionEffect DEF RobotInv
<1>2. /\ task'[t].decision = d /\ task'[t].terminal = task[t].terminal /\ task'[t].started = task[t].started
      /\ \A u \in Tasks : u # t => task'[u] = task[u]
      /\ cond'.awaitingHuman = cond.awaitingHuman /\ runs' = runs /\ Line.kind = "task_decision"
  BY <1>1, DecisionEffect DEF RobotInv
<1>3. task[t].decision = "undecided" /\ (d = "accepted" => current = NoTask /\ ~cond.awaitingHuman)
  <2>1. DecisionSound(batch, 1) /\ Line = batch[1]
    BY <1>2, HeadLine DEF RobotInv, LineTrue
  <2> QED
    BY <1>1, <2>1 DEF DecisionSound
<1>4. ~task[t].started /\ ~IsTerminal(t)
  BY <1>3, UntouchedFacts DEF RobotInv, Decided, Untouched
<1>5. Phases[t] = "undecided"
  BY <1>3, PhaseFacts DEF Phases
<1>6. CASE d = "rejected"
  <2>1. Phase(t)' = "refused"
    BY <1>2, <1>6, NextPhase
  <2>2. Phases' = [Phases EXCEPT ![t] = "refused"]
    BY <1>2, <2>1, OnePhase
  <2>3. Promise!Refuse(t)
    BY <1>2, <1>5, <2>2 DEF Promise!Refuse, Promise!Move, Phases
  <2> QED
    BY <2>3 DEF Promise!Next
<1>7. CASE d = "accepted"
  <2>1. Phase(t)' = "accepted"
    <3>1. Unfinished(t)' /\ ~task'[t].started
      BY <1>2, <1>4, <1>7 DEF Unfinished, Accepted, IsTerminal
    <3> QED
      BY <3>1, NextPhase
  <2>2. Phases' = [Phases EXCEPT ![t] = "accepted"]
    BY <1>2, <2>1, OnePhase
  <2>3. \A u \in Tasks : Phases[u] \notin {"accepted", "running"}
    BY <1>3, <1>7, NothingEngaged DEF RobotInv
  <2>4. t \notin Ran
    BY <1>3, <1>4, NotRun
  <2>5. Promise!Accept(t)
    BY <1>2, <1>3, <1>5, <1>7, <2>2, <2>3, <2>4
    DEF Promise!Accept, Promise!Move, Promise!Idle, Promise!Engaged, Phases, Ran
  <2> QED
    BY <2>5 DEF Promise!Next
<1> QED
  BY <1>6, <1>7

\* An execution starts.
LEMMA StartPromised ==
  ASSUME TypeOK, TypeOK', RobotInv, ExecutionInv, WriteLine, WriteExecutionStarted
  PROVE  Promise!Next
<1>1. PICK t \in Tasks : t = Line.task
  BY StartEffect DEF RobotInv
<1>2. /\ task'[t].started = TRUE /\ task'[t].decision = task[t].decision /\ task'[t].terminal = task[t].terminal
      /\ \A u \in Tasks : u # t => task'[u] = task[u] /\ runs'[u] = runs[u]
      /\ runs'[t] = runs[t] + 1 /\ cond' = cond /\ Line.kind = "execution_started"
  BY <1>1, StartEffect DEF RobotInv
<1>3. Unfinished(t) /\ ~task[t].started /\ ~cond.awaitingHuman
  BY <1>1, <1>2, HeadLine DEF RobotInv, LineTrue
<1>4. Phases[t] = "accepted" /\ Phase(t)' = "running"
  <2>1. Unfinished(t)'
    BY <1>2, <1>3 DEF Unfinished, Accepted, IsTerminal
  <2> QED
    BY <1>2, <1>3, <2>1, PhaseFacts, NextPhase DEF Phases
<1>5. Phases' = [Phases EXCEPT ![t] = "running"]
  BY <1>2, <1>4, OnePhase
<1>6. t \notin Ran /\ Ran' = Ran \cup {t}
  <2>1. task[t].decision # "unknown"
    BY <1>3 DEF Unfinished, Accepted
  <2>2. runs[t] = 0 /\ t \notin Ran
    BY <1>3, <2>1, NotRun
  <2>3. runs'[t] > 0
    BY <1>2, <2>2
  <2> QED
    BY <1>2, <2>2, <2>3 DEF Ran
<1>7. Promise!Run(t)
  BY <1>2, <1>3, <1>4, <1>5, <1>6 DEF Promise!Run, Promise!Move, Phases, Ran
<1> QED
  BY <1>7 DEF Promise!Next

\* A report ends a task, asks for help or is not seen.
LEMMA EventPromised ==
  ASSUME TypeOK, TypeOK', RobotInv, WriteLine, WriteEvent
  PROVE  [Promise!Next]_Promise!vars
<1>1. PICK t \in Tasks, e \in Event : t = Line.task /\ e = Line.event
  BY EventEffect DEF RobotInv
<1>2. /\ task'[t].terminal = IF e.kind \in TerminalKinds THEN e.kind ELSE task[t].terminal
      /\ task'[t].decision = task[t].decision /\ task'[t].started = task[t].started
      /\ \A u \in Tasks : u # t => task'[u] = task[u]
      /\ cond' = ConditionAfter(cond, e) /\ runs' = runs /\ cond \in Condition
  BY <1>1, EventEffect DEF RobotInv, TypeOK
<1>3. /\ TaskSound(t) /\ ~IsTerminal(t) /\ e.kind \in EventKinds
      /\ e.kind = "REJECTED" => ~Accepted(t)
      /\ e.kind \notin {"ACCEPTED", "REJECTED"} => Accepted(t)
      /\ e.kind = "SUCCEEDED" => task[t].started /\ ~Blocked(t)
      /\ e.kind = "ASSISTANCE_REQUIRED" => task[t].started
      /\ Decided(t)
  BY <1>1, HeadReport
<1>4. /\ e.kind = "SUCCEEDED" => ~cond'.awaitingHuman
      /\ e.kind \in {"ASSISTANCE_REQUIRED", "FAILED", "INCONCLUSIVE"} => cond'.awaitingHuman
      /\ e.kind \in {"ACCEPTED", "PROGRESS", "REJECTED"} => cond' = cond
  BY <1>2, ConditionEffect
<1>5. Ran' = Ran
  BY <1>2 DEF Ran
<1>6. cond.awaitingHuman \in BOOLEAN /\ cond'.awaitingHuman \in BOOLEAN
  BY DEF TypeOK, Condition
<1>7. CASE e.kind \in {"ACCEPTED", "PROGRESS", "REJECTED"}
  <2>1. Phase(t)' = Phase(t)
    <3>1. CASE e.kind = "REJECTED"
      <4>1. task[t].decision = "rejected" /\ task'[t].decision = "rejected"
        BY <1>2, <1>3, <3>1 DEF Decided, Accepted
      <4> QED
        BY <4>1, PhaseFacts, NextPhase
    <3>2. CASE e.kind # "REJECTED"
      <4>1. task'[t].terminal = task[t].terminal
        BY <1>2, <1>7, <3>2 DEF TerminalKinds
      <4> QED
        BY <1>2, <4>1, SamePhase
    <3> QED
      BY <3>1, <3>2
  <2>2. Phases' = Phases
    BY <1>2, <2>1, OnePhase DEF Phases
  <2> QED
    BY <1>4, <1>5, <1>7, <2>2, Unseen
<1>8. CASE e.kind = "ASSISTANCE_REQUIRED"
  <2>1. Phase(t)' = Phase(t)
    BY <1>2, <1>8, SamePhase DEF TerminalKinds
  <2>2. Phases' = Phases
    BY <1>2, <2>1, OnePhase DEF Phases
  <2>3. Phases[t] = "running"
    BY <1>3, <1>8, PhaseFacts DEF Phases, Unfinished
  <2>4. cond'.awaitingHuman = TRUE
    BY <1>4, <1>6, <1>8
  <2>5. Promise!AskForHelp(t)
    BY <1>5, <2>2, <2>3, <2>4 DEF Promise!AskForHelp, Phases, Ran
  <2> QED
    BY <2>5 DEF Promise!Next
<1>9. CASE e.kind \in {"SUCCEEDED", "FAILED", "INCONCLUSIVE"}
  <2>1. Unfinished(t) /\ Phases[t] \in {"accepted", "running"} /\ (task[t].started => Phases[t] = "running")
    BY <1>3, <1>9, PhaseFacts DEF Phases, Unfinished
  <2>2. Phase(t)' = "ended"
    <3>1. Accepted(t)' /\ IsTerminal(t)'
      BY <1>2, <1>3, <1>9 DEF Accepted, IsTerminal, TerminalKinds
    <3> QED
      BY <3>1, NextPhase
  <2>3. Phases' = [Phases EXCEPT ![t] = "ended"]
    BY <1>2, <2>2, OnePhase
  <2>4. CASE e.kind = "SUCCEEDED"
    <3>1. ~cond.awaitingHuman /\ cond'.awaitingHuman = cond.awaitingHuman
      BY <1>3, <1>4, <1>6, <2>1, <2>4 DEF TaskSound, FieldsAgree
    <3>2. Phases[t] \in {"running"}
      BY <1>3, <2>1, <2>4
    <3>3. Promise!Succeed(t)
      BY <1>5, <2>3, <3>1, <3>2 DEF Promise!Succeed, Promise!Move, Phases, Ran
    <3> QED
      BY <3>3 DEF Promise!Next
  <2>5. CASE e.kind # "SUCCEEDED"
    <3>1. cond'.awaitingHuman = TRUE
      BY <1>4, <1>6, <1>9, <2>5
    <3>2. Promise!EndOtherwise(t)
      BY <1>5, <2>1, <2>3, <3>1 DEF Promise!EndOtherwise, Promise!Move, Phases, Ran
    <3> QED
      BY <3>2 DEF Promise!Next
  <2> QED
    BY <2>4, <2>5
<1> QED
  BY <1>3, <1>7, <1>8, <1>9 DEF EventKinds, TerminalKinds

\* The operator releases an idle robot.
LEMMA ResetPromised ==
  ASSUME TypeOK, RobotInv, WriteLine, WriteReset
  PROVE  Promise!Next
<1>1. task' = task /\ runs' = runs /\ cond' = ClearCondition /\ Line.kind = "simulate_reset"
  BY DEF WriteReset
<1>2. current = NoTask
  BY <1>1, HeadLine DEF RobotInv, LineTrue
<1>3. \A u \in Tasks : Phases[u] \notin {"accepted", "running"}
  BY <1>2, NothingEngaged DEF RobotInv
<1>4. Phases' = Phases /\ Ran' = Ran /\ cond'.awaitingHuman = FALSE
  BY <1>1 DEF Phases, Phase, Accepted, Unfinished, IsTerminal, Ran, ClearCondition
<1>5. Promise!Release
  BY <1>3, <1>4 DEF Promise!Release, Promise!Idle, Promise!Engaged, Phases, Ran
<1> QED
  BY <1>5 DEF Promise!Next

\* Lines that move no task are not seen.
LEMMA QuietPromised ==
  ASSUME TypeOK, RobotInv, WriteLine,
         \/ WriteProvisioned \/ WriteStarted \/ WriteRequestRejection \/ WriteConfirmed
         \/ WriteExecutionProgress \/ WriteExecutionCompleted
  PROVE  UNCHANGED Promise!vars
<1>1. UNCHANGED <<cond, runs>>
  BY DEF WriteProvisioned, WriteStarted, WriteRequestRejection, WriteConfirmed, WriteExecutionProgress, WriteExecutionCompleted
<1>2. \A u \in Tasks : /\ task'[u].decision = task[u].decision /\ task'[u].terminal = task[u].terminal
                       /\ task'[u].started = task[u].started
  <2>1. CASE WriteProvisioned \/ WriteStarted \/ WriteRequestRejection
    BY <2>1 DEF WriteProvisioned, WriteStarted, WriteRequestRejection
  <2>2. CASE WriteConfirmed
    <3>1. CASE Line.ref = 0
      BY <2>2, <3>1, ConfirmedEffect DEF RobotInv
    <3>2. CASE Line.ref # 0
      BY <2>2, <3>2 DEF WriteConfirmed
    <3> QED
      BY <3>1, <3>2
  <2>3. CASE WriteExecutionProgress
    BY <2>3, ProgressEffect DEF RobotInv
  <2>4. CASE WriteExecutionCompleted
    BY <2>4, CompletedEffect DEF RobotInv
  <2> QED
    BY <2>1, <2>2, <2>3, <2>4
<1>3. Phases' = Phases
  BY <1>2, SamePhase DEF Phases
<1>4. Ran' = Ran
  BY <1>1 DEF Ran
<1> QED
  BY <1>1, <1>3, <1>4, Unseen

\* The robot that lost its journal has forgotten, and what it did is not undone.
LEMMA LossPromised ==
  ASSUME LoseJournal
  PROVE  Promise!Next
<1>1. task' = [t \in Tasks |-> UnknownTask] /\ runs' = runs /\ cond' = ClearCondition
  BY DEF LoseJournal
<1>2. \A t \in Tasks : Phase(t)' = "unseen"
  BY <1>1 DEF Phase, Accepted, Unfinished, UnknownTask
<1>3. Phases' = [t \in Tasks |-> "unseen"] /\ Ran' = Ran /\ cond'.awaitingHuman = FALSE
  BY <1>1, <1>2 DEF Phases, Ran, ClearCondition
<1>4. Promise!Forget
  BY <1>3 DEF Promise!Forget, Phases, Ran
<1> QED
  BY <1>4 DEF Promise!Next

\* Whatever crashes, restarts, duplicates, resets and losses of the journal do, every step
\* of the robot is one that TaskPromise allows, or one it does not see.
THEOREM PromiseHolds == Spec => PromiseKept
<1>1. Init => Promise!Init
  <2> SUFFICES ASSUME Init PROVE Promise!Init
    OBVIOUS
  <2>1. task = [t \in Tasks |-> UnknownTask] /\ runs = [t \in Tasks |-> 0] /\ cond = ClearCondition
    BY DEF Init
  <2>2. \A t \in Tasks : Phase(t) = "unseen"
    BY <2>1 DEF Phase, Accepted, Unfinished, UnknownTask
  <2>3. [t \in Tasks |-> Phase(t)] = [t \in Tasks |-> "unseen"] /\ {t \in Tasks : runs[t] > 0} = {}
        /\ cond.awaitingHuman = FALSE
    BY <2>1, <2>2 DEF ClearCondition
  <2> QED
    BY <2>3 DEF Promise!Init
<1>2. TypeOK /\ TypeOK' /\ ExecutionInv /\ RobotInv /\ [Next]_vars => [Promise!Next]_Promise!vars
  <2> SUFFICES ASSUME TypeOK, TypeOK', ExecutionInv, RobotInv, [Next]_vars PROVE [Promise!Next]_Promise!vars
    OBVIOUS
  <2>1. CASE WriteLine
    <3>1. CASE WriteReceived \/ WriteDecision \/ WriteExecutionStarted \/ WriteReset
      BY <2>1, <3>1, ReceivedPromised, DecisionPromised, StartPromised, ResetPromised
    <3>2. CASE WriteEvent
      BY <2>1, <3>2, EventPromised
    <3>3. CASE \/ WriteProvisioned \/ WriteStarted \/ WriteRequestRejection \/ WriteConfirmed
               \/ WriteExecutionProgress \/ WriteExecutionCompleted
      BY <2>1, <3>3, QuietPromised
    <3> QED
      BY <2>1, <3>1, <3>2, <3>3 DEF WriteLine
  <2>2. CASE LoseJournal
    BY <2>2, LossPromised
  <2>3. CASE ~WriteLine /\ ~LoseJournal
    <3>1. task' = task /\ cond' = cond /\ runs' = runs
      BY <2>3, JournalStays DEF journalVars
    <3>2. Phases' = Phases /\ Ran' = Ran
      BY <3>1, SamePhase DEF Phases, Ran
    <3> QED
      BY <3>1, <3>2, Unseen
  <2> QED
    BY <2>1, <2>2, <2>3
<1> QED
  BY <1>1, <1>2, TypeCorrect, ExecutionInvariant, RobotInvariant, PTL DEF Spec, PromiseKept, Promise!Spec
=============================================================================
