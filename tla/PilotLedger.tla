---------------------------- MODULE PilotLedger ----------------------------
(***************************************************************************)
(* The event ledger of the pilot (nxt_pilot_ops/ledger.py), the rules of a *)
(* recommendation case (workflow.py) and the decision queues over it       *)
(* (nxt_agent_runtime/queue.py).                                           *)
(*                                                                         *)
(* The ledger is a file of events under an exclusive lock: an append reads *)
(* and verifies the whole file, applies the event to the cases found in it *)
(* and writes one line, in one step.  Those who append looked at the cases *)
(* in an earlier call, and others may have appended since.  A process that *)
(* dies while it writes leaves half a line.                                *)
(*                                                                         *)
(* Identities are digests of contents, so a content stands for its own     *)
(* identity.  Notes, reasons and operators are left out.                   *)
(***************************************************************************)
EXTENDS Integers, Sequences, FiniteSets, SequencesExt

CONSTANTS
    None,             \* Python's None
    Recommendations,  \* the recommendations that may be issued
    Queues,           \* decision queues, one per manager's process
    Recorders,        \* those who record requests, acknowledgements and outcomes
    SiteOf,           \* the site of a recommendation
    Scope,            \* the site a queue is restricted to, or None
    LastTime,         \* times are 0..LastTime
    Plans             \* bound: what is issued and how many lines are written: [issued, lines]

Actors == Queues \union Recorders
Times == 0..LastTime
Sites == {SiteOf[r] : r \in Recommendations}

VARIABLES
    file,      \* the events whose lines are complete
    halfLine,  \* the file ends with half a line
    seen,      \* what an actor saw last: [rec, case], or None
    deferred,  \* what a queue has put off; in memory, until some time
    plan       \* the bound this behaviour keeps to

ledgerVars == <<file, halfLine, seen, deferred, plan>>

-----------------------------------------------------------------------------
(* Events and cases: what may be in a field.                               *)

Versions == [rec : Recommendations, modifiedAt : Times \union {None}]
Issuances == [type : {"recommendation_issued"}, rec : Recommendations, site : Sites, at : Times]
Responses == [type : {"recommendation_response"}, rec : Recommendations, site : Sites, at : Times,
              kind : {"accept", "reject", "modify"}]
Requests == [type : {"execution_requested"}, rec : Recommendations, site : Sites, at : Times,
             effective : Versions]
Acknowledgements == [type : {"execution_acknowledged"}, rec : Recommendations, site : Sites, at : Times,
                     effective : Versions, request : Requests]
Outcomes == [type : {"recommendation_outcome"}, rec : Recommendations, site : Sites, at : Times,
             effective : Versions, start : Times \union {None}]
Events == Issuances \union Responses \union Requests \union Acknowledgements \union Outcomes
Cases == [issuedAt : Times, response : Responses \union {None}, request : Requests \union {None},
          acknowledgement : Acknowledgements \union {None}, outcome : Outcomes \union {None}]
Views == [rec : Recommendations, case : Cases]

ASSUME LedgerAssumption ==
    /\ LastTime \in Nat
    /\ Plans \subseteq [issued : SUBSET Recommendations, lines : Nat]
    /\ None \notin Times \union Events \union Cases \union Views

-----------------------------------------------------------------------------
(* Cases.                                                                  *)

NewCase(event) == [issuedAt |-> event.at, response |-> None, request |-> None,
                   acknowledgement |-> None, outcome |-> None]

\* What is to be executed: the recommendation, or what a modification made of it.
Effective(r, case) ==
    IF case.response # None /\ case.response.kind = "modify"
    THEN [rec |-> r, modifiedAt |-> case.response.at] ELSE [rec |-> r, modifiedAt |-> None]

Status(case) ==
    CASE case = None -> "none"
      [] case # None ->
           IF case.outcome # None THEN "outcome_recorded"
           ELSE IF case.acknowledgement # None THEN "execution_acknowledged"
           ELSE IF case.request # None THEN "execution_requested"
           ELSE IF case.response = None THEN "pending"
           ELSE [accept |-> "accepted", reject |-> "rejected", modify |-> "modified"][case.response.kind]

MayRespond(case, event) ==
    /\ case.response = None /\ case.outcome = None
    /\ event.at >= case.issuedAt

\* A plausible slip: any answer will do.
MayRequestAnyway(case, event) ==
    /\ case.request = None /\ case.outcome = None
    /\ case.response # None
    /\ event.effective = Effective(event.rec, case)
    /\ event.at >= case.response.at

MayRequest(case, event) ==
    /\ case.request = None /\ case.outcome = None
    /\ case.response # None /\ case.response.kind # "reject"
    /\ event.effective = Effective(event.rec, case)
    /\ event.at >= case.response.at

MayAcknowledge(case, event) ==
    /\ case.acknowledgement = None /\ case.outcome = None
    /\ case.request # None
    /\ event.effective = Effective(event.rec, case)
    /\ event.request = case.request
    /\ event.at >= case.request.at

LatestTime(case) ==
    CASE case.acknowledgement # None -> case.acknowledgement.at
      [] case.acknowledgement = None /\ case.request # None -> case.request.at
      [] OTHER -> case.response.at

\* A plausible slip: an execution needs no acknowledgement.
MayConcludeAnyway(case, event) ==
    /\ case.outcome = None /\ case.response # None
    /\ event.effective = Effective(event.rec, case)
    /\ event.at >= LatestTime(case)
    /\ event.start # None => case.response.kind # "reject"

MayConclude(case, event) ==
    /\ case.outcome = None /\ case.response # None
    /\ event.effective = Effective(event.rec, case)
    /\ event.at >= LatestTime(case)
    /\ event.start # None => /\ case.response.kind # "reject"
                             /\ case.acknowledgement # None
                             /\ event.start >= case.acknowledgement.at

-----------------------------------------------------------------------------
(* Events.                                                                 *)

Issued(r, at) == [type |-> "recommendation_issued", rec |-> r, site |-> SiteOf[r], at |-> at]
Response(r, site, kind, at) ==
    [type |-> "recommendation_response", rec |-> r, site |-> site, at |-> at, kind |-> kind]
Request(r, site, effective, at) ==
    [type |-> "execution_requested", rec |-> r, site |-> site, at |-> at, effective |-> effective]
Acknowledgement(r, site, effective, request, at) ==
    [type |-> "execution_acknowledged", rec |-> r, site |-> site, at |-> at,
     effective |-> effective, request |-> request]

\* An outcome has a start exactly when the recommendation was executed, and
\* nothing starts after it is recorded.
Outcome(r, site, effective, start, at) ==
    [type |-> "recommendation_outcome", rec |-> r, site |-> site, at |-> at,
     effective |-> effective, start |-> start]

\* The event may follow on these cases.
Admissible(cases, event) ==
    LET case == cases[event.rec] IN
    IF event.type = "recommendation_issued" THEN case = None
    ELSE /\ case # None
         /\ event.site = SiteOf[event.rec]
         /\ CASE event.type = "recommendation_response" -> MayRespond(case, event)
              [] event.type = "execution_requested" -> MayRequest(case, event)
              [] event.type = "execution_acknowledged" -> MayAcknowledge(case, event)
              [] event.type = "recommendation_outcome" -> MayConclude(case, event)

ApplyEvent(cases, event) ==
    [cases EXCEPT ![event.rec] =
        CASE event.type = "recommendation_issued" -> NewCase(event)
          [] event.type = "recommendation_response" -> [@ EXCEPT !.response = event]
          [] event.type = "execution_requested" -> [@ EXCEPT !.request = event]
          [] event.type = "execution_acknowledged" -> [@ EXCEPT !.acknowledgement = event]
          [] event.type = "recommendation_outcome" -> [@ EXCEPT !.outcome = event]]

NoCases == [r \in Recommendations |-> None]

\* The cases of a file, one event after another.
Replay(events) ==
    LET after[i \in 0..Len(events)] ==
          IF i = 0 THEN NoCases ELSE ApplyEvent(after[i - 1], events[i])
    IN after[Len(events)]

\* A reader verifies every line, and the last has to be complete.
ReadableAnyway == halfLine \in BOOLEAN  \* A plausible slip: half a line is passed over.

Readable == ~halfLine

-----------------------------------------------------------------------------
LedgerTypeOK ==
    /\ file \in Seq(Events) /\ halfLine \in BOOLEAN
    /\ seen \in [Actors -> Views \union {None}]
    /\ deferred \in [Queues -> SUBSET Recommendations]
    /\ plan \in Plans

LedgerInit ==
    /\ file = << >> /\ halfLine = FALSE /\ plan \in Plans
    /\ seen = [a \in Actors |-> None]
    /\ deferred = [q \in Queues |-> {}]

\* The event becomes a line, or the process dies in the middle of it.
WriteEvent(cases, event) ==
    /\ event \notin Range(file)
    /\ Admissible(cases, event)
    /\ \/ file' = Append(file, event) /\ halfLine' = halfLine
       \/ file' = file /\ halfLine' = TRUE

\* The file can be read and, within the bound, written.
Writable == Readable /\ Len(file) < plan.lines

\* The agent runtime issues a recommendation.
Issue(r) ==
    /\ Writable
    /\ LET cases == Replay(file) IN \E at \in Times : WriteEvent(cases, Issued(r, at))
    /\ UNCHANGED <<seen, deferred>>

\* An actor reads the ledger; a queue sees the recommendations of its site.
Look(a, r) ==
    /\ Readable /\ seen[a] = None
    /\ Replay(file)[r] # None
    /\ a \in Queues /\ Scope[a] # None => SiteOf[r] = Scope[a]
    /\ seen' = [seen EXCEPT ![a] = [rec |-> r, case |-> Replay(file)[r]]]
    /\ UNCHANGED <<file, halfLine, deferred>>

\* The actor's call ends: its event is in the file, or the ledger refused it.
Done(a) == seen' = [seen EXCEPT ![a] = None]

\* A manager answers.  The answer is built from what the queue saw; that the
\* case is still pending is for the ledger to say.  The deferral goes when the
\* append returns.
Respond(q) ==
    /\ Writable /\ seen[q] # None
    /\ LET cases == Replay(file) IN
       \E kind \in {"accept", "reject", "modify"}, at \in Times :
         /\ kind = "modify" => at >= seen[q].case.issuedAt
         /\ WriteEvent(cases, Response(seen[q].rec, SiteOf[seen[q].rec], kind, at))
    /\ deferred' = IF halfLine' THEN deferred ELSE [deferred EXCEPT ![q] = @ \ {seen[q].rec}]
    /\ Done(q)

\* A manager puts a pending recommendation off; nothing is written.
Defer(q) ==
    /\ seen[q] # None /\ Status(seen[q].case) = "pending"
    /\ deferred' = [deferred EXCEPT ![q] = @ \union {seen[q].rec}]
    /\ Done(q)
    /\ UNCHANGED <<file, halfLine>>

ClearDeferral(q, r) ==
    /\ r \in deferred[q]
    /\ deferred' = [deferred EXCEPT ![q] = @ \ {r}]
    /\ UNCHANGED <<file, halfLine, seen>>

\* What people record about the execution, from the case as they saw it.
RecordExecution(a) ==
    /\ Writable /\ seen[a] # None
    /\ LET r == seen[a].rec
           case == seen[a].case
           effective == Effective(r, case)
           cases == Replay(file)
       IN \E at \in Times, site \in Sites :
            \/ WriteEvent(cases, Request(r, site, effective, at))
            \/ /\ case.request # None
               /\ WriteEvent(cases, Acknowledgement(r, site, effective, case.request, at))
            \/ \E start \in (0..at) \union {None} : WriteEvent(cases, Outcome(r, site, effective, start, at))
    /\ Done(a)
    /\ UNCHANGED deferred

\* The ledger refuses, or the actor lets it be.
Abandon(a) == seen[a] # None /\ Done(a) /\ UNCHANGED <<file, halfLine, deferred>>

\* A queue's process restarts with no deferrals.
Restart(q) ==
    /\ seen[q] # None \/ deferred[q] # {}
    /\ deferred' = [deferred EXCEPT ![q] = {}]
    /\ Done(q)
    /\ UNCHANGED <<file, halfLine>>

LedgerStep ==
    \/ \E r \in plan.issued : Issue(r)
    \/ \E a \in Actors, r \in plan.issued : Look(a, r)
    \/ \E q \in Queues : Respond(q) \/ Defer(q) \/ Restart(q)
    \/ \E q \in Queues, r \in Recommendations : ClearDeferral(q, r)
    \/ \E a \in Recorders : RecordExecution(a)
    \/ \E a \in Actors : Abandon(a)

LedgerNext == LedgerStep /\ UNCHANGED plan

LedgerSpec == LedgerInit /\ [][LedgerNext]_ledgerVars

-----------------------------------------------------------------------------
\* However the callers interleave, the file tells one story of a
\* recommendation: at most one event of a kind, each after the events it needs
\* and not earlier in time, all about the version the answer left in force
\* (ledger.py, _apply_event; workflow.py, RecommendationCase).
OneStory ==
    \A i, j \in DOMAIN file :
      file[i].rec = file[j].rec =>
        /\ file[i].type = file[j].type => i = j
        /\ i < j => file[i].at <= file[j].at
        /\ file[i].type = "recommendation_response"
             /\ file[j].type \notin {"recommendation_issued", "recommendation_response"} =>
               /\ i < j
               /\ file[j].effective.modifiedAt =
                    (IF file[i].kind = "modify" THEN file[i].at ELSE None)

\* Before its i-th line the file has the accepting answer, the request and the
\* acknowledgement that an execution needs, all about one recommendation and site.
WasAcknowledged(i) ==
    \E a, b, c \in 1..(i - 1) :
      /\ a < b /\ b < c
      /\ file[a].rec = file[i].rec /\ file[a].type = "recommendation_response" /\ file[a].kind # "reject"
      /\ file[b].rec = file[i].rec /\ file[b].type = "execution_requested"
      /\ file[c].rec = file[i].rec /\ file[c].type = "execution_acknowledged"
      /\ file[c].request = file[b] /\ file[i].start >= file[c].at
      /\ {file[k].site : k \in {a, b, c, i}} = {SiteOf[file[i].rec]}

\* Nothing is reported as executed that was not issued, accepted or modified,
\* requested and acknowledged before, for this very recommendation and site.
ExecutedWasAcknowledged ==
    \A i \in DOMAIN file :
      file[i].type = "recommendation_outcome" /\ file[i].start # None => WasAcknowledged(i)

\* A queue only ever puts off recommendations of its own site.
DeferralsInScope ==
    \A q \in Queues : \A r \in deferred[q] : Scope[q] = None \/ SiteOf[r] = Scope[q]

\* The ledger can be believed, whoever wrote to it from whatever it had seen.
LedgerIsSound == LedgerTypeOK /\ OneStory /\ ExecutedWasAcknowledged /\ DeferralsInScope

\* Behind half a line nothing is written: no reader takes the file for whole,
\* and an append reads first (ledger.py, _read_hash_chain).
AppendsToWholeLines == halfLine => halfLine' /\ file' = file
NothingBehindHalfALine == [][AppendsToWholeLines]_ledgerVars

\* Every case goes through its life as promised.
statusOf == [r \in Recommendations |-> Status(Replay(file)[r])]
Lifecycle == INSTANCE CaseLifecycle WITH status <- statusOf
LifecycleKept == Lifecycle!Spec
=============================================================================
