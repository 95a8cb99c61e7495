----------------------------- MODULE TaskPromise -----------------------------
(***************************************************************************)
(* What one robot identity promises about the tasks it is sent, without    *)
(* journals, processes or messages: a task is decided once, at most one is *)
(* engaged at a time, none is engaged while the robot is held for a human, *)
(* and a task that ever ran never runs again -- not even when the robot    *)
(* has forgotten that it did.                                              *)
(***************************************************************************)
EXTENDS Naturals

CONSTANT Tasks

VARIABLES
  phase,   \* how far each task has come, as the robot remembers it
  held,    \* the robot awaits a human
  ran      \* the tasks that were ever executed

vars == <<phase, held, ran>>

Phases == {"unseen", "undecided", "refused", "accepted", "running", "ended"}

Engaged(t) == phase[t] \in {"accepted", "running"}

Idle == \A t \in Tasks : ~Engaged(t)

Init == phase = [t \in Tasks |-> "unseen"] /\ held = FALSE /\ ran = {}

Move(t, from, to) == phase[t] \in from /\ phase' = [phase EXCEPT ![t] = to]

Take(t) == Move(t, {"unseen"}, "undecided") /\ UNCHANGED <<held, ran>>

Refuse(t) == Move(t, {"undecided"}, "refused") /\ UNCHANGED <<held, ran>>

Accept(t) == Idle /\ ~held /\ t \notin ran /\ Move(t, {"undecided"}, "accepted") /\ UNCHANGED <<held, ran>>

Run(t) == ~held /\ t \notin ran /\ Move(t, {"accepted"}, "running") /\ ran' = ran \cup {t} /\ UNCHANGED held

AskForHelp(t) == phase[t] = "running" /\ held' = TRUE /\ UNCHANGED <<phase, ran>>

\* Only a task that ran can succeed; any other end holds the robot.
Succeed(t) == ~held /\ Move(t, {"running"}, "ended") /\ UNCHANGED <<held, ran>>

EndOtherwise(t) == Move(t, {"accepted", "running"}, "ended") /\ held' = TRUE /\ UNCHANGED ran

Release == held' = FALSE /\ Idle /\ UNCHANGED <<phase, ran>>

\* The robot's memory is lost; what it did is not undone.
Forget == phase' = [t \in Tasks |-> "unseen"] /\ held' = FALSE /\ UNCHANGED ran

Next ==
  \/ \E t \in Tasks : \/ Take(t) \/ Refuse(t) \/ Accept(t) \/ Run(t)
                      \/ AskForHelp(t) \/ Succeed(t) \/ EndOtherwise(t)
  \/ Release \/ Forget

Spec == Init /\ [][Next]_vars
=============================================================================
