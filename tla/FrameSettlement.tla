-------------------------- MODULE FrameSettlement --------------------------
(***************************************************************************)
(* What the agent runtime promises about the frames of its source: they    *)
(* are published in order under consecutive numbers, each is evaluated     *)
(* once and before the next is published, and a frame is acknowledged only *)
(* when it was evaluated and discarded only when it was never published.   *)
(***************************************************************************)
EXTENDS Naturals, Sequences

CONSTANTS Frames, FirstNumber

VARIABLES published,     \* sequence of [seq, frame]
          evaluated,     \* sequence of [seq, frame]
          acknowledged,  \* set of frames
          discarded      \* set of frames

vars == <<published, evaluated, acknowledged, discarded>>

FramesOf(s) == {s[i].frame : i \in 1 .. Len(s)}
Earlier(f) == {g \in Frames : g < f}

Init == published = <<>> /\ evaluated = <<>> /\ acknowledged = {} /\ discarded = {}

Publish(f) ==
  /\ Len(evaluated) = Len(published)
  /\ Earlier(f) \subseteq acknowledged \cup discarded /\ f \notin acknowledged \cup discarded
  /\ published' = Append(published, [seq |-> FirstNumber + Len(published), frame |-> f])
  /\ UNCHANGED <<evaluated, acknowledged, discarded>>

Evaluate ==
  /\ Len(evaluated) < Len(published)
  /\ evaluated' = Append(evaluated, published[Len(evaluated) + 1])
  /\ UNCHANGED <<published, acknowledged, discarded>>

Acknowledge(f) ==
  /\ f \in FramesOf(evaluated) /\ acknowledged' = acknowledged \cup {f}
  /\ UNCHANGED <<published, evaluated, discarded>>

Discard(f) ==
  /\ f \notin FramesOf(published) /\ discarded' = discarded \cup {f}
  /\ UNCHANGED <<published, evaluated, acknowledged>>

Next == Evaluate \/ \E f \in Frames : Publish(f) \/ Acknowledge(f) \/ Discard(f)

Spec == Init /\ [][Next]_vars

=============================================================================
