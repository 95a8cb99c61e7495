--------------------------- MODULE CaseLifecycle ---------------------------
(***************************************************************************)
(* What the event ledger promises of a recommendation: it is issued, it is *)
(* answered once, an accepted or modified one may be requested and then    *)
(* acknowledged, and an answered one may be closed with an outcome, after  *)
(* which nothing changes (CaseStatus in nxt_pilot_ops/workflow.py).        *)
(***************************************************************************)
CONSTANT Recommendations

VARIABLE status

Answers == {"accepted", "rejected", "modified"}
Open == Answers \union {"execution_requested", "execution_acknowledged"}
CaseStatus == {"none", "pending", "outcome_recorded"} \union Open

Init == status = [r \in Recommendations |-> "none"]

Move(r, from, to) == status[r] \in from /\ status' = [status EXCEPT ![r] = to]

\* One case moves on; a step that changes no status is none of them.
Next == \E r \in Recommendations :
    /\ status'[r] # status[r]
    /\ \/ Move(r, {"none"}, "pending")
       \/ \E answer \in Answers : Move(r, {"pending"}, answer)
       \/ Move(r, {"accepted", "modified"}, "execution_requested")
       \/ Move(r, {"execution_requested"}, "execution_acknowledged")
       \/ Move(r, Open, "outcome_recorded")

Spec == Init /\ [][Next]_status
=============================================================================
