--------------------------- MODULE MCAgentRuntime ---------------------------
(***************************************************************************)
(* Values for the constants of AgentRuntime.                               *)
(***************************************************************************)
EXTENDS AgentRuntime

OneConfig == {[build |-> 1, policy |-> 1, gate |-> "strict"]}

\* An upgrade of the assembler, of the policy, and a relaxed gate.
Upgrades == {[build |-> 1, policy |-> 1, gate |-> "strict"],
             [build |-> 2, policy |-> 1, gate |-> "strict"],
             [build |-> 1, policy |-> 2, gate |-> "lax"]}

=============================================================================
