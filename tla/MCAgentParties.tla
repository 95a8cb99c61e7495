--------------------------- MODULE MCAgentParties ---------------------------
(***************************************************************************)
(* AgentRuntime for TLC; the first state chooses which of two it is:       *)
(*   upgrades  one instance over three frames of any kind, restarted with  *)
(*             other configurations, appends that stop half-way            *)
(*   pair      two instances over the same stores and source, two good     *)
(*             frames, called once and again                               *)
(***************************************************************************)
EXTENDS MCAgentRuntime

CONSTANTS r1, r2

VARIABLE party

Pair == INSTANCE AgentRuntime WITH
  Runtimes <- {r1, r2}, NumFrames <- 2, Kinds <- {"good"}, Configs <- OneConfig,
  RunPolicies <- {"once"}, MaxFaults <- 0, MaxTorn <- 0,
  MaxLostAcks <- 1, MaxAttempts <- 2

PartyInit ==
  \/ party = "upgrades" /\ Init
  \/ party = "pair" /\ Pair!Init

PartyNext ==
  /\ UNCHANGED party
  /\ \/ party = "upgrades" /\ Next
     \/ party = "pair" /\ Pair!Next

PartySpec == PartyInit /\ [][PartyNext]_<<vars, party>>

(* Whichever it is keeps the evidence.                                     *)
EitherKeepsEvidence == IF party = "upgrades" THEN EvidenceIsKept ELSE Pair!EvidenceIsKept
=============================================================================
