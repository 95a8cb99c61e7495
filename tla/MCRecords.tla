------------------------------ MODULE MCRecords ------------------------------
(***************************************************************************)
(* Three models that share nothing, in one run: which of them a behaviour  *)
(* belongs to is fixed in its first state, the variables of the others do  *)
(* not move.  Each is explored as if it were alone.                        *)
(*   journal      two processes that share one journal                     *)
(*   ledger       the event ledger, two queues and a recorder              *)
(*   store        the manifest store at one identity                       *)
(***************************************************************************)
EXTENDS JournalFile, PilotLedger, ManifestStore, TLC

VARIABLE part

Symmetric == Permutations(Processes)

Sites2 == [a1 |-> "site", a2 |-> "other"]
Scopes == [q1 |-> None, q2 |-> "site"]
OneOrTwo == {[issued |-> {"a1"}, lines |-> 5], [issued |-> {"a1", "a2"}, lines |-> 3]}

-----------------------------------------------------------------------------
\* Nothing written yet, for the others.
JournalOff == Init
LedgerOff == LedgerInit /\ plan = [issued |-> {"a1"}, lines |-> 5]
StoreOff == StoreInit /\ entry = NoManifest

RecordsInit ==
    \/ part = "journal" /\ Init /\ LedgerOff /\ StoreOff
    \/ part = "ledger" /\ LedgerInit /\ JournalOff /\ StoreOff
    \/ part = "store" /\ StoreInit /\ JournalOff /\ LedgerOff

RecordsNext ==
    /\ UNCHANGED part
    /\ \/ part = "journal" /\ Next /\ UNCHANGED <<ledgerVars, storeVars>>
       \/ part = "ledger" /\ LedgerNext /\ UNCHANGED <<vars, storeVars>>
       \/ part = "store" /\ StoreNext /\ UNCHANGED <<vars, ledgerVars>>

RecordsSpec == RecordsInit /\ [][RecordsNext]_<<part, vars, ledgerVars, storeVars>>
==============================================================================
