--------------------------- MODULE ManifestStore ---------------------------
(***************************************************************************)
(* CommissioningStore (nxt_commissioning/store.py) at one                  *)
(* (site_id, deployment_id): several processes save manifests into the     *)
(* same path, any of them may be killed between two system calls, and the  *)
(* machine may lose power.  A directory entry is what a reader sees; it    *)
(* survives a loss of power for certain only once the directory was        *)
(* synced.  A manifest is opaque here: Valid says whether the commissioning *)
(* rules accept it and AtHome whether it carries the identity of the path. *)
(* load() changes nothing: it raises unless entry is in both.              *)
(***************************************************************************)
EXTENDS Naturals

CONSTANTS Savers, Manifests, Valid, AtHome, NoManifest, MaxSaves, MaxFailures

ASSUME StoreAssumption == NoManifest \notin Manifests

VARIABLES
    entry,      \* what manifest.json names
    synced,     \* what it names on the disk for certain
    temp,       \* each process's temporary file: NoManifest, "partial" or a manifest
    step,       \* where each process stands in save()
    saving,     \* the manifest it saves
    confirmed,  \* the manifests a save() that created the entry returned for
    repeated,   \* the manifests a save() that found the same bytes returned for
    saves, failures

storeVars == <<entry, synced, temp, step, saving, confirmed, repeated, saves, failures>>

(* A manifest some other tool put there may be anything.                   *)
StoreInit ==
    /\ entry \in Manifests \cup {NoManifest}
    /\ synced = entry
    /\ temp = [p \in Savers |-> NoManifest]
    /\ step = [p \in Savers |-> "idle"]
    /\ saving = [p \in Savers |-> NoManifest]
    /\ confirmed = {} /\ repeated = {}
    /\ saves = 0 /\ failures = 0

\* save() raises for an invalid manifest before it touches the disk, compares
\* with what is there, and only then writes.
Save(p, m) ==
    /\ step[p] = "idle" /\ saves < MaxSaves
    /\ m \in Valid \cap AtHome
    /\ saves' = saves + 1
    /\ IF entry = NoManifest
       THEN /\ step' = [step EXCEPT ![p] = "absent"]
            /\ saving' = [saving EXCEPT ![p] = m]
            /\ UNCHANGED repeated
       ELSE /\ repeated' = IF entry = m THEN repeated \cup {m} ELSE repeated
            /\ UNCHANGED <<step, saving>>
    /\ UNCHANGED <<entry, synced, temp, confirmed, failures>>

EndSave(p) ==
    /\ step' = [step EXCEPT ![p] = "idle"]
    /\ saving' = [saving EXCEPT ![p] = NoManifest]
    /\ temp' = [temp EXCEPT ![p] = NoManifest]

\* A plausible slip: replace whatever has the name.
LinkOver(p) ==
    /\ step[p] = "written"
    /\ entry' = temp[p]
    /\ step' = [step EXCEPT ![p] = "linked"]
    /\ UNCHANGED <<synced, saving, temp, confirmed, repeated, saves, failures>>

OpenTemporary(p) ==
    /\ step[p] = "absent"
    /\ temp' = [temp EXCEPT ![p] = "partial"]
    /\ step' = [step EXCEPT ![p] = "open"]
    /\ UNCHANGED <<entry, synced, saving, confirmed, repeated, saves, failures>>

\* Written, flushed and synced: the bytes outlive the power, wherever the name goes.
FillTemporary(p) ==
    /\ step[p] = "open"
    /\ temp' = [temp EXCEPT ![p] = saving[p]]
    /\ step' = [step EXCEPT ![p] = "written"]
    /\ UNCHANGED <<entry, synced, saving, confirmed, repeated, saves, failures>>

\* os.link fails when the name is taken; the winner's bytes are compared then.
Link(p) ==
    /\ step[p] = "written"
    /\ IF entry = NoManifest
       THEN /\ entry' = temp[p]
            /\ step' = [step EXCEPT ![p] = "linked"]
            /\ UNCHANGED <<saving, temp, repeated>>
       ELSE /\ repeated' = IF entry = saving[p] THEN repeated \cup {saving[p]} ELSE repeated
            /\ EndSave(p)
            /\ UNCHANGED entry
    /\ UNCHANGED <<synced, confirmed, saves, failures>>

SyncDirectory(p) ==
    /\ step[p] = "linked"
    /\ synced' = entry
    /\ confirmed' = confirmed \cup {saving[p]}
    /\ EndSave(p)
    /\ UNCHANGED <<entry, repeated, saves, failures>>

\* A killed process leaves its temporary file behind; nobody ever reads it.
Kill(p) ==
    /\ step[p] # "idle" /\ failures < MaxFailures
    /\ failures' = failures + 1
    /\ step' = [step EXCEPT ![p] = "idle"]
    /\ saving' = [saving EXCEPT ![p] = NoManifest]
    /\ UNCHANGED <<entry, synced, temp, confirmed, repeated, saves>>

\* An entry that was not synced may or may not be there afterwards.
LosePower ==
    /\ failures < MaxFailures
    /\ failures' = failures + 1
    /\ entry' \in {entry, synced}
    /\ synced' = entry'
    /\ step' = [p \in Savers |-> "idle"]
    /\ saving' = [p \in Savers |-> NoManifest]
    /\ UNCHANGED <<temp, confirmed, repeated, saves>>

StoreNext ==
    \/ \E p \in Savers :
          \/ \E m \in Manifests : Save(p, m)
          \/ OpenTemporary(p) \/ FillTemporary(p) \/ Link(p) \/ SyncDirectory(p) \/ Kill(p)
    \/ LosePower

StoreSpec == StoreInit /\ [][StoreNext]_storeVars

-----------------------------------------------------------------------------
StoreTypeOK ==
    /\ {entry, synced} \subseteq Manifests \cup {NoManifest}
    /\ temp \in [Savers -> Manifests \cup {NoManifest, "partial"}]
    /\ step \in [Savers -> {"idle", "absent", "open", "written", "linked"}]
    /\ saving \in [Savers -> Manifests \cup {NoManifest}]
    /\ confirmed \subseteq Manifests /\ repeated \subseteq Manifests

(* A manifest whose creator's save() returned is the manifest of this      *)
(* deployment from then on, through kills, rival savers and losses of      *)
(* power: link, then fsync of the directory, then return (store.py).       *)
ConfirmedIsTheManifest == \A m \in confirmed : entry = m /\ synced = m

(* What the store keeps: its fields hold what they may, and what save()    *)
(* confirmed is the manifest of the deployment (store.py, save).           *)
StoreIsSound == StoreTypeOK /\ ConfirmedIsTheManifest

(* Commissioning history is never rewritten: the entry changes only from   *)
(* nothing to a manifest, or, when the power goes before the directory was *)
(* synced, back to nothing (docs/commissioning_v0.md, "Writes are atomic   *)
(* and immutable by deployment identity").                                 *)
KeepsHistory == entry' = entry \/ entry = NoManifest \/ (entry' = NoManifest /\ synced = NoManifest)
HistoryIsNeverRewritten == [][KeepsHistory]_storeVars

(* The same promise as its users see it: no two different manifests are    *)
(* ever answered as saved for one deployment identity.                     *)
OneManifestPerDeployment == \A m, n \in confirmed \cup repeated : m = n
=============================================================================
