---------------------------- MODULE Checkpoints ----------------------------
(***************************************************************************)
(* The checkpoints of a training run: the trainer that saves and prunes    *)
(* them (rust/oftrain/src/train.rs), the sync loop that copies them to the *)
(* Hugging Face hub (rust/ofhub/src/sync.rs), and the pod's launcher that  *)
(* restores them and starts the trainer again (scripts/pod_train_v11.sh).  *)
(*                                                                         *)
(* A file's content is the number of the save that wrote it: the content   *)
(* stands for its sha256 and two saves never write the same.  A signature  *)
(* (device, inode, size, time of change) is taken to be new with every     *)
(* write, so all that counts of a recorded one is whether it is still the  *)
(* file's.  A save that is done again after a crash has a number of its    *)
(* own, where the trainer would reuse the milestone's name.                *)
(***************************************************************************)
EXTENDS Integers, FiniteSets, Sequences

CONSTANTS
    MaxSaves,       \* bound: saves of the run
    Flaky,          \* bound: files whose uploads may fail
    KeepLast,       \* --ckpt-keep-last: milestones kept on the pod's disk
    MaxRetries      \* SyncConfig.max_retries

ASSUME CheckpointsAssumption ==
    /\ MaxSaves \in Nat /\ Flaky \subseteq Nat
    /\ KeepLast \in Nat \ {0} /\ MaxRetries \in Nat

Saves == 1 .. MaxSaves
Absent == 0

\* latest.safetensors, latest.state.json, manifest.json, and the milestones
\* policy_updateN.safetensors.  (A milestone's sidecar is written, pruned and
\* copied right after it, and is left out.)  By name:
Weights == 1
State == 2
Manifest == 3
Milestone(n) == 3 + n
Files == 1 .. 3 + MaxSaves

VARIABLES
    disk,       \* the pod's checkpoint directory
    hub,        \* the run's files on the hub
    saves,      \* the saves begun
    step,       \* the next step of a save, 0 when there is none under way
    phase,      \* "down", "training", or "crashed" with the launcher waiting
    sync,       \* where run_sync is, "off" when there is no sync process
    known,      \* SyncState.files, saved in sync-manifest.json: the content
    fresh,      \*   and the files whose recorded signature is theirs still
    todo,       \* the files of this pass that are left
    copy,       \* the snapshot; steady says that its file did not change since
    tries,      \* attempts at its upload that failed
    pruned      \* history: the milestones that have been pruned from this disk

diskVars == <<disk, saves, step, phase, pruned>>
syncVars == <<sync, known, fresh, todo, copy, tries>>
vars == <<diskVars, hub, syncVars>>

NoCopy == [file |-> Weights, data |-> Absent, steady |-> FALSE]

TypeOK ==
    /\ disk \in [Files -> 0 .. MaxSaves] /\ hub \in [Files -> 0 .. MaxSaves]
    /\ saves \in 0 .. MaxSaves /\ step \in 0 .. 5
    /\ phase \in {"down", "training", "crashed"}
    /\ sync \in {"off", "idle", "scan", "read", "send"}
    /\ known \in [Files -> 0 .. MaxSaves] /\ fresh \subseteq Files
    /\ todo \subseteq Files
    /\ copy \in [file : Files, data : 0 .. MaxSaves, steady : BOOLEAN]
    /\ tries \in 0 .. MaxRetries
    /\ pruned \subseteq Saves

Init ==
    /\ disk = [f \in Files |-> Absent] /\ hub = [f \in Files |-> Absent]
    /\ saves = 0 /\ step = 0 /\ phase = "down" /\ pruned = {}
    /\ sync = "off" /\ todo = {} /\ copy = NoCopy /\ tries = 0
    /\ known = [f \in Files |-> Absent] /\ fresh = {}

-----------------------------------------------------------------------------
(* The trainer. *)

\* A file that is written or removed has another signature.
Touched(fs) ==
    /\ fresh' = fresh \ fs
    /\ copy' = [copy EXCEPT !.steady = @ /\ copy.file \notin fs]

Numbered(d) == {n \in Saves : d[Milestone(n)] # Absent}

\* prune_numbered_checkpoints: the milestones that are dropped from directory d.
Surplus(d) == {n \in Numbered(d) :
                  Cardinality({k \in Numbered(d) : k > n}) >= KeepLast}
FilesOf(ns) == {Milestone(n) : n \in ns}
Without(d, ns) == [f \in Files |-> IF f \in FilesOf(ns) THEN Absent ELSE d[f]]

\* Every --ckpt-every updates, or without a milestone (and so with nothing to
\* prune) before the environments are resized and at the end of the run.
BeginSave ==
    /\ phase = "training" /\ step = 0 /\ saves < MaxSaves
    /\ saves' = saves + 1 /\ step' \in {1, 2}
    /\ UNCHANGED <<disk, phase, pruned, hub, syncVars>>

\* The save at the end of the run, when nothing was trained since the last:
\* it writes latest.* and the manifest again, with what they hold.
BeginFinal ==
    /\ phase = "training" /\ step = 0
    /\ saves # 0 /\ disk[Weights] = saves /\ disk[State] = saves
    /\ step' = 2
    /\ UNCHANGED <<disk, saves, phase, pruned, hub, syncVars>>

\* Each file by save_atomic, one after the other.
Order(n) == <<Milestone(n), Weights, State, Manifest>>

WriteFile ==
    LET f == Order(saves)[step] IN
    /\ phase = "training" /\ step \in 1 .. 4
    /\ disk' = [disk EXCEPT ![f] = saves]
    /\ Touched({f})
    /\ step' = step + 1
    /\ UNCHANGED <<saves, phase, pruned, hub, sync, known, todo, tries>>

Prune ==
    /\ phase = "training" /\ step = 5
    /\ disk' = Without(disk, Surplus(disk))
    /\ Touched(FilesOf(Surplus(disk)))
    /\ pruned' = pruned \cup Surplus(disk)
    /\ step' = 0
    /\ UNCHANGED <<saves, phase, hub, sync, known, todo, tries>>

-----------------------------------------------------------------------------
(* The pod. *)

\* The sync process is no more; sync-manifest.json stays as it was last saved.
SyncIsOver == sync' = "off" /\ todo' = {} /\ copy' = NoCopy /\ tries' = 0

TrainerCrash ==
    /\ phase = "training"
    /\ phase' = "crashed" /\ step' = 0
    /\ UNCHANGED <<disk, saves, pruned, hub, syncVars>>

\* The launcher ends, with the sync loop and the trainer; the disk stays or not.
Stop ==
    /\ phase # "down"
    /\ phase' = "down" /\ step' = 0
    /\ SyncIsOver
    /\ UNCHANGED <<saves, hub>>

PodRestart == Stop /\ UNCHANGED <<disk, pruned, known, fresh>>

PodLoss ==
    /\ Stop
    /\ disk' = [f \in Files |-> Absent] /\ pruned' = {}
    /\ known' = [f \in Files |-> Absent] /\ fresh' = {}

\* A trainer resumes what latest.* holds, or starts anew without it.
Complete(d) == d[Weights] # Absent /\ d[State] # Absent /\ d[Manifest] # Absent
Startable(d) == Complete(d) \/ d[Weights] = Absent

\* (mutant) The launcher's own pruning is left out.
HeadroomIgnored(d) == d

\* ensure_disk_headroom
Headroom(d) == Without(d, Surplus(d))

\* The loop around the trainer.  One that cannot resume ends at once.
Relaunch ==
    /\ phase = "crashed"
    /\ disk' = Headroom(disk)
    /\ Touched(FilesOf(Surplus(disk)))
    /\ pruned' = pruned \cup Surplus(disk)
    /\ phase' = IF Startable(disk) THEN "training" ELSE "crashed"
    /\ UNCHANGED <<saves, step, hub, sync, known, todo, tries>>

\* restore_latest: got are the downloads that succeed, one after the other and
\* each straight into the directory; the first two must.
Restored(d, got) == [f \in Files |-> IF f \in got THEN hub[f] ELSE d[f]]
Downloads == {{}, {Weights}, {Weights, State}, {Weights, State, Manifest}}

\* The sync process is started here and nowhere else.  It ends at once when
\* whoami or ensure_repo fails, or its state cannot be read, is another run's or
\* cannot be saved; nobody looks after it.
SyncStarts == sync' \in {"idle", "off"}

Boot(got) ==
    LET kept == Headroom(disk)
        missing == kept[Weights] = Absent \/ kept[State] = Absent
        ready == Restored(kept, got) IN
    /\ phase = "down"
    /\ IF missing THEN \A f \in got : hub[f] # Absent ELSE got = {}
    /\ disk' = ready
    /\ pruned' = pruned \cup Surplus(disk)
    /\ fresh' = fresh \ (got \cup FilesOf(Surplus(disk)))
    /\ IF Complete(ready) \/ (ready[Weights] = Absent /\ ready[State] = Absent)
       THEN phase' = "training" /\ SyncStarts
       ELSE UNCHANGED <<phase, sync>>
    /\ UNCHANGED <<saves, step, hub, known, todo, copy, tries>>

-----------------------------------------------------------------------------
(* run_sync *)

StartPass ==
    /\ sync = "idle"
    /\ sync' = "scan" /\ todo' = {f \in Files : disk[f] # Absent}
    /\ UNCHANGED <<diskVars, hub, known, fresh, copy, tries>>

\* (mutant) A file that has an entry is taken to be uploaded.
UnchangedByName(f) == known[f] # Absent

Unchanged(f) == f \in fresh

\* discover lists the files by name.
IsNext(f) == f \in todo /\ \A g \in todo : f <= g

Skip(f) ==
    /\ sync = "scan" /\ IsNext(f)
    /\ disk[f] = Absent \/ Unchanged(f)
    /\ todo' = todo \ {f}
    /\ UNCHANGED <<diskVars, hub, sync, known, fresh, copy, tries>>

\* snapshot, up to the second look at the signature,
Read(f) ==
    /\ sync = "scan" /\ IsNext(f)
    /\ disk[f] # Absent /\ ~Unchanged(f)
    /\ copy' = [file |-> f, data |-> disk[f], steady |-> TRUE]
    /\ sync' = "read" /\ todo' = todo \ {f}
    /\ UNCHANGED <<diskVars, hub, known, fresh, tries>>

\* and from there: a source that changed is left to the next pass.
Settle ==
    /\ sync = "read"
    /\ \/ /\ ~copy.steady
          /\ sync' = "scan" /\ copy' = NoCopy /\ UNCHANGED fresh
       \/ /\ copy.steady /\ known[copy.file] = copy.data
          /\ sync' = "scan" /\ copy' = NoCopy /\ fresh' = fresh \cup {copy.file}
       \/ /\ copy.steady /\ known[copy.file] # copy.data
          /\ sync' = "send" /\ UNCHANGED <<copy, fresh>>
    /\ UNCHANGED <<diskVars, hub, known, todo, tries>>

\* (mutant) The signature is taken again when the upload is over.
RecordedAsNow == fresh \cup {copy.file}

\* The signature is the one the snapshot was taken with.
Recorded == IF copy.steady THEN fresh \cup {copy.file} ELSE fresh

Record ==
    /\ known' = [known EXCEPT ![copy.file] = copy.data]
    /\ fresh' = Recorded
    /\ sync' = "scan" /\ copy' = NoCopy /\ tries' = 0

Upload ==
    /\ sync = "send"
    /\ hub' = [hub EXCEPT ![copy.file] = copy.data]
    /\ Record
    /\ UNCHANGED <<diskVars, todo>>

\* An upload the client sees fail may have been carried out.
Lost ==
    /\ copy.file \in Flaky
    /\ hub' \in {hub, [hub EXCEPT ![copy.file] = copy.data]}

MayRetry == tries < MaxRetries

RetryUpload ==
    /\ sync = "send" /\ MayRetry
    /\ Lost
    /\ tries' = tries + 1
    /\ UNCHANGED <<diskVars, sync, known, fresh, todo, copy>>

\* After the last attempt the loop goes on as if the upload had been made.
GiveUpUpload ==
    /\ sync = "send" /\ ~MayRetry
    /\ Lost
    /\ Record
    /\ UNCHANGED <<diskVars, todo>>

EndPass ==
    /\ sync = "scan" /\ todo = {}
    /\ sync' = "idle"
    /\ UNCHANGED <<diskVars, hub, known, fresh, todo, copy, tries>>

\* The directory cannot be listed.
DiscoverFails == sync = "idle" /\ hub' = hub

\* The state cannot be saved, after a new signature or after an upload that was
\* made or given up.
SaveFails ==
    \/ /\ sync = "read" /\ copy.steady /\ known[copy.file] = copy.data
       /\ hub' = hub
    \/ /\ sync = "send"
       /\ \/ hub' = [hub EXCEPT ![copy.file] = copy.data]
          \/ ~MayRetry /\ Lost

\* These errors end run_sync, and with it the process.
SyncEnds ==
    /\ DiscoverFails \/ SaveFails
    /\ SyncIsOver
    /\ UNCHANGED <<diskVars, known, fresh>>

SyncStep ==
    \/ StartPass \/ Settle \/ Upload \/ RetryUpload \/ GiveUpUpload \/ EndPass
    \/ \E f \in todo : Skip(f) \/ Read(f)

Next ==
    \/ BeginSave \/ BeginFinal \/ WriteFile \/ Prune
    \/ TrainerCrash \/ PodRestart \/ PodLoss \/ Relaunch
    \/ \E got \in Downloads : Boot(got)
    \/ SyncStep \/ SyncEnds

Spec == Init /\ [][Next]_vars

\* The sync loop is a process of its own that never waits for the trainer: while
\* there is one it takes its steps, and no more than that is assumed of it.
FairSpec == Spec /\ WF_vars(SyncStep)

-----------------------------------------------------------------------------
(* Properties. *)

\* A file the sync loop skips, because its signature is the recorded one, is
\* the file it recorded: no change between a look and a write is missed.
NothingIsMissed == \A f \in fresh : known[f] = disk[f]

\* However often the trainer is killed in the middle of a save, its next start
\* brings the disk down to the milestones it may keep: there is one more only
\* while a save is under way or cut short.
MilestonesAreBounded ==
    Cardinality(Numbered(disk)) <=
        KeepLast + (IF phase = "training" /\ step = 0 THEN 0 ELSE 1)

\* When the trainer and the pod leave the files alone, the sync loop comes to
\* deal with each of them, the ones that changed under its hands and the ones an
\* earlier sync process left unsaved included, unless its process has ended: no
\* one starts it again before the next start of the pod.
Calm == phase = "training" /\ step = 0
EveryFileIsDealtWith ==
    <>[](Calm /\ sync # "off")
        => <>[](\A f \in Files : disk[f] # Absent => f \in fresh)

\* train.rs prunes because "HF already retains the full historical backlog": a
\* pruned milestone the sync loop has recorded as uploaded is on the hub.
BacklogIsKept ==
    \A n \in pruned : known[Milestone(n)] = n => hub[Milestone(n)] = n

\* A restore that finds no complete checkpoint installs nothing: the pod is
\* never left with weights that came without their state.
RestoresPairsOnly ==
    [][phase = "down" /\ disk[Weights] = Absent /\ disk'[Weights] # Absent
       => disk'[State] # Absent]_vars
=============================================================================
