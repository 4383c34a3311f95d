------------------------- MODULE CheckpointsProofs -------------------------
(***************************************************************************)
(* Theorems about Checkpoints, for every number of saves, of milestones    *)
(* kept and of retries, and whichever uploads may fail.                    *)
(***************************************************************************)
EXTENDS Checkpoints, FiniteSetTheorems, WellFoundedInduction, TLAPS

-----------------------------------------------------------------------------
(* Types. *)

LEMMA NoCopyType ==
    /\ NoCopy \in [file : Files, data : 0 .. MaxSaves, steady : BOOLEAN]
    /\ NoCopy.steady = FALSE
  BY CheckpointsAssumption DEF NoCopy, Files, Weights, Absent

LEMMA InitType == Init => TypeOK
  BY NoCopyType, CheckpointsAssumption DEF Init, TypeOK, Absent

LEMMA TouchedType ==
    ASSUME TypeOK, NEW fs, Touched(fs)
    PROVE  /\ fresh' \subseteq Files
           /\ copy' \in [file : Files, data : 0 .. MaxSaves, steady : BOOLEAN]
  BY DEF TypeOK, Touched

LEMMA WithoutType ==
    ASSUME NEW d \in [Files -> 0 .. MaxSaves], NEW ns
    PROVE  Without(d, ns) \in [Files -> 0 .. MaxSaves]
  BY CheckpointsAssumption DEF Without, Absent

LEMMA RestoredType ==
    ASSUME NEW d \in [Files -> 0 .. MaxSaves], NEW got, TypeOK
    PROVE  Restored(d, got) \in [Files -> 0 .. MaxSaves]
  BY DEF Restored, TypeOK

LEMMA StopType ==
    ASSUME TypeOK, Stop, disk' \in [Files -> 0 .. MaxSaves],
           known' \in [Files -> 0 .. MaxSaves], fresh' \subseteq Files,
           pruned' \subseteq Saves
    PROVE  TypeOK'
  BY NoCopyType, CheckpointsAssumption DEF TypeOK, Stop, SyncIsOver

\* The trainer's steps and the pod's.
LEMMA TrainerType ==
    ASSUME TypeOK, BeginSave \/ BeginFinal \/ WriteFile \/ Prune \/ TrainerCrash
    PROVE  TypeOK'
<1>1. CASE BeginSave
  BY <1>1, CheckpointsAssumption DEF BeginSave, TypeOK, syncVars
<1>2. CASE BeginFinal
  BY <1>2, CheckpointsAssumption DEF BeginFinal, TypeOK, syncVars
<1>3. CASE WriteFile
  <2>1. PICK f : disk' = [disk EXCEPT ![f] = saves] /\ Touched({f})
    BY <1>3 DEF WriteFile
  <2>2. disk' \in [Files -> 0 .. MaxSaves]
    BY <2>1 DEF TypeOK
  <2>3. step' \in 0 .. 5
    BY <1>3 DEF WriteFile
  <2> QED
    BY <1>3, <2>1, <2>2, <2>3, TouchedType DEF WriteFile, TypeOK
<1>4. CASE Prune
  BY <1>4, TouchedType, WithoutType DEF Prune, TypeOK, Surplus, Numbered
<1>5. CASE TrainerCrash
  BY <1>5 DEF TrainerCrash, TypeOK, syncVars
<1> QED
  BY <1>1, <1>2, <1>3, <1>4, <1>5

LEMMA PodType ==
    ASSUME TypeOK, PodRestart \/ PodLoss \/ Relaunch \/ \E got \in Downloads : Boot(got)
    PROVE  TypeOK'
<1>1. CASE PodRestart
  BY <1>1, StopType DEF PodRestart, TypeOK
<1>2. CASE PodLoss
  <2>1. [f \in Files |-> Absent] \in [Files -> 0 .. MaxSaves]
    BY CheckpointsAssumption DEF Absent
  <2> QED
    BY <1>2, <2>1, StopType DEF PodLoss
<1>3. CASE Relaunch
  BY <1>3, TouchedType, WithoutType DEF Relaunch, TypeOK, Surplus, Numbered, Headroom
<1>4. ASSUME NEW got \in Downloads, Boot(got) PROVE TypeOK'
  BY <1>4, WithoutType, RestoredType
  DEF Boot, SyncStarts, TypeOK, Surplus, Numbered, Headroom
<1> QED
  BY <1>1, <1>2, <1>3, <1>4

LEMMA RecordType ==
    ASSUME TypeOK, Record
    PROVE  /\ known' \in [Files -> 0 .. MaxSaves] /\ fresh' \subseteq Files
           /\ sync' = "scan" /\ tries' = 0 /\ tries' \in 0 .. MaxRetries
           /\ copy' \in [file : Files, data : 0 .. MaxSaves, steady : BOOLEAN]
<1>1. copy.file \in Files /\ copy.data \in 0 .. MaxSaves
  BY DEF TypeOK
<1>2. known' \in [Files -> 0 .. MaxSaves] /\ fresh' \subseteq Files
  BY <1>1 DEF Record, Recorded, TypeOK
<1> QED
  BY <1>2, NoCopyType, CheckpointsAssumption DEF Record

LEMMA LostType == ASSUME TypeOK, Lost PROVE hub' \in [Files -> 0 .. MaxSaves]
  BY DEF Lost, TypeOK

LEMMA SyncType == ASSUME TypeOK, SyncStep PROVE TypeOK'
<1> USE DEF diskVars
<1>1. CASE StartPass
  BY <1>1 DEF StartPass, TypeOK
<1>2. CASE Settle
  <2>1. copy' \in [file : Files, data : 0 .. MaxSaves, steady : BOOLEAN]
    BY <1>2, NoCopyType DEF Settle, TypeOK
  <2>2. copy.file \in Files
    BY DEF TypeOK
  <2>3. fresh' \subseteq Files /\ sync' \in {"scan", "send"}
    BY <1>2, <2>2 DEF Settle, TypeOK
  <2> QED
    BY <1>2, <2>1, <2>3 DEF Settle, TypeOK
<1>3. CASE Upload
  BY <1>3, RecordType DEF Upload, TypeOK
<1>4. CASE RetryUpload
  BY <1>4, LostType, CheckpointsAssumption DEF RetryUpload, MayRetry, TypeOK
<1>5. CASE GiveUpUpload
  BY <1>5, LostType, RecordType DEF GiveUpUpload, TypeOK
<1>6. CASE EndPass
  BY <1>6 DEF EndPass, TypeOK
<1>7. ASSUME NEW f \in todo, Skip(f) PROVE TypeOK'
  BY <1>7 DEF Skip, TypeOK
<1>8. ASSUME NEW f \in todo, Read(f) PROVE TypeOK'
  BY <1>8 DEF Read, TypeOK
<1> QED
  BY <1>1, <1>2, <1>3, <1>4, <1>5, <1>6, <1>7, <1>8 DEF SyncStep

LEMMA EndsType == ASSUME TypeOK, SyncEnds PROVE TypeOK'
<1>1. hub' \in [Files -> 0 .. MaxSaves]
  BY LostType DEF SyncEnds, DiscoverFails, SaveFails, TypeOK
<1> QED
  BY <1>1, NoCopyType, CheckpointsAssumption DEF SyncEnds, SyncIsOver, diskVars, TypeOK

LEMMA StepType == TypeOK /\ [Next]_vars => TypeOK'
<1> SUFFICES ASSUME TypeOK, [Next]_vars PROVE TypeOK'
  OBVIOUS
<1>1. CASE UNCHANGED vars
  BY <1>1 DEF vars, diskVars, syncVars, TypeOK
<1> QED
  BY <1>1, TrainerType, PodType, SyncType, EndsType DEF Next

\* Every variable keeps its type: no upload is retried more often than allowed.
THEOREM TypeCorrect == Spec => []TypeOK
<1> QED
  BY InitType, StepType, PTL DEF Spec
-----------------------------------------------------------------------------
(* The sync loop and the signatures. *)

\* What the sync loop holds true between two of its steps: a snapshot whose
\* file did not change is the file, it is of a file that is not up to date,
\* and there is none while the pod is down.
SnapshotIsTrue == copy.steady => copy.data = disk[copy.file]
SnapshotIsNews == sync \in {"read", "send"} => copy.file \notin fresh
DownIsQuiet == phase = "down" => sync = "off" /\ ~copy.steady

Vigilance ==
    TypeOK /\ NothingIsMissed /\ SnapshotIsTrue /\ SnapshotIsNews /\ DownIsQuiet

\* A step that changes files changes their signatures.
LEMMA TouchedVigilance ==
    ASSUME Vigilance, NEW fs, Touched(fs), TypeOK', phase # "down",
           \A g \in Files \ fs : disk'[g] = disk[g],
           known' = known, sync' = sync, phase' # "down"
    PROVE  Vigilance'
<1>1. copy.file \in Files /\ copy'.file = copy.file /\ copy'.data = copy.data
      /\ copy'.steady = (copy.steady /\ copy.file \notin fs)
  BY DEF Vigilance, TypeOK, Touched
<1>2. NothingIsMissed'
  <2> SUFFICES ASSUME NEW f \in fresh' PROVE known'[f] = disk'[f]
    BY DEF NothingIsMissed
  <2>1. f \in fresh /\ f \in Files \ fs
    BY DEF Touched, Vigilance, TypeOK
  <2> QED
    BY <2>1 DEF Vigilance, NothingIsMissed
<1>3. SnapshotIsTrue'
  BY <1>1 DEF Vigilance, SnapshotIsTrue
<1>4. SnapshotIsNews' /\ DownIsQuiet'
  BY <1>1 DEF Vigilance, SnapshotIsNews, DownIsQuiet, Touched
<1> QED
  BY <1>2, <1>3, <1>4 DEF Vigilance

LEMMA WithoutElsewhere ==
    ASSUME NEW d, NEW ns
    PROVE  \A g \in Files \ FilesOf(ns) : Without(d, ns)[g] = d[g]
  BY DEF Without

LEMMA TrainerVigilance ==
    ASSUME Vigilance, TypeOK',
           BeginSave \/ BeginFinal \/ WriteFile \/ Prune \/ TrainerCrash
    PROVE  Vigilance'
<1> USE DEF syncVars
<1>1. CASE BeginSave \/ BeginFinal \/ TrainerCrash
  <2>1. UNCHANGED <<disk, known, fresh, copy, sync>> /\ phase' # "down"
    BY <1>1 DEF BeginSave, BeginFinal, TrainerCrash
  <2> QED
    BY <2>1 DEF Vigilance, NothingIsMissed, SnapshotIsTrue, SnapshotIsNews, DownIsQuiet
<1>2. CASE WriteFile
  <2>1. PICK f : disk' = [disk EXCEPT ![f] = saves] /\ Touched({f})
    BY <1>2 DEF WriteFile
  <2>2. \A g \in Files \ {f} : disk'[g] = disk[g]
    BY <2>1 DEF Vigilance, TypeOK
  <2> QED
    BY <1>2, <2>1, <2>2, TouchedVigilance DEF WriteFile
<1>3. CASE Prune
  BY <1>3, TouchedVigilance, WithoutElsewhere DEF Prune
<1> QED
  BY <1>1, <1>2, <1>3

LEMMA PodVigilance ==
    ASSUME Vigilance, TypeOK',
           PodRestart \/ PodLoss \/ Relaunch \/ \E got \in Downloads : Boot(got)
    PROVE  Vigilance'
<1>1. CASE PodRestart
  BY <1>1, NoCopyType DEF PodRestart, Stop, SyncIsOver, Vigilance, NothingIsMissed,
     SnapshotIsTrue, SnapshotIsNews, DownIsQuiet
<1>2. CASE PodLoss
  BY <1>2, NoCopyType DEF PodLoss, Stop, SyncIsOver, Vigilance, NothingIsMissed,
     SnapshotIsTrue, SnapshotIsNews, DownIsQuiet
<1>3. CASE Relaunch
  <2>1. phase' # "down" /\ phase # "down"
    BY <1>3 DEF Relaunch
  <2> QED
    BY <1>3, <2>1, TouchedVigilance, WithoutElsewhere DEF Relaunch, Headroom
<1>4. ASSUME NEW got \in Downloads, Boot(got) PROVE Vigilance'
  <2> DEFINE fs == FilesOf(Surplus(disk))
  <2>1. phase = "down" /\ ~copy.steady /\ copy' = copy /\ known' = known
    BY <1>4 DEF Boot, Vigilance, DownIsQuiet
  <2>2. fresh' = fresh \ (got \cup fs) /\ disk' = Restored(Without(disk, Surplus(disk)), got)
    BY <1>4 DEF Boot, Headroom
  <2>3. \A g \in Files \ (got \cup fs) : disk'[g] = disk[g]
    BY <2>2, WithoutElsewhere DEF Restored
  <2>4. NothingIsMissed'
    BY <2>1, <2>2, <2>3 DEF NothingIsMissed, Vigilance, TypeOK
  <2>5. sync = "off" /\ (phase' # "down" \/ sync' = sync) /\ sync' \in {"off", "idle"}
    BY <1>4, <2>1 DEF Boot, SyncStarts, Vigilance, DownIsQuiet
  <2> QED
    BY <2>1, <2>4, <2>5 DEF Vigilance, SnapshotIsTrue, SnapshotIsNews, DownIsQuiet
<1> QED
  BY <1>1, <1>2, <1>3, <1>4

\* The end of an upload: what is recorded is what the snapshot was taken of.
LEMMA RecordVigilance ==
    ASSUME Vigilance, TypeOK', sync = "send", Record, disk' = disk, phase' = phase
    PROVE  Vigilance'
<1>1. copy.file \in Files /\ copy.file \notin fresh /\ known \in [Files -> 0 .. MaxSaves]
  BY DEF Vigilance, TypeOK, SnapshotIsNews
<1>2. NothingIsMissed'
  <2> SUFFICES ASSUME NEW f \in fresh' PROVE known'[f] = disk[f]
    BY DEF NothingIsMissed
  <2>1. CASE f \in fresh
    BY <1>1, <2>1 DEF Record, Vigilance, NothingIsMissed, TypeOK
  <2>2. CASE f \notin fresh
    <3>1. f = copy.file /\ copy.steady
      BY <2>2 DEF Record, Recorded
    <3> QED
      BY <1>1, <3>1 DEF Record, Vigilance, SnapshotIsTrue
  <2> QED
    BY <2>1, <2>2
<1>3. phase # "down"
  BY DEF Vigilance, DownIsQuiet
<1> QED
  BY <1>2, <1>3, NoCopyType
  DEF Record, Vigilance, SnapshotIsTrue, SnapshotIsNews, DownIsQuiet

LEMMA SyncVigilance == ASSUME Vigilance, TypeOK', SyncStep PROVE Vigilance'
<1> USE DEF diskVars
<1>0. sync # "off" => phase # "down"
  BY DEF Vigilance, DownIsQuiet
<1>1. CASE StartPass \/ EndPass \/ RetryUpload \/ \E f \in todo : Skip(f)
  <2>1. UNCHANGED <<disk, phase, known, fresh, copy>>
    BY <1>1 DEF StartPass, EndPass, RetryUpload, Skip
  <2>2. sync # "off" /\ (sync' = sync \/ sync' \notin {"read", "send"})
    BY <1>1 DEF StartPass, EndPass, RetryUpload, Skip
  <2> QED
    BY <1>0, <2>1, <2>2
    DEF Vigilance, NothingIsMissed, SnapshotIsTrue, SnapshotIsNews, DownIsQuiet
<1>2. CASE Settle
  <2>1. UNCHANGED <<disk, phase, known>> /\ phase # "down" /\ copy.file \in Files
    BY <1>0, <1>2 DEF Settle, Vigilance, TypeOK
  <2>2. NothingIsMissed'
    BY <1>2, <2>1 DEF Settle, Vigilance, NothingIsMissed, SnapshotIsTrue
  <2>3. SnapshotIsTrue' /\ SnapshotIsNews'
    BY <1>2, <2>1, NoCopyType DEF Settle, Vigilance, SnapshotIsTrue, SnapshotIsNews
  <2> QED
    BY <2>1, <2>2, <2>3 DEF Vigilance, DownIsQuiet
<1>3. CASE Upload
  BY <1>3, RecordVigilance DEF Upload
<1>4. CASE GiveUpUpload
  BY <1>4, RecordVigilance DEF GiveUpUpload
<1>5. ASSUME NEW f \in todo, Read(f) PROVE Vigilance'
  BY <1>0, <1>5 DEF Read, Unchanged, Vigilance, NothingIsMissed, SnapshotIsTrue,
     SnapshotIsNews, DownIsQuiet
<1> QED
  BY <1>1, <1>2, <1>3, <1>4, <1>5 DEF SyncStep

\* A process that ends takes its snapshot along and leaves what it had saved.
LEMMA EndsVigilance == ASSUME Vigilance, TypeOK', SyncEnds PROVE Vigilance'
  BY NoCopyType DEF SyncEnds, SyncIsOver, diskVars, Vigilance, NothingIsMissed,
     SnapshotIsTrue, SnapshotIsNews, DownIsQuiet

LEMMA InitVigilance == Init => Vigilance
  BY InitType, NoCopyType
  DEF Init, Vigilance, NothingIsMissed, SnapshotIsTrue, SnapshotIsNews, DownIsQuiet

LEMMA StepVigilance == Vigilance /\ [Next]_vars => Vigilance'
<1> SUFFICES ASSUME Vigilance, [Next]_vars PROVE Vigilance'
  OBVIOUS
<1>0. TypeOK'
  BY StepType DEF Vigilance
<1>1. CASE UNCHANGED vars
  BY <1>0, <1>1 DEF vars, diskVars, syncVars, Vigilance, NothingIsMissed,
     SnapshotIsTrue, SnapshotIsNews, DownIsQuiet
<1> QED
  BY <1>0, <1>1, TrainerVigilance, PodVigilance, SyncVigilance, EndsVigilance DEF Next

\* The sync loop never skips a file that is not the one it recorded, whatever
\* the trainer, the launcher and the pod do between its steps.
THEOREM SkippedIsRecorded == Spec => []NothingIsMissed
<1>1. Vigilance => NothingIsMissed
  BY DEF Vigilance
<1> QED
  BY <1>1, InitVigilance, StepVigilance, PTL DEF Spec
-----------------------------------------------------------------------------
(* Pruning. *)

Below == {ss \in Nat \X Nat : ss[1] < ss[2]}

LEMMA BelowWellFounded == IsWellFoundedOn(Below, Nat)
  BY NatLessThanWellFounded, Zenon DEF OpToRel, Below

LEMMA LeastNatural ==
    ASSUME NEW S \in SUBSET Nat, S # {}
    PROVE  \E m \in S : \A n \in S : m <= n
<1>1. PICK m \in S : \A n \in S : ~(<<n, m>> \in Below)
  BY BelowWellFounded, WFMin, Zenon
<1>2. \A n \in S : ~(n < m)
  BY <1>1 DEF Below
<1> QED
  BY <1>2

\* Of a set of saves, no more than KeepLast have fewer than KeepLast above them:
\* all of them but the least are above the least.
Above(N, m) == {k \in N : k > m}

LEMMA FewAreLast ==
    ASSUME NEW N \in SUBSET Saves, NEW K \in SUBSET N,
           \A m \in K : ~(Cardinality(Above(N, m)) >= KeepLast)
    PROVE  Cardinality(K) \in Nat /\ Cardinality(K) <= KeepLast
<1>1. KeepLast \in Nat /\ N \subseteq Nat /\ K \subseteq N
  BY CheckpointsAssumption DEF Saves
<1>2. IsFiniteSet(N) /\ IsFiniteSet(K)
  <2>1. IsFiniteSet(Saves)
    BY FS_Interval, CheckpointsAssumption DEF Saves
  <2> QED
    BY <1>1, <2>1, FS_Subset
<1>3. Cardinality(K) \in Nat
  BY <1>2, FS_CardinalityType
<1>4. CASE K = {}
  <2>1. Cardinality({}) = 0
    BY FS_EmptySet
  <2> QED
    BY <1>1, <1>4, <2>1
<1>5. CASE K # {}
  <2>1. PICK m \in K : \A n \in K : m <= n
    BY <1>1, <1>5, LeastNatural
  <2> DEFINE above == Above(N, m)
  <2>2. IsFiniteSet(above) /\ Cardinality(above) \in Nat
    <3>1. above \in SUBSET N
      BY DEF Above
    <3> QED
      BY <1>2, <3>1, FS_Subset, FS_CardinalityType
  <2>3. K \ {m} \subseteq above
    <3> SUFFICES ASSUME NEW k \in K, k # m PROVE k \in N /\ k > m
      BY DEF Above
    <3>1. m <= k /\ k \in Nat /\ m \in Nat
      BY <1>1, <2>1
    <3> QED
      BY <1>1, <3>1
  <2>4. Cardinality(K \ {m}) <= Cardinality(above)
    BY <2>2, <2>3, FS_Subset
  <2>5. Cardinality(K \ {m}) = Cardinality(K) - 1
    BY <1>2, <2>1, FS_RemoveElement
  <2>6. ~(Cardinality(above) >= KeepLast)
    BY <2>1
  <2> QED
    BY <1>1, <1>3, <2>2, <2>4, <2>5, <2>6
<1> QED
  BY <1>3, <1>4, <1>5

LEMMA MilestoneFiles ==
    /\ \A n \in Saves : Milestone(n) \in Files /\ Milestone(n) \notin {Weights, State, Manifest}
    /\ \A m, n \in Saves : Milestone(m) = Milestone(n) => m = n
    /\ {Weights, State, Manifest} \subseteq Files
  BY CheckpointsAssumption DEF Milestone, Saves, Files, Weights, State, Manifest

LEMMA PruningBounds ==
    ASSUME NEW d
    PROVE  LET kept == Numbered(Without(d, Surplus(d)))
           IN  Cardinality(kept) \in Nat /\ Cardinality(kept) <= KeepLast
<1> DEFINE N == Numbered(d)
           kept == Numbered(Without(d, Surplus(d)))
<1>1. N \in SUBSET Saves /\ Surplus(d) \subseteq Saves
  BY DEF Numbered, Surplus
<1>2. \A n \in Saves : Milestone(n) \in FilesOf(Surplus(d)) <=> n \in Surplus(d)
  BY <1>1, MilestoneFiles DEF FilesOf
<1>3. \A n \in Saves : Without(d, Surplus(d))[Milestone(n)]
                           = IF n \in Surplus(d) THEN Absent ELSE d[Milestone(n)]
  BY <1>2, MilestoneFiles DEF Without
<1>4. kept = {n \in N : n \notin Surplus(d)}
  BY <1>3 DEF Numbered
<1>5. \A n \in kept : ~(Cardinality(Above(N, n)) >= KeepLast)
  BY <1>4 DEF Surplus, Above
<1>6. kept \in SUBSET N
  BY <1>4
<1> HIDE DEF N, kept
<1> QED
  BY <1>1, <1>5, <1>6, FewAreLast DEF kept

\* There is room for a milestone when a save begins, and when none is under way.
Room == phase = "training" /\ step \in {0, 1}

Trimmed ==
    /\ TypeOK
    /\ phase # "training" => step = 0
    /\ Cardinality(Numbered(disk)) <= KeepLast + (IF Room THEN 0 ELSE 1)

\* Files that are not milestones do not count.
LEMMA NumberedElsewhere ==
    ASSUME NEW d, NEW e, \A n \in Saves : e[Milestone(n)] = d[Milestone(n)]
    PROVE  Numbered(e) = Numbered(d)
  BY DEF Numbered

LEMMA NumberedIsFinite ==
    ASSUME NEW d PROVE IsFiniteSet(Numbered(d)) /\ Cardinality(Numbered(d)) \in Nat
<1>1. IsFiniteSet(Saves)
  BY FS_Interval, CheckpointsAssumption DEF Saves
<1>2. IsFiniteSet(Numbered(d))
  BY <1>1, FS_Subset DEF Numbered
<1> QED
  BY <1>2, FS_CardinalityType

\* A file that is written is one milestone more at most, and none at all
\* when it is not a milestone's.
LEMMA OneMore ==
    ASSUME TypeOK, WriteFile
    PROVE  /\ Cardinality(Numbered(disk')) <= Cardinality(Numbered(disk)) + 1
           /\ step # 1 => Numbered(disk') = Numbered(disk)
<1> DEFINE f == Order(saves)[step]
<1>1. disk' = [disk EXCEPT ![f] = saves] /\ step \in 1 .. 4
  BY DEF WriteFile
<1>2. \A n \in Saves : Milestone(n) # f => disk'[Milestone(n)] = disk[Milestone(n)]
  BY <1>1, MilestoneFiles DEF TypeOK
<1>3. step # 1 => f \in {Weights, State, Manifest}
  BY <1>1 DEF Order
<1>4. step # 1 => Numbered(disk') = Numbered(disk)
  BY <1>2, <1>3, MilestoneFiles, NumberedElsewhere
<1>5. step = 1 => f = Milestone(saves)
  BY <1>1 DEF Order
<1>6. step = 1 => Numbered(disk') \subseteq Numbered(disk) \cup {saves}
  <2> SUFFICES ASSUME step = 1, NEW n \in Numbered(disk'), n # saves
               PROVE  n \in Numbered(disk)
    OBVIOUS
  <2>1. n \in Saves /\ disk'[Milestone(n)] # Absent
    BY DEF Numbered
  <2>2. Milestone(n) # f
    BY <1>5, <2>1, CheckpointsAssumption DEF Milestone, Saves, TypeOK
  <2> QED
    BY <1>2, <2>1, <2>2 DEF Numbered
<1>7. Cardinality(Numbered(disk) \cup {saves}) <= Cardinality(Numbered(disk)) + 1
      /\ IsFiniteSet(Numbered(disk) \cup {saves})
      /\ Cardinality(Numbered(disk) \cup {saves}) \in Nat
  <2> DEFINE S == Numbered(disk)
  <2>1. IsFiniteSet(S) /\ Cardinality(S) \in Nat
    BY NumberedIsFinite
  <2> HIDE DEF S
  <2>2. IsFiniteSet(S \cup {saves})
        /\ (\/ Cardinality(S \cup {saves}) = Cardinality(S)
            \/ Cardinality(S \cup {saves}) = Cardinality(S) + 1)
    BY <2>1, FS_AddElement
  <2>3. Cardinality(S \cup {saves}) <= Cardinality(S) + 1
        /\ Cardinality(S \cup {saves}) \in Nat
    BY <2>1, <2>2
  <2> QED
    BY <2>2, <2>3 DEF S
<1>8. step = 1 => Cardinality(Numbered(disk')) <= Cardinality(Numbered(disk) \cup {saves})
  BY <1>6, <1>7, FS_Subset
<1> QED
  BY <1>4, <1>7, <1>8, NumberedIsFinite

LEMMA InitTrimmed == Init => Trimmed
<1> SUFFICES ASSUME Init PROVE Trimmed
  OBVIOUS
<1>1. Numbered(disk) = {}
  BY MilestoneFiles DEF Init, Numbered
<1> QED
  BY <1>1, InitType, FS_EmptySet, CheckpointsAssumption DEF Init, Trimmed, Room

LEMMA StepTrimmed == Trimmed /\ [Next]_vars => Trimmed'
<1> SUFFICES ASSUME Trimmed, [Next]_vars PROVE Trimmed'
  OBVIOUS
<1>0. TypeOK' /\ TypeOK /\ KeepLast \in Nat
      /\ Cardinality(Numbered(disk)) \in Nat /\ Cardinality(Numbered(disk')) \in Nat
  BY StepType, NumberedIsFinite, CheckpointsAssumption DEF Trimmed
<1>1. CASE UNCHANGED <<disk, phase, step>>
  BY <1>0, <1>1 DEF Trimmed, Room
<1>2. CASE BeginSave \/ BeginFinal
  <2>1. Room /\ disk' = disk /\ phase' = "training"
    BY <1>2 DEF BeginSave, BeginFinal, Room
  <2> QED
    BY <1>0, <2>1 DEF Trimmed
<1>3. CASE WriteFile
  <2>1. phase = "training" /\ phase' = "training" /\ step' = step + 1 /\ step \in 1 .. 4
    BY <1>3 DEF WriteFile
  <2>2. ~Room'
    BY <2>1 DEF Room
  <2>3. CASE step = 1
    BY <1>0, <1>3, <2>1, <2>2, <2>3, OneMore DEF Trimmed, Room
  <2>4. CASE step # 1
    BY <1>0, <1>3, <2>1, <2>2, <2>4, OneMore DEF Trimmed, Room
  <2> QED
    BY <2>3, <2>4
<1>4. CASE Prune
  <2>1. Cardinality(Numbered(disk')) <= KeepLast /\ phase' = "training"
    BY <1>4, PruningBounds DEF Prune
  <2> QED
    BY <1>0, <2>1 DEF Trimmed
<1>5. CASE TrainerCrash \/ PodRestart
  <2>1. disk' = disk /\ step' = 0 /\ phase' # "training"
    BY <1>5 DEF TrainerCrash, PodRestart, Stop
  <2> QED
    BY <1>0, <2>1 DEF Trimmed, Room
<1>6. CASE PodLoss
  <2>1. Numbered(disk') = {} /\ step' = 0
    BY <1>6, MilestoneFiles DEF PodLoss, Stop, Numbered
  <2> QED
    BY <1>0, <2>1, FS_EmptySet DEF Trimmed
<1>7. CASE Relaunch
  <2>1. Cardinality(Numbered(disk')) <= KeepLast /\ step' = 0
    BY <1>7, PruningBounds DEF Relaunch, Headroom, Trimmed
  <2> QED
    BY <1>0, <2>1 DEF Trimmed
<1>8. ASSUME NEW got \in Downloads, Boot(got) PROVE Trimmed'
  <2>1. disk' = Restored(Without(disk, Surplus(disk)), got) /\ step' = 0
    BY <1>8 DEF Boot, Headroom, Trimmed
  <2>2. \A n \in Saves : Milestone(n) \in Files /\ Milestone(n) \notin got
    BY MilestoneFiles DEF Downloads
  <2>3. Numbered(disk') = Numbered(Without(disk, Surplus(disk)))
    BY <2>1, <2>2, NumberedElsewhere DEF Restored
  <2>4. Cardinality(Numbered(disk')) <= KeepLast
    BY <2>3, PruningBounds
  <2> QED
    BY <1>0, <2>1, <2>4 DEF Trimmed
<1>9. CASE SyncStep \/ SyncEnds
  <2>1. UNCHANGED diskVars
    BY <1>9 DEF SyncEnds, SyncStep, StartPass, Settle, Upload, RetryUpload, GiveUpUpload,
       EndPass, Skip, Read
  <2> QED
    BY <1>1, <2>1 DEF diskVars
<1>10. CASE UNCHANGED vars
  BY <1>1, <1>10 DEF vars, diskVars
<1> QED
  BY <1>2, <1>3, <1>4, <1>5, <1>6, <1>7, <1>8, <1>9, <1>10 DEF Next

\* However many saves are cut short and however many are kept, the milestones
\* on the disk are as many as may be kept, or one more around a save.
THEOREM DiskIsBounded == Spec => []MilestonesAreBounded
<1>1. Trimmed => MilestonesAreBounded
  BY NumberedIsFinite, CheckpointsAssumption DEF Trimmed, MilestonesAreBounded, Room
<1> QED
  BY <1>1, InitTrimmed, StepTrimmed, PTL DEF Spec
=============================================================================
