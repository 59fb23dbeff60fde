-------------------------- MODULE AgentSyncSafety --------------------------
(***************************************************************************)
(* What the publish / pull cycle guarantees for every number of devices    *)
(* and paths and every bound.  A theorem that needs one says which         *)
(* failures it excludes; the runs of AgentSync show that it must.          *)
(***************************************************************************)
EXTENDS AgentSyncProofs

(***************************************************************************)
(* A manifest lists only what is stored.  The code never looks at the      *)
(* store again once a digest is in SyncState.uploaded, so the invariant    *)
(* follows a digest from the store through the memory of the run, the      *)
(* saved state and the entries being collected.                            *)
(***************************************************************************)

\* The store loses nothing: no truncated uploads, no switch to another store.
StoreIsSound == Faults \cap {"torn", "switch"} = {}

Stored(m, os) == \A p \in Keys(m) : m[p].data \in os

Backed ==
  /\ torn = {}
  /\ \A d \in Devices : /\ mem[d].uploaded \subseteq objects
                        /\ saved[d].uploaded \subseteq objects
                        /\ Stored(run[d].entries, objects)
                        /\ Stored(manifests[d], objects)

\* An empty store backs the manifests it does not have.
LEMMA BackedInit == Init => Backed
BY DEF Init, Backed, Stored, Keys, NoState, IdleRun, NoPaths

\* The digest recorded at the end of publish's loop body is in the store.
LEMMA BackedRecord ==
  ASSUME TypeOK, Backed, NEW d \in Devices, NEW p \in Paths, Record(d, p),
         Readable(d, p), objects \subseteq objects', manifests' = manifests,
         saved' = saved, torn' = torn, Snapshot(p, live[d][p].data) \in objects',
         \A e \in Devices : e # d => run'[e] = run[e] /\ mem'[e] = mem[e]
  PROVE  Backed'
<1> DEFINE dg == Snapshot(p, live[d][p].data)
<1>1. mem'[d].uploaded = mem[d].uploaded \cup {dg}
  BY DEF TypeOK, Record, Saved
<1>2. run'[d].entries = [run[d].entries EXCEPT ![p] = [data |-> dg, mtime |-> live[d][p].mtime]]
  BY RecordRun
<1>3. run[d].entries \in Dict(Version)
  BY DEF TypeOK, Run
<1>4. Stored(run'[d].entries, objects')
  BY <1>2, <1>3 DEF Stored, Keys, Dict, Backed
<1>5. \A e \in Devices : e # d => Stored(run'[e].entries, objects')
  BY DEF Stored, Keys, Backed
<1>6. \A e \in Devices : Stored(manifests'[e], objects')
  BY DEF Stored, Keys, Backed
<1> QED BY <1>1, <1>4, <1>5, <1>6 DEF Backed

\* So is everything after a step that stores more and lists nothing new.
LEMMA BackedMore ==
  ASSUME Backed, objects \subseteq objects', torn' = torn,
         \A d \in Devices : /\ mem'[d].uploaded \subseteq objects
                            /\ saved'[d].uploaded \subseteq objects
                            /\ run'[d].entries \in {run[d].entries, NoPaths}
                            /\ manifests'[d] \in {manifests[d], run[d].entries}
  PROVE  Backed'
<1>1. \A d \in Devices : Stored(run'[d].entries, objects') /\ Stored(manifests'[d], objects')
  BY DEF Stored, Keys, Backed, NoPaths
<1> QED BY <1>1 DEF Backed

\* Every step of a run keeps the store backed.
LEMMA BackedStep ==
  ASSUME StoreIsSound, TypeOK, Backed, NEW d \in Devices, RunStep(d) \/ Failure(d)
  PROVE  Backed'
<1> USE OthersUntouched
<1>1. ASSUME NEW p, Pass(d, p), UNCHANGED <<torn, manifests, saved>>,
             objects \subseteq objects'
      PROVE  Backed'
  BY <1>1, PassRun, BackedMore DEF Backed, Pass
<1>2. ASSUME Forget(d), UNCHANGED <<objects, torn, saved>>,
             manifests'[d] \in {manifests[d], run[d].entries}
      PROVE  Backed'
  <2>1. mem'[d] = saved[d]
    BY <1>2 DEF Forget, TypeOK
  <2> QED BY <1>2, <2>1, IdleAgain, BackedMore DEF Backed, IdleRun
<1>3. CASE BuildManifest(d)
  <2>1. mem'[d] = saved[d]
    BY <1>3 DEF BuildManifest, TypeOK
  <2> QED BY <1>3, <2>1, BuildRun, BackedMore, ZenonT(40) DEF BuildManifest, Backed, store
<1>4. ASSUME NEW p \in Paths, PublishPresent(d, p)
      PROVE  Backed'
  BY <1>4, BackedRecord
     DEF PublishPresent, SkipsUpload, Exists, Backed, store
<1>5. ASSUME NEW p \in Paths, Upload(d, p)
      PROVE  Backed'
  BY <1>5, BackedRecord DEF Upload
<1>6. ASSUME NEW p \in Paths, UploadFails(d, p)
      PROVE  Backed'
  BY <1>1, <1>6 DEF StoreIsSound, UploadFails, UploadProblem, store
<1>7. CASE Announce(d)
  <2>1. manifests'[d] = run[d].entries /\ mem' = mem
    BY <1>7 DEF Announce, TypeOK
  <2> QED BY <1>7, <2>1, AnnounceRun, BackedMore DEF Announce, Backed
<1>8. CASE AnnounceFails(d)
  <2>1. manifests'[d] \in {manifests[d], run[d].entries}
    BY <1>8 DEF AnnounceFails, TypeOK
  <2> QED BY <1>2, <1>8, <2>1 DEF AnnounceFails
<1>9. CASE StartPlan(d) \/ \E q \in Devices : ReadPeer(d, q)
  BY <1>9, StartPlanRun, ReadPeerRun, BackedMore
     DEF StartPlan, ReadPeer, Backed, store
<1>10. ASSUME NEW p \in Paths, PlanTake(d, p)
       PROVE  Backed'
  <2>1. mem'[d].uploaded = mem[d].uploaded
    BY <1>10 DEF PlanTake, TypeOK, Saved
  <2>2. run'[d].entries = run[d].entries
    BY <1>10, PlannedRun DEF PlanTake
  <2>3. UNCHANGED <<objects, torn, manifests, saved>>
    BY <1>10 DEF PlanTake, store
  <2> QED BY <2>1, <2>2, <2>3, BackedMore DEF Backed
<1>11. ASSUME NEW p \in Paths, PlanConflict(d, p)
       PROVE  Backed'
  <2>1. run'[d].entries = run[d].entries
    BY <1>11, PlannedRun DEF PlanConflict
  <2>2. UNCHANGED <<objects, torn, manifests, saved, mem>>
    BY <1>11 DEF PlanConflict, store
  <2> QED BY <2>1, <2>2, BackedMore DEF Backed
<1>12. CASE Stage(d) \/ FinishApply(d)
  <2>1. run'[d].entries \in {run[d].entries, NoPaths}
    BY <1>12, StageRun, FinishApplyRun DEF IdleRun
  <2>2. UNCHANGED <<objects, torn, manifests, saved, mem>>
    BY <1>12 DEF Stage, FinishApply, store
  <2> QED BY <2>1, <2>2, BackedMore DEF Backed
<1>13. CASE SaveState(d)
  <2>1. saved'[d] = mem[d] /\ mem' = mem
    BY <1>13 DEF SaveState, TypeOK
  <2> QED BY <1>13, <2>1, IdleAgain, BackedMore DEF SaveState, Backed, store, IdleRun
<1>14. CASE RunStep(d)
  BY <1>1, <1>3, <1>4, <1>5, <1>7, <1>9, <1>10, <1>11, <1>12, <1>13, <1>14
     DEF RunStep, PublishNothing, PlanNothing, Replace, AddCopy, store
<1>15. CASE Failure(d)
  BY <1>1, <1>2, <1>6, <1>8, <1>15
     DEF Failure, ApplyFails, CrashInApply, Crash, FetchFails, store
<1> QED BY <1>14, <1>15

\* So does every step of the system.
LEMMA BackedNext ==
  ASSUME StoreIsSound, TypeOK, Backed, [Next]_vars
  PROVE  Backed'
<1>1. ASSUME UNCHANGED <<store, saved, mem, run>> PROVE Backed'
  BY <1>1 DEF store, Backed, Stored
<1>2. ~SwitchBackend
  BY DEF StoreIsSound, SwitchBackend, MayFail
<1>3. ASSUME NEW d \in Devices, NEW p \in Paths, User(d, p) PROVE Backed'
  BY <1>1, <1>3 DEF User, Edit, BeginRecord, EndRecord, Delete
<1>4. CASE Tick \/ UNCHANGED vars
  BY <1>1, <1>4 DEF Tick, vars
<1> QED BY <1>2, <1>3, <1>4, BackedStep DEF Next

\* Along every behaviour over a sound store, what was uploaded stays backed.
LEMMA AlwaysBacked == ASSUME StoreIsSound PROVE Spec => []Backed
<1>1. Spec => []TypeOK
  BY TypeCorrect
<1>2. Init => Backed
  BY BackedInit
<1>3. TypeOK /\ Backed /\ [Next]_vars => Backed'
  BY BackedNext
<1> QED BY <1>1, <1>2, <1>3, PTL DEF Spec

\* Over a sound store, whatever requests fail and whenever runs die, a
\* manifest lists only digests whose object is in the store (publish,
\* agent/src/relaydot/sync.py).
THEOREM ManifestsBacked == ASSUME StoreIsSound PROVE Spec => []StoreBacksManifests
<1>1. Backed => StoreBacksManifests
  BY DEF Backed, Stored, StoreBacksManifests
<1> QED BY <1>1, AlwaysBacked, PTL

-----------------------------------------------------------------------------
(***************************************************************************)
(* The fleet implements the store's contract (SharedStore).                *)
(***************************************************************************)

\* The store starts where the contract starts.
LEMMA ContractInit == Init => Contract!Init
BY DEF Init, Contract!Init, NoPaths

\* An announcement of entries that are all stored is one of the contract.
LEMMA ContractAnnounce ==
  ASSUME TypeOK, Backed, NEW d \in Devices, UNCHANGED objects,
         manifests' = [manifests EXCEPT ![d] = run[d].entries]
  PROVE  Contract!Announce(d)
<1>1. manifests'[d] = run[d].entries
  BY DEF TypeOK
<1>2. Contract!Listed(manifests'[d]) \subseteq objects
  BY <1>1 DEF Backed, Stored, Keys, Contract!Listed
<1> QED BY <1>2 DEF TypeOK, Contract!Announce

\* Every step is a step of the contract or leaves the store alone.
LEMMA ContractStep ==
  ASSUME StoreIsSound, TypeOK, Backed, [Next]_vars
  PROVE  [Contract!Next]_<<objects, manifests>>
<1>1. ASSUME UNCHANGED store PROVE [Contract!Next]_<<objects, manifests>>
  BY <1>1 DEF store
<1>2. CASE Tick \/ UNCHANGED vars
  BY <1>1, <1>2 DEF Tick, vars
<1>3. ~SwitchBackend
  BY DEF StoreIsSound, SwitchBackend, MayFail
<1>4. ASSUME NEW d \in Devices, NEW p \in Paths, User(d, p)
      PROVE  [Contract!Next]_<<objects, manifests>>
  BY <1>1, <1>4 DEF User, Edit, BeginRecord, EndRecord, Delete
<1>5. ASSUME NEW d \in Devices, RunStep(d)
      PROVE  [Contract!Next]_<<objects, manifests>>
  <2>1. CASE Announce(d)
    BY <2>1, ContractAnnounce DEF Announce, Contract!Next
  <2>2. ASSUME NEW p \in Paths, Upload(d, p)
        PROVE  Contract!Upload
    BY <2>2 DEF Upload, Contract!Upload
  <2>3. \/ Announce(d) \/ UNCHANGED store
        \/ \E p \in Paths : Upload(d, p)
    BY <1>5 DEF RunStep, BuildManifest, StartPlan, Stage, FinishApply, SaveState,
                ReadPeer, PublishNothing, PublishPresent, PlanTake, PlanConflict,
                PlanNothing, Replace, AddCopy
  <2> QED BY <1>1, <2>1, <2>2, <2>3 DEF Contract!Next
<1>6. ASSUME NEW d \in Devices, Failure(d)
      PROVE  [Contract!Next]_<<objects, manifests>>
  <2>1. CASE AnnounceFails(d)
    <3>1. CASE UNCHANGED manifests
      BY <1>1, <2>1, <3>1 DEF AnnounceFails, store
    <3>2. CASE manifests' = [manifests EXCEPT ![d] = run[d].entries]
      BY <2>1, <3>2, ContractAnnounce DEF AnnounceFails, Contract!Next
    <3> QED BY <2>1, <3>1, <3>2 DEF AnnounceFails
  <2>2. ASSUME NEW p \in Paths, UploadFails(d, p)
        PROVE  Contract!Upload
    BY <2>2 DEF StoreIsSound, UploadFails, store, Contract!Upload
  <2>3. \/ AnnounceFails(d) \/ UNCHANGED store
        \/ \E p \in Paths : UploadFails(d, p)
    BY <1>6 DEF Failure, ApplyFails, CrashInApply, Crash, FetchFails
  <2> QED BY <1>1, <2>1, <2>2, <2>3 DEF Contract!Next
<1> QED BY <1>2, <1>3, <1>4, <1>5, <1>6 DEF Next

\* Over a sound store the fleet implements SharedStore: stored objects stay,
\* each device alone changes its manifest, and it announces only what was
\* uploaded before (the order of the requests in publish, sync.py).
THEOREM ContractKept == ASSUME StoreIsSound PROVE Spec => KeepsContract
<1>1. Spec => []TypeOK
  BY TypeCorrect
<1>2. Spec => []Backed
  BY AlwaysBacked
<1>3. Init => Contract!Init
  BY ContractInit
<1>4. TypeOK /\ Backed /\ [Next]_vars => [Contract!Next]_<<objects, manifests>>
  BY ContractStep
<1> QED BY <1>1, <1>2, <1>3, <1>4, PTL DEF Spec, KeepsContract, Contract!Spec

-----------------------------------------------------------------------------
(***************************************************************************)
(* What a run overwrites is kept.  Between the backup and the end of the   *)
(* replacements the backup agrees with the disk on what is still to do,    *)
(* and the disk with the plan on what is done.                             *)
(***************************************************************************)

\* Nobody writes to the disk between the backup and the replacement.
DiskIsQuiet == "apply" \notin EditPhases

IntactAt(d) ==
  run[d].pc = "apply" =>
    \A p \in TakenPaths(d) :
      IF p \in run[d].todo
        THEN run[d].undo.files[p] = live[d][p]
        ELSE live[d][p] # None => live[d][p].data = run[d].plan[p].data

Intact == \A d \in Devices : IntactAt(d)

\* Every step of a run keeps it intact.
LEMMA IntactRun ==
  ASSUME TypeOK, AppliesPlanned, Intact, NEW d \in Devices, RunStep(d) \/ Failure(d)
  PROVE  IntactAt(d)'
<1>1. CASE run'[d].pc # "apply"
  BY <1>1 DEF IntactAt
<1>2. CASE Stage(d)
  <2>1. /\ run'[d].plan = run[d].plan /\ run'[d].undo.files = Existing(d)
        /\ run'[d].todo = Keys(run[d].plan)
    BY <1>2, StageRun
  <2>2. live' = live
    BY <1>2 DEF Stage, disk
  <2>3. /\ TakenPaths(d)' = TakenPaths(d)
        /\ TakenPaths(d) \subseteq Keys(run[d].plan) /\ TakenPaths(d) \subseteq Paths
    BY <2>1 DEF TakenPaths, Keys
  <2>4. \A p \in TakenPaths(d) : Existing(d)[p] = live[d][p]
    BY <2>3 DEF Existing
  <2> QED BY <2>1, <2>2, <2>3, <2>4 DEF IntactAt
<1>3. ASSUME NEW p \in Paths, Replace(d, p) PROVE IntactAt(d)'
  <2>1. /\ run'[d].plan = run[d].plan /\ run'[d].undo = run[d].undo
        /\ run'[d].todo = run[d].todo \ {p}
    BY <1>3, PassRun DEF Replace, SameRest
  <2>2. /\ live'[d][p].data = run[d].plan[p].data
        /\ \A q \in Paths : q # p => live'[d][q] = live[d][q]
    BY <1>3 DEF Replace, TypeOK, Dict
  <2>3. TakenPaths(d)' = TakenPaths(d) /\ TakenPaths(d) \subseteq Paths
    BY <2>1 DEF TakenPaths, Keys
  <2>4. IntactAt(d)
    BY DEF Intact, IntactAt
  <2> QED BY <1>3, <2>1, <2>2, <2>3, <2>4 DEF IntactAt, Replace, Applying
<1>4. ASSUME NEW p \in Paths, AddCopy(d, p) PROVE IntactAt(d)'
  <2>1. /\ run'[d].plan = run[d].plan /\ run'[d].undo = run[d].undo
        /\ run'[d].todo = run[d].todo \ {p} /\ live' = live
    BY <1>4, PassRun DEF AddCopy, SameRest
  <2>2. TakenPaths(d)' = TakenPaths(d) /\ p \notin TakenPaths(d)
    BY <1>4, <2>1 DEF TakenPaths, AddCopy
  <2> QED BY <1>4, <2>1, <2>2 DEF Intact, IntactAt, AddCopy, Applying
<1>5. \/ run'[d].pc # "apply" \/ Stage(d)
      \/ \E p \in Paths : Replace(d, p) \/ AddCopy(d, p)
  <2>1. ASSUME NEW p, Pass(d, p), run[d].pc # "apply" PROVE run'[d].pc # "apply"
    BY <2>1, PassRun
  <2>2. ASSUME NEW p \in Paths,
               \/ PublishPresent(d, p) \/ Upload(d, p)
               \/ PlanTake(d, p) \/ PlanConflict(d, p)
        PROVE  run'[d].pc # "apply"
    BY <2>2, RecordRun, PlannedRun
       DEF PublishPresent, Upload, Publishing, PlanTake, PlanConflict, Planning
  <2>3. ASSUME \/ Forget(d) \/ SaveState(d) \/ BuildManifest(d) \/ FinishApply(d)
               \/ Announce(d) \/ StartPlan(d) \/ \E q \in Devices : ReadPeer(d, q)
        PROVE  run'[d].pc # "apply"
    <3>1. CASE Forget(d) \/ SaveState(d) \/ FinishApply(d)
      BY <3>1, IdleAgain, FinishApplyRun DEF IdleRun
    <3>2. CASE BuildManifest(d) \/ Announce(d) \/ StartPlan(d)
      BY <3>2, BuildRun, AnnounceRun, StartPlanRun
    <3>3. ASSUME NEW q \in Devices, ReadPeer(d, q) PROVE run'[d].pc # "apply"
      BY <3>3, ReadPeerRun DEF ReadPeer
    <3> QED BY <2>3, <3>1, <3>2, <3>3
  <2>4. CASE RunStep(d)
    BY <2>1, <2>2, <2>3, <2>4
       DEF RunStep, PublishNothing, Publishing, PlanNothing, Planning
  <2>5. CASE Failure(d)
    BY <2>1, <2>3, <2>5
       DEF Failure, AnnounceFails, ApplyFails, CrashInApply, Crash, UploadFails,
           UploadProblem, Publishing, FetchFails, Planning
  <2> QED BY <2>4, <2>5
<1> QED BY <1>1, <1>2, <1>3, <1>4, <1>5

\* Every step keeps what a run has backed up equal to what is on disk.
LEMMA IntactStep ==
  ASSUME DiskIsQuiet, TypeOK, AppliesPlanned, Intact, [Next]_vars
  PROVE  Intact'
<1>1. ASSUME UNCHANGED <<live, run>> PROVE Intact'
  BY <1>1 DEF Intact, IntactAt, TakenPaths
<1>2. CASE Tick \/ SwitchBackend \/ UNCHANGED vars
  BY <1>1, <1>2 DEF Tick, SwitchBackend, vars, disk
<1>3. ASSUME NEW d \in Devices, RunStep(d) \/ Failure(d) PROVE Intact'
  <2>1. \A e \in Devices : e # d => IntactAt(e)'
    BY <1>3, OthersUntouched DEF Intact, IntactAt, TakenPaths
  <2> QED BY <1>3, <2>1, IntactRun DEF Intact
<1>4. ASSUME NEW d \in Devices, NEW p \in Paths, User(d, p) PROVE Intact'
  <2>1. run[d].pc # "apply" /\ run' = run
    BY <1>4 DEF DiskIsQuiet, User, Edit, BeginRecord, EndRecord, Delete, MayAct
  <2>2. \A e \in Devices : e # d => live'[e] = live[e]
    BY <1>4 DEF TypeOK, User, Edit, BeginRecord, EndRecord, Delete, Write
  <2>3. IntactAt(d)'
    BY <2>1 DEF IntactAt
  <2>4. \A e \in Devices : e # d => IntactAt(e)'
    BY <2>1, <2>2 DEF Intact, IntactAt, TakenPaths
  <2> QED BY <2>3, <2>4 DEF Intact
<1> QED BY <1>2, <1>3, <1>4 DEF Next

\* Only the replacements and the rollback of d's run change d's files.
LEMMA WhoWrites ==
  ASSUME TypeOK, [Next]_vars, NEW d \in Devices, run'[d] # run[d], live'[d] # live[d]
  PROVE  ApplyFails(d) \/ \E p \in Paths : Replace(d, p)
<1>1. ASSUME NEW e \in Devices, RunStep(e) \/ Failure(e) PROVE e = d
  BY <1>1, OthersUntouched
<1>2. RunStep(d) \/ Failure(d)
  BY <1>1 DEF Next, Tick, SwitchBackend, vars, User, Edit, BeginRecord, EndRecord, Delete
<1> QED BY <1>2
        DEF RunStep, Failure, BuildManifest, PublishNothing, PublishPresent, Upload,
            UploadFails, Announce, AnnounceFails, ReadPeer, StartPlan, PlanTake,
            PlanConflict, PlanNothing, FetchFails, Stage, AddCopy, FinishApply,
            CrashInApply, Crash, SaveState, disk

\* One step of OverwrittenIsKept.
KeptStep ==
  \A d \in Devices, p \in Paths : Overwrites(d, p) =>
    \/ <<p, live[d][p].data>> \in Backup(d) \cup kept'[d]
    \/ run[d].plan[p] # None /\ live[d][p].data = run[d].plan[p].data

\* What a step overwrites is in a backup after it.
LEMMA KeptInStep ==
  ASSUME TypeOK, AppliesPlanned, Intact, [Next]_vars
  PROVE  KeptStep
<1> SUFFICES ASSUME NEW d \in Devices, NEW p \in Paths, Overwrites(d, p)
             PROVE  \/ <<p, live[d][p].data>> \in Backup(d)
                    \/ run[d].plan[p] # None /\ live[d][p].data = run[d].plan[p].data
  BY DEF KeptStep
<1>1. /\ run'[d] # run[d] /\ live[d][p] # None /\ live'[d][p] # live[d][p]
  BY DEF Overwrites
<1>2. IntactAt(d)
  BY DEF Intact
<1>3. ASSUME NEW q \in Paths, Replace(d, q) PROVE <<p, live[d][p].data>> \in Backup(d)
  <2>1. q = p
    BY <1>1, <1>3 DEF Replace, TypeOK, Dict
  <2>2. /\ run[d].pc = "apply" /\ p \in run[d].todo /\ ~run[d].plan[p].keepBoth
        /\ p \in Keys(run[d].plan)
    BY <1>3, <2>1 DEF Replace, Applying, IsNext, AppliesPlanned
  <2>3. run[d].undo.files[p] = live[d][p]
    BY <1>2, <2>2 DEF IntactAt, TakenPaths
  <2> QED BY <1>1, <2>3 DEF Backup, Keys
<1>4. CASE ApplyFails(d)
  <2>1. p \in TakenPaths(d) \ run[d].todo /\ run[d].pc = "apply"
    BY <1>1, <1>4 DEF ApplyFails, TypeOK, Dict
  <2> QED BY <1>1, <1>2, <2>1 DEF IntactAt, TakenPaths, Keys
<1> QED BY <1>1, <1>3, <1>4, WhoWrites

\* If nobody writes between the backup and the replacement, a run overwrites a
\* file only when its content is in the backup, or is what this very run put
\* there (atomic_apply with keep_backup, apply.py).
THEOREM OverwrittenKept == ASSUME DiskIsQuiet PROVE Spec => OverwrittenIsKept
<1>1. Spec => [](TypeOK /\ AppliesPlanned)
  BY PlannedApplied
<1>2. Init => Intact
  BY DEF Init, Intact, IntactAt, IdleRun
<1>3. TypeOK /\ AppliesPlanned /\ Intact /\ [Next]_vars => Intact'
  BY IntactStep
<1>4. TypeOK /\ AppliesPlanned /\ Intact /\ [Next]_vars => [KeptStep]_vars
  BY KeptInStep
<1>5. Spec => [][KeptStep]_vars
  BY <1>1, <1>2, <1>3, <1>4, PTL DEF Spec
<1> QED BY <1>5 DEF KeptStep, OverwrittenIsKept

(***************************************************************************)
(* What the user wrote: proofs of EveryEditSurvives and of the action      *)
(* properties about what a run may overwrite.  As above, the hypotheses    *)
(* are those the runs show to be necessary.                                *)
(***************************************************************************)
(***************************************************************************)
(* Every edit survives.  A pending apply may be rolled back, and what it   *)
(* has written so far is then gone from this device, so the invariant does *)
(* not count it: it follows what each device would hold after a rollback.  *)
(* No step takes an edit out of that.                                      *)
(***************************************************************************)

\* Users write, and never delete a file.
NobodyDeletes == "delete" \notin UserActs

\* What path p of d, and d's conflict copies, hold once a pending apply is
\* rolled back.
Restored(d, p) ==
  IF run[d].pc = "apply" /\ p \in TakenPaths(d) THEN run[d].undo.files[p] ELSE live[d][p]

RestoredCopies(d) == IF run[d].pc = "apply" THEN run[d].undo.copies ELSE copies[d]

LastsAt(d, e) ==
  \/ \E p \in Paths : Restored(d, p) # None /\ HasEdit(Restored(d, p).data, e)
  \/ \E x \in RestoredCopies(d) \cup kept[d] : HasEdit(x[2], e)

EditsLast == \A e \in 1..edits : \E d \in Devices : LastsAt(d, e)

\* An apply only adds copies.
CopiesStay == \A d \in Devices : run[d].pc = "apply" => run[d].undo.copies \subseteq copies[d]

\* An edit stays in a content that is extended,
LEMMA AppendKeeps ==
  ASSUME NEW c \in Content, NEW x \in Int, NEW e, HasEdit(c, e)
  PROVE  HasEdit(Append(c, x), e)
BY DEF HasEdit, Content

\* is in a content it is appended to,
LEMMA AppendHas ==
  ASSUME NEW c \in Content, NEW x \in Int, NEW e \in Int, x = e \/ x = -e
  PROVE  HasEdit(Append(c, x), e)
<1>1. Len(Append(c, x)) \in DOMAIN Append(c, x) /\ Append(c, x)[Len(Append(c, x))] = x
  BY DEF Content
<1> QED BY <1>1 DEF HasEdit

\* and stays when the last record is completed.
LEMMA CompletionKeeps ==
  ASSUME NEW c \in Content, c # <<>>, NEW e \in Int, HasEdit(c, e)
  PROVE  HasEdit(Append(Front(c), -Last(c)), e)
<1> DEFINE n == Append(Front(c), -Last(c))
<1>1. PICK i \in DOMAIN c : c[i] \in {e, -e}
  BY DEF HasEdit
<1>2. i \in DOMAIN n /\ n[i] = IF i = Len(c) THEN -c[i] ELSE c[i]
  BY <1>1 DEF Front, Last, Content
<1>3. c[i] \in Int
  BY <1>1 DEF Content
<1>4. n[i] \in {e, -e}
  BY <1>1, <1>2, <1>3
<1> QED BY <1>2, <1>4 DEF HasEdit

\* What is on disk stays while nothing of d changes but a phase before apply.
LEMMA LastsUntouched ==
  ASSUME NEW d \in Devices, NEW e, LastsAt(d, e), run[d].pc # "apply", run'[d].pc # "apply",
         live'[d] = live[d], copies'[d] = copies[d], kept'[d] = kept[d]
  PROVE  LastsAt(d, e)'
BY DEF LastsAt, Restored, RestoredCopies

\* What the user of d does keeps the edits, and adds the new one.
LEMMA LastsUser ==
  ASSUME TypeOK, NobodyDeletes, DiskIsQuiet, NEW d \in Devices, NEW p \in Paths, User(d, p)
  PROVE  /\ \A e \in 1..edits : LastsAt(d, e) => LastsAt(d, e)'
         /\ edits' = edits \/ (edits' = edits + 1 /\ \A e : e = edits + 1 => LastsAt(d, e)')
         /\ run' = run /\ run[d].pc # "apply" /\ UNCHANGED <<copies, kept>>
         /\ \A f \in Devices : f # d => live'[f] = live[f]
<1> DEFINE c == Held(d, p)
<1>1. c \in Content /\ edits \in Nat
  BY HeldType DEF TypeOK
<1>2. ~Delete(d, p)
  BY DEF NobodyDeletes, Delete, MayAct
<1>3. /\ run' = run /\ run[d].pc # "apply" /\ UNCHANGED <<copies, kept>>
      /\ \A f \in Devices : f # d => live'[f] = live[f]
  BY <1>2 DEF DiskIsQuiet, User, Edit, BeginRecord, EndRecord, MayAct, Write, TypeOK
<1>4. ASSUME NEW n \in Content, Write(d, p, n), NEW e, HasEdit(n, e)
      PROVE  LastsAt(d, e)'
  <2>1. live'[d][p] = [data |-> n, mtime |-> Now] /\ Now \in Nat
    BY <1>4 DEF Write, TypeOK, Dict, Now
  <2>2. live'[d][p] # None /\ live'[d][p].data = n
    BY <2>1, NoneIsAbsent DEF Version
  <2>3. Restored(d, p)' = live'[d][p]
    BY <1>3 DEF Restored
  <2> QED BY <1>4, <2>2, <2>3 DEF LastsAt
<1>5. ASSUME NEW n \in Content, Write(d, p, n), NEW e, HasEdit(c, e) => HasEdit(n, e),
             LastsAt(d, e)
      PROVE  LastsAt(d, e)'
  <2>1. \A q \in Paths : q # p => live'[d][q] = live[d][q]
    BY <1>5 DEF Write, TypeOK, Dict
  <2>2. CASE \E x \in RestoredCopies(d) \cup kept[d] : HasEdit(x[2], e)
    BY <1>3, <2>2 DEF LastsAt, RestoredCopies
  <2>3. ASSUME NEW q \in Paths, q # p, Restored(d, q) # None, HasEdit(Restored(d, q).data, e)
        PROVE  LastsAt(d, e)'
    BY <1>3, <2>1, <2>3 DEF LastsAt, Restored
  <2>4. CASE Restored(d, p) # None /\ HasEdit(Restored(d, p).data, e)
    <3>1. HasEdit(c, e)
      BY <1>3, <2>4 DEF Restored, Held
    <3> QED BY <1>4, <1>5, <3>1
  <2> QED BY <1>5, <2>2, <2>3, <2>4 DEF LastsAt
<1>6. CASE Edit(d, p)
  <2>1. Append(c, edits + 1) \in Content
    BY <1>1 DEF Content
  <2>2. HasEdit(Append(c, edits + 1), edits + 1)
    BY <1>1, AppendHas
  <2>3. \A e : HasEdit(c, e) => HasEdit(Append(c, edits + 1), e)
    BY <1>1, AppendKeeps
  <2>4. Write(d, p, Append(c, edits + 1)) /\ edits' = edits + 1
    BY <1>6 DEF Edit
  <2>5. \A e : e = edits + 1 => LastsAt(d, e)'
    BY <1>4, <2>1, <2>2, <2>4
  <2>6. \A e \in 1..edits : LastsAt(d, e) => LastsAt(d, e)'
    BY <1>5, <2>1, <2>3, <2>4
  <2> QED BY <1>3, <2>4, <2>5, <2>6
<1>7. CASE BeginRecord(d, p)
  <2>1. Append(c, -(edits + 1)) \in Content
    BY <1>1 DEF Content
  <2>2. HasEdit(Append(c, -(edits + 1)), edits + 1)
    BY <1>1, AppendHas
  <2>3. \A e : HasEdit(c, e) => HasEdit(Append(c, -(edits + 1)), e)
    BY <1>1, AppendKeeps
  <2>4. Write(d, p, Append(c, -(edits + 1))) /\ edits' = edits + 1
    BY <1>7 DEF BeginRecord
  <2>5. \A e : e = edits + 1 => LastsAt(d, e)'
    BY <1>4, <2>1, <2>2, <2>4
  <2>6. \A e \in 1..edits : LastsAt(d, e) => LastsAt(d, e)'
    BY <1>5, <2>1, <2>3, <2>4
  <2> QED BY <1>3, <2>4, <2>5, <2>6
<1>8. CASE EndRecord(d, p)
  <2>1. c # <<>>
    BY <1>8 DEF EndRecord, IsPartial
  <2>2. Append(Front(c), -Last(c)) \in Content
    <3>1. Front(c) \in Content /\ -Last(c) \in Int
      BY <1>1, <2>1, FrontType, LastType
    <3> QED BY <3>1 DEF Content
  <2>3. \A e \in 1..edits : HasEdit(c, e) => HasEdit(Append(Front(c), -Last(c)), e)
    BY <1>1, <2>1, CompletionKeeps
  <2> QED BY <1>3, <1>5, <1>8, <2>2, <2>3 DEF EndRecord
<1> QED BY <1>2, <1>3, <1>6, <1>7, <1>8 DEF User

\* A staged run would restore what it found.
LEMMA LastsStage ==
  ASSUME TypeOK, NEW d \in Devices, Stage(d), NEW e, LastsAt(d, e)
  PROVE  LastsAt(d, e)'
<1>1. /\ run'[d].pc = "apply" /\ run'[d].plan = run[d].plan
      /\ run'[d].undo.files = Existing(d) /\ run'[d].undo.copies = copies[d]
      /\ UNCHANGED disk /\ run[d].pc = "plan"
  BY StageRun DEF Stage
<1>2. TakenPaths(d)' = TakenPaths(d)
  BY <1>1 DEF TakenPaths, Keys
<1>3. \A p \in Paths : Restored(d, p)' = Restored(d, p)
  BY <1>1, <1>2 DEF Restored, Existing, disk
<1>4. (RestoredCopies(d) \cup kept[d])' = RestoredCopies(d) \cup kept[d]
  BY <1>1 DEF RestoredCopies, disk
<1> QED BY <1>1, <1>3, <1>4 DEF LastsAt, disk

\* Replacing a file or adding a copy changes nothing that is restored.
LEMMA LastsReplace ==
  ASSUME TypeOK, AppliesPlanned, NEW d \in Devices, NEW p \in Paths,
         Replace(d, p) \/ AddCopy(d, p), NEW e, LastsAt(d, e)
  PROVE  /\ LastsAt(d, e)'
         /\ run'[d].undo.copies = run[d].undo.copies /\ copies[d] \subseteq copies'[d]
<1>1. /\ run[d].pc = "apply" /\ run'[d].pc = "apply"
      /\ run'[d].plan = run[d].plan /\ run'[d].undo = run[d].undo /\ kept' = kept
  BY PassRun DEF Replace, AddCopy, Applying, SameRest
<1>2. TakenPaths(d)' = TakenPaths(d)
  BY <1>1 DEF TakenPaths, Keys
<1>3. \A q \in Paths : q \notin TakenPaths(d) => live'[d][q] = live[d][q]
  BY DEF Replace, AddCopy, Applying, IsNext, AppliesPlanned, TakenPaths, TypeOK, Dict
<1>4. \A q \in Paths : Restored(d, q)' = Restored(d, q)
  BY <1>1, <1>2, <1>3 DEF Restored
<1>5. (RestoredCopies(d) \cup kept[d])' = RestoredCopies(d) \cup kept[d]
  BY <1>1 DEF RestoredCopies
<1>6. copies[d] \subseteq copies'[d]
  BY DEF Replace, AddCopy, TypeOK
<1> QED BY <1>1, <1>4, <1>5, <1>6 DEF LastsAt

\* A completed or interrupted apply keeps what it replaced beside the files.
LEMMA LastsKeep ==
  ASSUME TypeOK, CopiesStay, NEW d \in Devices, FinishApply(d) \/ CrashInApply(d),
         NEW e, LastsAt(d, e)
  PROVE  LastsAt(d, e)'
<1>1. /\ run[d].pc = "apply" /\ run'[d].pc # "apply" /\ UNCHANGED <<live, copies>>
      /\ kept'[d] = kept[d] \cup Backup(d)
  BY FinishApplyRun, IdleAgain DEF FinishApply, CrashInApply, Keep, TypeOK, IdleRun
<1>2. RestoredCopies(d) \cup kept[d] \subseteq RestoredCopies(d)' \cup kept'[d]
  BY <1>1 DEF RestoredCopies, CopiesStay
<1>3. CASE \E x \in RestoredCopies(d) \cup kept[d] : HasEdit(x[2], e)
  BY <1>2, <1>3 DEF LastsAt
<1>4. ASSUME NEW p \in Paths, Restored(d, p) # None, HasEdit(Restored(d, p).data, e)
      PROVE  LastsAt(d, e)'
  <2>1. CASE p \in TakenPaths(d)
    <3>1. <<p, run[d].undo.files[p].data>> \in kept'[d]
      BY <1>1, <1>4, <2>1 DEF Restored, Backup, Keys
    <3>2. HasEdit(<<p, run[d].undo.files[p].data>>[2], e)
      BY <1>1, <1>4, <2>1 DEF Restored
    <3> QED BY <3>1, <3>2 DEF LastsAt
  <2>2. CASE p \notin TakenPaths(d)
    BY <1>1, <1>4, <2>2 DEF Restored, LastsAt
  <2> QED BY <2>1, <2>2
<1> QED BY <1>3, <1>4 DEF LastsAt

\* A rollback restores what the invariant counts.
LEMMA LastsRollback ==
  ASSUME TypeOK, Intact, NEW d \in Devices, ApplyFails(d), NEW e, LastsAt(d, e)
  PROVE  LastsAt(d, e)'
<1>1. /\ run[d].pc = "apply" /\ run'[d].pc # "apply" /\ kept' = kept
      /\ copies'[d] = run[d].undo.copies
      /\ live'[d] = [p \in Paths |-> IF p \in TakenPaths(d) \ run[d].todo
                                        THEN run[d].undo.files[p] ELSE live[d][p]]
  BY IdleAgain DEF ApplyFails, TypeOK, IdleRun
<1>2. \A p \in Paths : Restored(d, p)' = Restored(d, p)
  BY <1>1 DEF Restored, Intact, IntactAt
<1>3. (RestoredCopies(d) \cup kept[d])' = RestoredCopies(d) \cup kept[d]
  BY <1>1 DEF RestoredCopies
<1> QED BY <1>2, <1>3 DEF LastsAt

\* The steps of a run, and its failures, before and after the apply.
OffDisk(d) ==
  \/ BuildManifest(d) \/ Announce(d) \/ AnnounceFails(d) \/ StartPlan(d) \/ SaveState(d)
  \/ Crash(d) \/ \E q \in Devices : ReadPeer(d, q)
  \/ \E p \in Paths : \/ PublishNothing(d, p) \/ PublishPresent(d, p) \/ Upload(d, p)
                      \/ UploadFails(d, p) \/ PlanTake(d, p) \/ PlanConflict(d, p)
                      \/ PlanNothing(d, p) \/ FetchFails(d, p)

\* They start and end outside of it and leave d's disk alone.
LEMMA OffDiskRun ==
  ASSUME TypeOK, NEW d \in Devices, OffDisk(d)
  PROVE  run[d].pc # "apply" /\ run'[d].pc # "apply" /\ UNCHANGED disk
<1>1. ASSUME NEW p, Pass(d, p), run[d].pc # "apply" PROVE run'[d].pc # "apply"
  BY <1>1, PassRun
<1>2. ASSUME NEW p \in Paths,
             \/ PublishPresent(d, p) \/ Upload(d, p)
             \/ PlanTake(d, p) \/ PlanConflict(d, p)
      PROVE  run[d].pc # "apply" /\ run'[d].pc # "apply" /\ UNCHANGED disk
  BY <1>2, RecordRun, PlannedRun
     DEF PublishPresent, Upload, Publishing, PlanTake, PlanConflict, Planning
<1>3. ASSUME NEW p \in Paths,
             \/ PublishNothing(d, p) \/ UploadFails(d, p)
             \/ PlanNothing(d, p) \/ FetchFails(d, p)
      PROVE  run[d].pc # "apply" /\ run'[d].pc # "apply" /\ UNCHANGED disk
  BY <1>1, <1>3
     DEF PublishNothing, UploadFails, UploadProblem, Publishing, PlanNothing, FetchFails, Planning
<1>4. CASE AnnounceFails(d) \/ SaveState(d) \/ Crash(d)
  BY <1>4, IdleAgain DEF AnnounceFails, SaveState, NothingPlanned, Crash, IdleRun
<1>5. CASE BuildManifest(d) \/ Announce(d) \/ StartPlan(d)
  BY <1>5, BuildRun, AnnounceRun, StartPlanRun DEF BuildManifest, Announce, StartPlan
<1>6. ASSUME NEW q \in Devices, ReadPeer(d, q)
      PROVE  run[d].pc # "apply" /\ run'[d].pc # "apply" /\ UNCHANGED disk
  BY <1>6, ReadPeerRun DEF ReadPeer
<1> QED BY <1>2, <1>3, <1>4, <1>5, <1>6 DEF OffDisk

\* No step of d's run loses an edit of d, or the copies it found.
LEMMA LastsRun ==
  ASSUME TypeOK, AppliesPlanned, Intact, CopiesStay, NEW d \in Devices,
         RunStep(d) \/ Failure(d)
  PROVE  /\ \A e : LastsAt(d, e) => LastsAt(d, e)'
         /\ run'[d].pc = "apply" => run'[d].undo.copies \subseteq copies'[d]
<1>1. CASE OffDisk(d)
  BY <1>1, OffDiskRun, LastsUntouched DEF disk
<1>2. CASE Stage(d)
  <2>1. run'[d].undo.copies = copies[d] /\ copies' = copies
    BY <1>2, StageRun DEF Stage, disk
  <2>2. \A e : LastsAt(d, e) => LastsAt(d, e)'
    BY <1>2, LastsStage
  <2> QED BY <2>1, <2>2
<1>3. ASSUME NEW p \in Paths, Replace(d, p) \/ AddCopy(d, p)
      PROVE  /\ \A e : LastsAt(d, e) => LastsAt(d, e)'
             /\ run'[d].pc = "apply" => run'[d].undo.copies \subseteq copies'[d]
  <2>1. /\ run[d].pc = "apply" /\ run'[d].undo = run[d].undo
        /\ copies[d] \subseteq copies'[d]
    BY <1>3, PassRun DEF Replace, AddCopy, Applying, SameRest, TypeOK
  <2> QED BY <1>3, <2>1, LastsReplace DEF CopiesStay
<1>4. CASE FinishApply(d) \/ CrashInApply(d)
  BY <1>4, LastsKeep, FinishApplyRun, IdleAgain DEF CrashInApply, IdleRun
<1>5. CASE ApplyFails(d)
  <2>1. run'[d].pc # "apply"
    BY <1>5, IdleAgain DEF ApplyFails, IdleRun
  <2>2. \A e : LastsAt(d, e) => LastsAt(d, e)'
    BY <1>5, LastsRollback
  <2> QED BY <2>1, <2>2
<1>6. \/ OffDisk(d) \/ Stage(d) \/ FinishApply(d) \/ CrashInApply(d) \/ ApplyFails(d)
      \/ \E p \in Paths : Replace(d, p) \/ AddCopy(d, p)
  BY DEF RunStep, Failure, OffDisk
<1> QED BY <1>1, <1>2, <1>3, <1>4, <1>5, <1>6

\* Every step keeps every edit on the device that had it.
LEMMA EditsStep ==
  ASSUME NobodyDeletes, DiskIsQuiet, TypeOK, AppliesPlanned, Intact, CopiesStay, EditsLast,
         [Next]_vars
  PROVE  CopiesStay' /\ EditsLast'
<1> USE DEF CopiesStay
<1>1. edits \in Nat
  BY DEF TypeOK
<1>2. ASSUME \A d \in Devices, e \in 1..edits : LastsAt(d, e) => LastsAt(d, e)',
             \/ edits' = edits
             \/ edits' = edits + 1 /\ \E d \in Devices : \A e : e = edits + 1 => LastsAt(d, e)'
      PROVE  EditsLast'
  <2> SUFFICES ASSUME NEW e \in 1..(edits') PROVE (\E d \in Devices : LastsAt(d, e))'
    BY DEF EditsLast
  <2>1. CASE e \in 1..edits
    BY <1>2, <2>1 DEF EditsLast
  <2>2. CASE e \notin 1..edits
    <3>1. edits' = edits + 1 /\ e = edits + 1
      BY <1>1, <1>2, <2>2
    <3> QED BY <1>1, <1>2, <3>1
  <2> QED BY <2>1, <2>2
<1>3. CASE UNCHANGED <<disk, run, edits>>
  <2>1. \A d \in Devices, e \in 1..edits : LastsAt(d, e) => LastsAt(d, e)'
    BY <1>3 DEF disk, LastsAt, Restored, RestoredCopies, TakenPaths, Keys
  <2> QED BY <1>2, <1>3, <2>1 DEF disk
<1>4. ASSUME NEW d \in Devices, RunStep(d) \/ Failure(d) PROVE CopiesStay' /\ EditsLast'
  <2>1. /\ \A e : LastsAt(d, e) => LastsAt(d, e)'
        /\ run'[d].pc = "apply" => run'[d].undo.copies \subseteq copies'[d]
    BY <1>4, LastsRun
  <2>2. ASSUME NEW f \in Devices, f # d
        PROVE  /\ \A e : LastsAt(f, e) => LastsAt(f, e)'
               /\ run'[f].pc = "apply" => run'[f].undo.copies \subseteq copies'[f]
    BY <1>4, <2>2, OthersUntouched DEF LastsAt, Restored, RestoredCopies, TakenPaths, Keys
  <2>3. edits' = edits
    BY <1>4 DEF RunStep, Failure, BuildManifest, PublishNothing, PublishPresent,
         Upload, UploadFails, Announce, AnnounceFails, ReadPeer, StartPlan, PlanTake,
         PlanConflict, PlanNothing, FetchFails, Stage, Replace, AddCopy, FinishApply,
         ApplyFails, CrashInApply, Crash, SaveState
  <2> QED BY <1>2, <2>1, <2>2, <2>3
<1>5. ASSUME NEW d \in Devices, NEW p \in Paths, User(d, p) PROVE CopiesStay' /\ EditsLast'
  <2>1. /\ \A e \in 1..edits : LastsAt(d, e) => LastsAt(d, e)'
        /\ edits' = edits \/ (edits' = edits + 1 /\ \A e : e = edits + 1 => LastsAt(d, e)')
        /\ run' = run /\ UNCHANGED <<copies, kept>>
        /\ \A f \in Devices : f # d => live'[f] = live[f]
    BY <1>5, LastsUser
  <2>2. ASSUME NEW f \in Devices, f # d, NEW e, LastsAt(f, e) PROVE LastsAt(f, e)'
    BY <2>1, <2>2 DEF LastsAt, Restored, RestoredCopies, TakenPaths, Keys
  <2> QED BY <1>2, <2>1, <2>2
<1>6. UNCHANGED vars \/ Tick \/ SwitchBackend => UNCHANGED <<disk, run, edits>>
  BY DEF vars, Tick, SwitchBackend
<1> QED BY <1>3, <1>4, <1>5, <1>6 DEF Next

\* What lasts is on some disk.
LEMMA LastingSurvives ==
  ASSUME TypeOK, CopiesStay, NEW e, NEW d \in Devices, LastsAt(d, e)
  PROVE  Survives(e)
<1>1. CASE \E x \in RestoredCopies(d) \cup kept[d] : HasEdit(x[2], e)
  BY <1>1 DEF RestoredCopies, CopiesStay, Survives
<1>2. ASSUME NEW p \in Paths, Restored(d, p) # None, HasEdit(Restored(d, p).data, e)
      PROVE  Survives(e)
  <2>1. CASE run[d].pc = "apply" /\ p \in TakenPaths(d)
    <3>1. <<p, run[d].undo.files[p].data>> \in Backup(d)
      BY <1>2, <2>1 DEF Restored, Backup, Keys
    <3>2. HasEdit(<<p, run[d].undo.files[p].data>>[2], e)
      BY <1>2, <2>1 DEF Restored
    <3> QED BY <3>1, <3>2 DEF Survives
  <2>2. CASE ~(run[d].pc = "apply" /\ p \in TakenPaths(d))
    <3>1. Restored(d, p) = live[d][p]
      BY <2>2 DEF Restored
    <3> QED BY <1>2, <3>1 DEF Survives, Keys
  <2> QED BY <2>1, <2>2
<1> QED BY <1>1, <1>2 DEF LastsAt

\* If users delete nothing and write nothing between a backup and its
\* replacement, everything they wrote is in a file, conflict copy or backup,
\* whichever uploads, downloads, replacements or runs fail and whatever
\* becomes of the store (run_sync, sync.py; atomic_apply, apply.py).
THEOREM EditsSurvive ==
  ASSUME NobodyDeletes, DiskIsQuiet
  PROVE  Spec => []EveryEditSurvives
<1>1. Spec => [](TypeOK /\ AppliesPlanned)
  BY PlannedApplied
<1>2. Init => Intact /\ CopiesStay /\ EditsLast
  <2>1. Init => Intact /\ CopiesStay
    BY DEF Init, Intact, IntactAt, CopiesStay, IdleRun
  <2>2. Init => EditsLast
    BY DEF Init, EditsLast
  <2> QED BY <2>1, <2>2
<1>3. TypeOK /\ AppliesPlanned /\ Intact /\ CopiesStay /\ EditsLast /\ [Next]_vars
        => Intact' /\ CopiesStay' /\ EditsLast'
  BY IntactStep, EditsStep
<1>4. TypeOK /\ CopiesStay /\ EditsLast => EveryEditSurvives
  BY LastingSurvives DEF EditsLast, EveryEditSurvives
<1> QED BY <1>1, <1>2, <1>3, <1>4, PTL DEF Spec

-----------------------------------------------------------------------------
(***************************************************************************)
(* What a run overwrites, if users act only between runs.  The disk is     *)
(* then what the run's inventory says until the run itself replaces a      *)
(* file, so what planning found out about a file still holds when the file *)
(* is replaced.                                                            *)
(***************************************************************************)

\* Users act between runs, or when a run has only its state left to save.
UsersWait == EditPhases \subseteq {"idle", "save"}

\* Taking a peer's version of p costs nothing that only d has: the file is the
\* revision d last published or applied, the log a prefix of the version taken.
SafeToTake(d, p) ==
  live[d][p] # None =>
    /\ p \in Files => live[d][p].data = saved[d].applied[p]
    /\ p \in Logs => IsPrefix(WholeRecords(live[d][p].data), run[d].plan[p].data)

StillToTake(d) == {p \in TakenPaths(d) : run[d].pc = "apply" => p \in run[d].todo}

SettledAt(d) ==
  /\ run[d].pc \in {"publish", "peers", "plan"} => run[d].inventory = Inventory(d)
  /\ run[d].pc \in {"publish", "peers"} => run[d].plan = NoPaths
  /\ run[d].pc \in {"plan", "apply"} => \A p \in StillToTake(d) : SafeToTake(d, p)

Settled == \A d \in Devices : SettledAt(d)

\* The empty content is a prefix of every other.
LEMMA EmptyIsPrefix == ASSUME NEW c \in Content PROVE IsPrefix(<<>>, c)
BY DEF IsPrefix, Content

\* A log that offers no complete record has none.
LEMMA UnreadableLog ==
  ASSUME NEW d \in Devices, NEW p \in Logs, live[d][p] # None, ~Readable(d, p)
  PROVE  WholeRecords(live[d][p].data) = <<>>
BY DEF Readable, Snapshot

\* A decision to take a peer's version is safe when it is made.
LEMMA TakeIsSafe ==
  ASSUME TypeOK, NEW d \in Devices, SettledAt(d), NEW p \in Paths, PlanTake(d, p)
  PROVE  SafeToTake(d, p)'
<1> DEFINE c == live[d][p].data
          t == Candidate(d, p).data
<1> SUFFICES ASSUME live[d][p] # None
             PROVE  /\ p \in Files => c = saved[d].applied[p]
                    /\ p \in Logs => IsPrefix(WholeRecords(c), run'[d].plan[p].data)
  BY DEF SafeToTake, PlanTake, disk
<1>1. c \in Content /\ run[d].inventory[p] = c /\ Inventoried(d, p)
  BY NoneIsAbsent
     DEF PlanTake, Planning, SettledAt, Inventory, Inventoried, TypeOK, Dict, Version
<1>2. t \in Content /\ run'[d].plan[p].data = t
  <2>1. Bytes(t) = t /\ Planned(d, p, FALSE)
    BY DEF PlanTake, Verified
  <2>2. run'[d].plan = [run[d].plan EXCEPT ![p] = [keepBoth |-> FALSE, data |-> Bytes(t)]]
    BY <2>1, PlannedRun
  <2>3. run[d].plan \in Dict(Apply)
    BY DEF TypeOK, Run
  <2>4. t \in Content
    BY DEF PlanTake, Verified, Exists, TypeOK
  <2> QED BY <2>1, <2>2, <2>3, <2>4 DEF Dict
<1>3. TheirsExtends(d, p) \/ (PeerNewer(d, p) /\ Unedited(d, p))
  BY <1>1 DEF PlanTake, Takes
<1>4. CASE p \in Files
  <2>1. p \notin Logs
    BY <1>4, ConstantsOK
  <2>2. LocalDigest(d, p) = c /\ Unedited(d, p)
    BY <1>1, <1>3, <2>1 DEF TheirsExtends, HasOurs, LocalDigest
  <2> QED BY <2>1, <2>2 DEF Unedited, Baseline
<1>5. CASE p \in Logs
  <2>1. p \notin Files
    BY <1>5, ConstantsOK
  <2>2. CASE TheirsExtends(d, p)
    BY <1>2, <1>5, <2>1, <2>2 DEF TheirsExtends, Ours, Snapshot, IsStrictPrefix
  <2>3. CASE PeerNewer(d, p)
    <3>1. ~Readable(d, p)
      BY <1>1, <1>5, <2>3 DEF PeerNewer, HasOurs
    <3>2. WholeRecords(c) = <<>>
      BY <1>5, <3>1, UnreadableLog
    <3> QED BY <1>2, <2>1, <3>2, EmptyIsPrefix
  <2> QED BY <1>3, <2>2, <2>3
<1> QED BY <1>4, <1>5

\* A decision stays safe while neither the file, nor the plan for it, nor the
\* saved state changes.
LEMMA SafeStays ==
  ASSUME NEW d \in Devices, NEW p \in Paths, SafeToTake(d, p),
         live'[d][p] = live[d][p], saved'[d] = saved[d], run'[d].plan[p] = run[d].plan[p]
  PROVE  SafeToTake(d, p)'
BY DEF SafeToTake

\* The inventory is right while the files are.
LEMMA InventoryStays ==
  ASSUME NEW d \in Devices, live'[d] = live[d]
  PROVE  Inventory(d)' = Inventory(d)
BY DEF Inventory

\* Nothing is planned before planning starts.
LEMMA SettledBeforePlan ==
  ASSUME TypeOK, NEW d \in Devices, SettledAt(d),
         \/ BuildManifest(d) \/ Announce(d) \/ StartPlan(d)
         \/ \E q \in Devices : ReadPeer(d, q)
         \/ \E p \in Paths : \/ PublishNothing(d, p) \/ PublishPresent(d, p)
                             \/ Upload(d, p) \/ UploadFails(d, p)
  PROVE  SettledAt(d)'
<1>1. live'[d] = live[d]
  BY DEF BuildManifest, Announce, StartPlan, ReadPeer, PublishNothing, PublishPresent,
         Upload, UploadFails, disk
<1>2. CASE BuildManifest(d)
  <2>1. run'[d].pc = "publish" /\ run'[d].plan = NoPaths
    BY <1>2, BuildRun
  <2>2. run'[d].inventory = Inventory(d)
    BY <1>2 DEF BuildManifest, IdleRun, TypeOK
  <2> QED BY <1>1, <2>1, <2>2, InventoryStays DEF SettledAt
<1>3. ASSUME run[d].pc \in {"publish", "peers"}, run'[d].pc \in {"publish", "peers", "plan"},
             run'[d].plan = run[d].plan, run'[d].inventory = run[d].inventory
      PROVE  SettledAt(d)'
  <2>1. run'[d].plan = NoPaths
    BY <1>3 DEF SettledAt
  <2>2. StillToTake(d)' = {}
    BY <2>1 DEF StillToTake, TakenPaths, Keys, NoPaths
  <2> QED BY <1>1, <1>3, <2>1, <2>2, InventoryStays DEF SettledAt
<1>4. CASE Announce(d) \/ StartPlan(d)
  BY <1>3, <1>4, AnnounceRun, StartPlanRun DEF Announce, StartPlan, SameRest
<1>5. ASSUME NEW q \in Devices, ReadPeer(d, q) PROVE SettledAt(d)'
  <2>1. run[d] \in Run
    BY DEF TypeOK
  <2>2. run'[d] = [run[d] EXCEPT !.todo = @ \ {q},
           !.winner = [p \in Paths |-> Winner(run[d].winner[p], manifests[q][p])]]
    BY <1>5 DEF TypeOK, ReadPeer
  <2>3. run'[d].pc = run[d].pc /\ run'[d].plan = run[d].plan
        /\ run'[d].inventory = run[d].inventory
    BY <2>1, <2>2 DEF Run
  <2> QED BY <1>3, <1>5, <2>3 DEF ReadPeer
<1>6. ASSUME NEW p \in Paths, PublishNothing(d, p) \/ UploadFails(d, p) PROVE SettledAt(d)'
  BY <1>3, <1>6, PassRun DEF PublishNothing, UploadFails, UploadProblem, Publishing, SameRest
<1>7. ASSUME NEW p \in Paths, PublishPresent(d, p) \/ Upload(d, p) PROVE SettledAt(d)'
  BY <1>3, <1>7, RecordRun DEF PublishPresent, Upload, Publishing, SameRest
<1> QED BY <1>2, <1>4, <1>5, <1>6, <1>7

\* What is planned is safe, and stays so until the apply starts.
LEMMA SettledPlan ==
  ASSUME TypeOK, NEW d \in Devices, SettledAt(d), NEW p \in Paths,
         PlanTake(d, p) \/ PlanConflict(d, p) \/ PlanNothing(d, p) \/ FetchFails(d, p)
  PROVE  SettledAt(d)'
<1>1. /\ UNCHANGED <<live, saved>> /\ run[d].pc = "plan"
      /\ run[d].plan \in Dict(Apply)
  BY DEF PlanTake, PlanConflict, PlanNothing, FetchFails, Planning, disk, TypeOK, Run
<1>2. /\ run'[d].pc = "plan" /\ run'[d].inventory = run[d].inventory
      /\ \A q \in Paths : q # p => run'[d].plan[q] = run[d].plan[q]
      /\ \/ PlanTake(d, p)
         \/ run'[d].plan = run[d].plan
         \/ run'[d].plan[p].keepBoth = TRUE
  <2>1. CASE PlanNothing(d, p) \/ FetchFails(d, p)
    BY <1>1, <2>1, PassRun DEF PlanNothing, FetchFails, SameRest
  <2>2. ASSUME NEW both \in BOOLEAN, Planned(d, p, both)
        PROVE  /\ run'[d].pc = "plan" /\ run'[d].inventory = run[d].inventory
               /\ \A q \in Paths : q # p => run'[d].plan[q] = run[d].plan[q]
               /\ run'[d].plan[p].keepBoth = both
    <3>1. /\ run'[d].pc = run[d].pc /\ run'[d].inventory = run[d].inventory
          /\ run'[d].plan = [run[d].plan EXCEPT ![p] =
                               [keepBoth |-> both, data |-> Bytes(Candidate(d, p).data)]]
      BY <2>2, PlannedRun DEF SameRest
    <3> QED BY <1>1, <3>1 DEF Dict
  <2> QED BY <2>1, <2>2 DEF PlanTake, PlanConflict
<1>3. ASSUME NEW q \in StillToTake(d)' PROVE SafeToTake(d, q)'
  <2>1. q \in Paths /\ q \in Keys(run'[d].plan) /\ ~run'[d].plan[q].keepBoth
    BY DEF StillToTake, TakenPaths, Keys
  <2>2. CASE q = p /\ PlanTake(d, p)
    BY <2>2, TakeIsSafe
  <2>3. CASE ~(q = p /\ PlanTake(d, p))
    <3>1. run'[d].plan[q] = run[d].plan[q]
      BY <1>2, <2>1, <2>3
    <3>2. q \in StillToTake(d)
      BY <1>1, <2>1, <3>1 DEF StillToTake, TakenPaths, Keys
    <3> QED BY <1>1, <2>1, <3>1, <3>2, SafeStays DEF SettledAt
  <2> QED BY <2>2, <2>3
<1> QED BY <1>1, <1>2, <1>3, InventoryStays DEF SettledAt

\* Applying leaves the files still to be replaced as planning found them.
LEMMA SettledApply ==
  ASSUME TypeOK, NEW d \in Devices, SettledAt(d),
         Stage(d) \/ \E p \in Paths : Replace(d, p) \/ AddCopy(d, p)
  PROVE  SettledAt(d)'
<1>1. /\ run[d].pc \in {"plan", "apply"} /\ run'[d].pc = "apply" /\ saved' = saved
      /\ run'[d].plan = run[d].plan
  BY StageRun, PassRun DEF Stage, Replace, AddCopy, Applying
<1>2. ASSUME NEW q \in StillToTake(d)'
      PROVE  q \in StillToTake(d) /\ q \in Paths /\ live'[d][q] = live[d][q]
  <2>1. q \in TakenPaths(d) /\ q \in run'[d].todo /\ q \in Paths
    BY <1>1 DEF StillToTake, TakenPaths, Keys
  <2>2. CASE Stage(d)
    BY <2>1, <2>2 DEF Stage, StillToTake, disk
  <2>3. ASSUME NEW p \in Paths, Replace(d, p) \/ AddCopy(d, p)
        PROVE  q \in StillToTake(d) /\ live'[d][q] = live[d][q]
    <3>1. q # p /\ q \in run[d].todo
      BY <2>1, <2>3, PassRun DEF Replace, AddCopy
    <3> QED BY <2>1, <2>3, <3>1 DEF StillToTake, Replace, AddCopy, TypeOK, Dict
  <2> QED BY <2>1, <2>2, <2>3
<1>3. ASSUME NEW q \in StillToTake(d)' PROVE SafeToTake(d, q)'
  BY <1>1, <1>2, SafeStays DEF SettledAt
<1> QED BY <1>1, <1>3 DEF SettledAt

\* Every step keeps the decisions of every run safe.
LEMMA SettledStep ==
  ASSUME UsersWait, TypeOK, Settled, [Next]_vars
  PROVE  Settled'
<1>1. ASSUME NEW d \in Devices, run'[d] = run[d], live'[d] = live[d], saved'[d] = saved[d]
      PROVE  SettledAt(d)'
  <2>1. StillToTake(d)' = StillToTake(d) /\ StillToTake(d) \subseteq Paths
    BY <1>1 DEF StillToTake, TakenPaths, Keys
  <2>2. SettledAt(d)
    BY DEF Settled
  <2>3. run[d].pc \in {"plan", "apply"} => \A p \in StillToTake(d) : SafeToTake(d, p)'
    BY <1>1, <2>1, <2>2, SafeStays DEF SettledAt
  <2> QED BY <1>1, <2>1, <2>2, <2>3, InventoryStays DEF SettledAt
<1>2. ASSUME NEW d \in Devices, run'[d].pc \in {"idle", "save"} PROVE SettledAt(d)'
  BY <1>2 DEF SettledAt
<1>3. CASE UNCHANGED <<run, live, saved>>
  BY <1>1, <1>3 DEF Settled
<1>4. ASSUME NEW d \in Devices, RunStep(d) \/ Failure(d) PROVE Settled'
  <2>1. \A e \in Devices : e # d => SettledAt(e)'
    BY <1>1, <1>4, OthersUntouched
  <2>2. SettledAt(d)
    BY DEF Settled
  <2>3. ASSUME Forget(d) \/ SaveState(d) \/ FinishApply(d) PROVE SettledAt(d)'
    BY <1>2, <2>3, IdleAgain, FinishApplyRun DEF IdleRun
  <2>4. ASSUME RunStep(d) PROVE SettledAt(d)'
    BY <2>2, <2>3, <2>4, SettledBeforePlan, SettledPlan, SettledApply DEF RunStep
  <2>5. ASSUME Failure(d) PROVE SettledAt(d)'
    BY <2>2, <2>3, <2>5, SettledBeforePlan, SettledPlan
       DEF Failure, AnnounceFails, ApplyFails, CrashInApply, Crash
  <2> QED BY <1>4, <2>1, <2>4, <2>5 DEF Settled
<1>5. ASSUME NEW d \in Devices, NEW p \in Paths, User(d, p) PROVE Settled'
  <2>1. /\ run' = run /\ saved' = saved /\ run[d].pc \in {"idle", "save"}
        /\ \A e \in Devices : e # d => live'[e] = live[e]
    BY <1>5 DEF UsersWait, TypeOK, User, Edit, BeginRecord, EndRecord, Delete, MayAct, Write
  <2> QED BY <1>1, <1>2, <2>1 DEF Settled
<1>6. UNCHANGED vars \/ Tick \/ SwitchBackend => UNCHANGED <<run, live, saved>>
  BY DEF vars, Tick, SwitchBackend, disk
<1> QED BY <1>3, <1>4, <1>5, <1>6 DEF Next

\* One step of FreshEditNotOverwritten, of LogsOnlyGrow and of
\* OverwrittenWasPublished.
FreshStep ==
  \A d \in Devices, p \in Files :
    Overwrites(d, p) /\ run'[d].pc = "apply" => live[d][p].data = saved[d].applied[p]

GrowStep ==
  \A d \in Devices, p \in Logs :
    Overwrites(d, p) /\ run'[d].pc = "apply"
      => IsPrefix(WholeRecords(live[d][p].data), live'[d][p].data)

PublishedStep ==
  \A d \in Devices, p \in Files :
    Overwrites(d, p) /\ run'[d].pc = "apply" => live[d][p].data \in objects

\* What an apply overwrites is a file it was safe to take.
LEMMA OverwritesSafely ==
  ASSUME TypeOK, AppliesPlanned, Settled, [Next]_vars,
         NEW d \in Devices, NEW p \in Paths, Overwrites(d, p), run'[d].pc = "apply"
  PROVE  SafeToTake(d, p) /\ live[d][p] # None /\ live'[d][p].data = run[d].plan[p].data
<1>1. run'[d] # run[d] /\ live[d][p] # None /\ live'[d][p] # live[d][p]
  BY DEF Overwrites
<1>2. ~ApplyFails(d)
  BY IdleAgain DEF ApplyFails, IdleRun
<1>3. PICK q \in Paths : Replace(d, q)
  BY <1>1, <1>2, WhoWrites
<1>4. q = p
  BY <1>1, <1>3 DEF Replace, TypeOK, Dict
<1>5. /\ run[d].pc = "apply" /\ p \in run[d].todo /\ p \in Keys(run[d].plan)
      /\ ~run[d].plan[p].keepBoth
  BY <1>3, <1>4 DEF Replace, Applying, IsNext, AppliesPlanned
<1>6. p \in StillToTake(d)
  BY <1>5 DEF StillToTake, TakenPaths
<1>7. SafeToTake(d, p)
  BY <1>5, <1>6 DEF Settled, SettledAt
<1>8. live'[d][p].data = run[d].plan[p].data
  BY <1>3, <1>4 DEF Replace, TypeOK, Dict
<1> QED BY <1>1, <1>7, <1>8

\* Along every behaviour with users that wait, decisions are safe.
LEMMA AlwaysSettled == ASSUME UsersWait PROVE Spec => []Settled
<1>1. Init => Settled
  BY DEF Init, Settled, SettledAt, IdleRun
<1>2. TypeOK /\ Settled /\ [Next]_vars => Settled'
  BY SettledStep
<1> QED BY <1>1, <1>2, TypeCorrect, PTL DEF Spec

\* If users act between runs, a run overwrites a file only when it is the
\* revision this device last published or applied in a run that completed:
\* the baseline of reconcile, read before publish, protects a newer edit
\* whatever failed in between (pull, sync.py).
THEOREM FreshEditsKept == ASSUME UsersWait PROVE Spec => FreshEditNotOverwritten
<1>1. TypeOK /\ AppliesPlanned /\ Settled /\ [Next]_vars => [FreshStep]_vars
  BY OverwritesSafely DEF FreshStep, SafeToTake, Paths
<1>2. Spec => [][FreshStep]_vars
  BY <1>1, AlwaysSettled, PlannedApplied, PTL DEF Spec
<1> QED BY <1>2 DEF FreshStep, FreshEditNotOverwritten

\* If users act between runs, no run takes a complete record out of a log
\* (reconcile_streams: only a log that extends ours replaces it).
THEOREM LogsGrow == ASSUME UsersWait PROVE Spec => LogsOnlyGrow
<1>1. TypeOK /\ AppliesPlanned /\ Settled /\ [Next]_vars => [GrowStep]_vars
  BY OverwritesSafely DEF GrowStep, SafeToTake, Paths
<1>2. Spec => [][GrowStep]_vars
  BY <1>1, AlwaysSettled, PlannedApplied, PTL DEF Spec
<1> QED BY <1>2 DEF GrowStep, LogsOnlyGrow

-----------------------------------------------------------------------------
(***************************************************************************)
(* The baseline is backed by the store: a digest enters `applied` only     *)
(* with an object behind it.                                               *)
(***************************************************************************)
StoredDict(m, os) == \A p \in Paths : m[p] # None => m[p] \in os

AppliedStored ==
  \A d \in Devices : /\ StoredDict(mem[d].applied, objects)
                      /\ StoredDict(saved[d].applied, objects)

\* What d's run remembers and saves afterwards was remembered, saved, or is
\* one more digest with an object behind it.
LEMMA AppliedRun ==
  ASSUME StoreIsSound, TypeOK, Backed, AppliedStored, NEW d \in Devices,
         RunStep(d) \/ Failure(d)
  PROVE  /\ objects \subseteq objects'
         /\ StoredDict(mem'[d].applied, objects')
         /\ StoredDict(saved'[d].applied, objects')
<1> DEFINE Goal == /\ objects \subseteq objects'
                  /\ StoredDict(mem'[d].applied, objects')
                  /\ StoredDict(saved'[d].applied, objects')
<1>1. mem[d] \in Saved /\ saved[d] \in Saved
  BY DEF TypeOK
<1>2. ASSUME objects \subseteq objects', mem'[d] \in {mem[d], saved[d]},
             saved'[d] \in {mem[d], saved[d]}
      PROVE  Goal
  BY <1>2 DEF AppliedStored, StoredDict
<1>3. ASSUME NEW p \in Paths, NEW dg \in objects', objects \subseteq objects', saved' = saved,
             mem'[d].applied = [mem[d].applied EXCEPT ![p] = dg]
      PROVE  Goal
  BY <1>1, <1>3 DEF AppliedStored, StoredDict, Saved, Dict
<1>4. ASSUME NEW p \in Paths, PublishPresent(d, p) \/ Upload(d, p) PROVE Goal
  <2> DEFINE dg == Snapshot(p, live[d][p].data)
  <2>1. mem'[d].applied = [mem[d].applied EXCEPT ![p] = dg]
    BY <1>1, <1>4 DEF PublishPresent, Upload, Record, TypeOK, Saved
  <2>2. dg \in objects' /\ objects \subseteq objects' /\ saved' = saved
    BY <1>4 DEF PublishPresent, Upload, SkipsUpload, Exists, Backed, store
  <2> QED BY <1>3, <2>1, <2>2
<1>5. ASSUME NEW p \in Paths, PlanTake(d, p) PROVE Goal
  <2>1. mem'[d].applied = [mem[d].applied EXCEPT ![p] = Candidate(d, p).data]
    BY <1>1, <1>5 DEF PlanTake, TypeOK, Saved
  <2>2. Candidate(d, p).data \in objects' /\ objects' = objects /\ saved' = saved
    BY <1>5 DEF PlanTake, Verified, Exists, Backed, store
  <2> QED BY <1>3, <2>1, <2>2
<1>6. ASSUME NEW p \in Paths, PublishNothing(d, p) \/ UploadFails(d, p) \/ PlanConflict(d, p)
                             \/ PlanNothing(d, p) \/ FetchFails(d, p)
                             \/ Replace(d, p) \/ AddCopy(d, p)
      PROVE  Goal
  <2>1. mem' = mem /\ saved' = saved /\ objects \subseteq objects'
    BY <1>6 DEF PublishNothing, UploadFails, UploadProblem, PlanConflict, PlanNothing,
                FetchFails, Replace, AddCopy, Pass, store
  <2> QED BY <1>2, <2>1
<1>7. ASSUME \/ BuildManifest(d) \/ Announce(d) \/ AnnounceFails(d) \/ StartPlan(d) \/ Stage(d)
             \/ FinishApply(d) \/ SaveState(d) \/ ApplyFails(d) \/ CrashInApply(d) \/ Crash(d)
             \/ \E q \in Devices : ReadPeer(d, q)
      PROVE  Goal
  <2>1. /\ objects' = objects
        /\ mem'[d] \in {mem[d], saved[d]} /\ saved'[d] \in {mem[d], saved[d]}
    BY <1>7 DEF BuildManifest, Announce, AnnounceFails, StartPlan, Stage, FinishApply,
                SaveState, ApplyFails, CrashInApply, Crash, ReadPeer, Forget, TypeOK, store
  <2> QED BY <1>2, <2>1
<1> QED BY <1>4, <1>5, <1>6, <1>7 DEF RunStep, Failure

\* Every step keeps the baseline backed.
LEMMA AppliedStep ==
  ASSUME StoreIsSound, TypeOK, Backed, AppliedStored, [Next]_vars
  PROVE  AppliedStored'
<1>1. ASSUME UNCHANGED <<objects, mem, saved>> PROVE AppliedStored'
  BY <1>1 DEF AppliedStored, StoredDict
<1>2. ASSUME NEW d \in Devices, RunStep(d) \/ Failure(d) PROVE AppliedStored'
  <2>1. /\ objects \subseteq objects'
        /\ StoredDict(mem'[d].applied, objects') /\ StoredDict(saved'[d].applied, objects')
    BY <1>2, AppliedRun
  <2>2. ASSUME NEW e \in Devices, e # d
        PROVE  StoredDict(mem'[e].applied, objects') /\ StoredDict(saved'[e].applied, objects')
    BY <1>2, <2>1, <2>2, OthersUntouched DEF AppliedStored, StoredDict
  <2> QED BY <2>1, <2>2 DEF AppliedStored
<1>3. ~SwitchBackend
  BY DEF StoreIsSound, SwitchBackend, MayFail
<1>4. ASSUME NEW d \in Devices, NEW p \in Paths, User(d, p) PROVE AppliedStored'
  BY <1>1, <1>4 DEF User, Edit, BeginRecord, EndRecord, Delete, store
<1>5. CASE Tick \/ UNCHANGED vars
  BY <1>1, <1>5 DEF Tick, vars, store
<1> QED BY <1>2, <1>3, <1>4, <1>5 DEF Next

\* Over a sound store, if users act between runs, another device can still get
\* whatever a run overwrites: publish uploads a version before it becomes the
\* baseline that lets a peer's version replace it (publish and pull, sync.py).
THEOREM OverwrittenPublished ==
  ASSUME UsersWait, StoreIsSound
  PROVE  Spec => OverwrittenWasPublished
<1>1. Spec => [](TypeOK /\ AppliesPlanned)
  BY PlannedApplied
<1>2. Spec => []Settled
  BY AlwaysSettled
<1>3. Spec => []Backed
  BY AlwaysBacked
<1>4. Init => AppliedStored
  BY DEF Init, AppliedStored, StoredDict, NoState, NoPaths
<1>5. TypeOK /\ Backed /\ AppliedStored /\ [Next]_vars => AppliedStored'
  BY AppliedStep
<1>6. TypeOK /\ AppliesPlanned /\ Settled /\ AppliedStored /\ [Next]_vars => [PublishedStep]_vars
  <2> SUFFICES ASSUME TypeOK, AppliesPlanned, Settled, AppliedStored, [Next]_vars,
                      NEW d \in Devices, NEW p \in Files, Overwrites(d, p), run'[d].pc = "apply"
               PROVE  live[d][p].data \in objects
    BY DEF PublishedStep
  <2>1. p \in Paths
    BY DEF Paths
  <2>2. live[d][p].data = saved[d].applied[p] /\ live[d][p] # None
    BY <2>1, OverwritesSafely DEF SafeToTake
  <2>3. saved[d].applied[p] # None
    BY <2>1, <2>2, NoneIsAbsent DEF TypeOK, Dict, Version
  <2> QED BY <2>1, <2>2, <2>3 DEF AppliedStored, StoredDict
<1>7. Spec => [][PublishedStep]_vars
  BY <1>1, <1>2, <1>3, <1>4, <1>5, <1>6, PTL DEF Spec
<1> QED BY <1>7 DEF PublishedStep, OverwrittenWasPublished
=============================================================================
