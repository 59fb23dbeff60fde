-------------------------- MODULE AgentSyncProofs --------------------------
(***************************************************************************)
(* Theorems about AgentSync, for every set of devices and paths, every     *)
(* bound, and (unless a theorem says otherwise) every kind of failure.     *)
(***************************************************************************)
EXTENDS AgentSync, TLAPS

(***************************************************************************)
(* Contents.                                                               *)
(***************************************************************************)

\* Cutting a content before its last edit leaves a content.
LEMMA FrontType == ASSUME NEW c \in Content, c # <<>> PROVE Front(c) \in Content
BY DEF Front, Content

\* The last edit of a content is a number.
LEMMA LastType == ASSUME NEW c \in Content, c # <<>> PROVE Last(c) \in Int
BY DEF Last, Content

\* What read_snapshot publishes for a content is a content.
LEMMA SnapshotType ==
  ASSUME NEW p \in Paths, NEW c \in Content
  PROVE  Snapshot(p, c) \in Content
BY FrontType DEF Snapshot, WholeRecords, IsPartial

\* What a device holds under a path is a content.
LEMMA HeldType ==
  ASSUME TypeOK, NEW d \in Devices, NEW p \in Paths
  PROVE  Held(d, p) \in Content
BY DEF TypeOK, Held, Dict, Version, Content

\* The backup made by atomic_apply holds contents of paths.
LEMMA BackupType ==
  ASSUME TypeOK, NEW d \in Devices
  PROVE  Backup(d) \subseteq Paths \X Content
BY DEF TypeOK, Backup, Run, Dict, Keys, Version

-----------------------------------------------------------------------------
(***************************************************************************)
(* What the steps leave of d's run: the values of its fields afterwards.   *)
(***************************************************************************)

\* A step of d's run concerns nobody else's run or disk.
LEMMA OthersUntouched ==
  ASSUME TypeOK, NEW d \in Devices, RunStep(d) \/ Failure(d),
         NEW e \in Devices, e # d
  PROVE  /\ run'[e] = run[e] /\ mem'[e] = mem[e] /\ saved'[e] = saved[e]
         /\ manifests'[e] = manifests[e]
         /\ live'[e] = live[e] /\ copies'[e] = copies[e] /\ kept'[e] = kept[e]
BY DEF TypeOK, RunStep, Failure, BuildManifest, PublishNothing, PublishPresent,
       Upload, UploadFails, UploadProblem, Announce, AnnounceFails, ReadPeer,
       StartPlan, PlanTake, PlanConflict, PlanNothing, FetchFails, Planned,
       Stage, Replace, AddCopy, FinishApply, ApplyFails, CrashInApply, Crash,
       SaveState, Pass, Record, Forget, Keep, disk, store

SameRest(d) ==
  /\ run'[d].inventory = run[d].inventory /\ run'[d].winner = run[d].winner
  /\ run'[d].staged = run[d].staged /\ run'[d].undo = run[d].undo

\* A path passed over leaves the run as it was, without that path.
LEMMA PassRun ==
  ASSUME TypeOK, NEW d \in Devices, NEW p, Pass(d, p)
  PROVE  /\ run'[d].pc = run[d].pc /\ run'[d].todo = run[d].todo \ {p}
         /\ run'[d].entries = run[d].entries /\ run'[d].plan = run[d].plan
         /\ SameRest(d)
<1>1. run[d] \in Run
  BY DEF TypeOK
<1>2. run'[d] = [run[d] EXCEPT !.todo = @ \ {p}]
  BY DEF TypeOK, Pass
<1> QED BY <1>1, <1>2 DEF Run, SameRest

\* A path recorded is an entry of the manifest being built.
LEMMA RecordRun ==
  ASSUME TypeOK, NEW d \in Devices, NEW p \in Paths, Record(d, p)
  PROVE  /\ run'[d].pc = run[d].pc /\ run'[d].todo = run[d].todo \ {p}
         /\ run'[d].entries =
              [run[d].entries EXCEPT ![p] = [data  |-> Snapshot(p, live[d][p].data),
                                             mtime |-> live[d][p].mtime]]
         /\ run'[d].plan = run[d].plan
         /\ SameRest(d)
<1> DEFINE entry == [data |-> Snapshot(p, live[d][p].data), mtime |-> live[d][p].mtime]
<1>1. run[d] \in Run
  BY DEF TypeOK
<1>2. run'[d] = [run[d] EXCEPT !.todo = @ \ {p}, !.entries[p] = entry]
  BY DEF TypeOK, Record
<1> HIDE DEF entry
<1>3. /\ run'[d].pc = run[d].pc /\ run'[d].todo = run[d].todo \ {p}
      /\ run'[d].entries = [run[d].entries EXCEPT ![p] = entry]
      /\ run'[d].plan = run[d].plan /\ SameRest(d)
  BY <1>1, <1>2 DEF Run, SameRest
<1> QED BY <1>3 DEF entry

\* A planned path has its action in the plan.
LEMMA PlannedRun ==
  ASSUME TypeOK, NEW d \in Devices, NEW p \in Paths, NEW both, Planned(d, p, both)
  PROVE  /\ run'[d].pc = run[d].pc /\ run'[d].todo = run[d].todo \ {p}
         /\ run'[d].plan =
              [run[d].plan EXCEPT ![p] = [keepBoth |-> both,
                                          data |-> Bytes(Candidate(d, p).data)]]
         /\ run'[d].entries = run[d].entries
         /\ SameRest(d)
<1> DEFINE a == [keepBoth |-> both, data |-> Bytes(Candidate(d, p).data)]
<1>1. run[d] \in Run
  BY DEF TypeOK
<1>2. run'[d] = [run[d] EXCEPT !.todo = @ \ {p}, !.plan[p] = a]
  BY DEF TypeOK, Planned
<1> HIDE DEF a
<1>3. /\ run'[d].pc = run[d].pc /\ run'[d].todo = run[d].todo \ {p}
      /\ run'[d].plan = [run[d].plan EXCEPT ![p] = a]
      /\ run'[d].entries = run[d].entries /\ SameRest(d)
  BY <1>1, <1>2 DEF Run, SameRest
<1> QED BY <1>3 DEF a

\* What a run is after its inventory was built.
LEMMA BuildRun ==
  ASSUME TypeOK, NEW d \in Devices, BuildManifest(d)
  PROVE  run'[d].pc = "publish" /\ run'[d].entries = NoPaths /\ run'[d].plan = NoPaths
         /\ run'[d].winner = NoPaths /\ run'[d].undo = IdleRun.undo
BY DEF TypeOK, BuildManifest, IdleRun

\* What a run is after its manifest was uploaded.
LEMMA AnnounceRun ==
  ASSUME TypeOK, NEW d \in Devices, Announce(d)
  PROVE  /\ run'[d].pc = "peers" /\ run'[d].entries = NoPaths
         /\ run'[d].plan = run[d].plan
         /\ SameRest(d)
<1>1. run[d] \in Run
  BY DEF TypeOK
<1>2. run'[d] = [run[d] EXCEPT !.pc = "peers", !.todo = Devices \ {d},
                               !.entries = NoPaths]
  BY DEF TypeOK, Announce
<1> QED BY <1>1, <1>2 DEF Run, SameRest

\* What a run is after it read one more peer manifest.
LEMMA ReadPeerRun ==
  ASSUME TypeOK, NEW d \in Devices, NEW q, ReadPeer(d, q)
  PROVE  /\ run'[d].pc = run[d].pc
         /\ run'[d].winner = [p \in Paths |-> Winner(run[d].winner[p], manifests[q][p])]
         /\ run'[d].entries = run[d].entries /\ run'[d].plan = run[d].plan
         /\ run'[d].undo = run[d].undo
<1>1. run[d] \in Run
  BY DEF TypeOK
<1>2. run'[d] = [run[d] EXCEPT !.todo = @ \ {q},
         !.winner = [p \in Paths |-> Winner(run[d].winner[p], manifests[q][p])]]
  BY DEF TypeOK, ReadPeer
<1> QED BY <1>1, <1>2 DEF Run

\* What a run is when it starts to plan.
LEMMA StartPlanRun ==
  ASSUME TypeOK, NEW d \in Devices, StartPlan(d)
  PROVE  /\ run'[d].pc = "plan" /\ run'[d].entries = run[d].entries
         /\ run'[d].plan = run[d].plan /\ SameRest(d)
<1>1. run[d] \in Run
  BY DEF TypeOK
<1>2. run'[d] = [run[d] EXCEPT !.pc = "plan", !.todo = Keys(run[d].winner)]
  BY DEF TypeOK, StartPlan
<1> QED BY <1>1, <1>2 DEF Run, SameRest

\* A staged run applies its whole plan, over a backup of what is there.
LEMMA StageRun ==
  ASSUME TypeOK, NEW d \in Devices, Stage(d)
  PROVE  /\ run'[d].pc = "apply" /\ run'[d].todo = Keys(run[d].plan)
         /\ run'[d].plan = run[d].plan /\ run'[d].entries = run[d].entries
         /\ run'[d].winner = NoPaths
         /\ run'[d].undo.files = Existing(d) /\ run'[d].undo.copies = copies[d]
<1>1. run[d] \in Run
  BY DEF TypeOK
<1>2. run'[d] = [run[d] EXCEPT !.pc = "apply", !.todo = Keys(run[d].plan),
                   !.inventory = NoPaths, !.winner = NoPaths, !.staged = Now,
                   !.undo = [files |-> Existing(d), copies |-> copies[d]]]
  BY DEF TypeOK, Stage
<1> QED BY <1>1, <1>2 DEF Run

\* A run whose plan was applied has only its state to save.
LEMMA FinishApplyRun ==
  ASSUME TypeOK, NEW d \in Devices, FinishApply(d)
  PROVE  run'[d] = [IdleRun EXCEPT !.pc = "save"]
BY DEF TypeOK, FinishApply

\* A run that ends leaves the device idle.
LEMMA IdleAgain ==
  ASSUME TypeOK, NEW d \in Devices,
         Forget(d) \/ SaveState(d)
  PROVE  run'[d] = IdleRun
BY DEF TypeOK, Forget, SaveState

-----------------------------------------------------------------------------
(***************************************************************************)
(* Type correctness.                                                       *)
(***************************************************************************)

\* atomic_apply goes through the planned paths only.  TypeOK alone is not
\* inductive: a replacement takes its content from the plan.
AppliesPlanned ==
  \A d \in Devices : run[d].pc = "apply" => run[d].todo \subseteq Keys(run[d].plan)

\* The initial state has the types.
LEMMA TypeInit == Init => TypeOK
BY ConstantsOK
   DEF Init, TypeOK, NoPaths, NoState, IdleRun, Dict, Saved, Run, Phases

\* A write of the user keeps the files well-typed.
LEMMA WriteType ==
  ASSUME TypeOK, NEW d \in Devices, NEW p \in Paths, NEW c \in Content, Write(d, p, c)
  PROVE  live' \in [Devices -> Dict(Version)] /\ clock' \in Nat
BY DEF TypeOK, Write, Now, Dict, Version

\* The bookkeeping at the end of publish's loop body.
LEMMA RecordType ==
  ASSUME TypeOK, NEW d \in Devices, NEW p \in Paths, Readable(d, p), Record(d, p)
  PROVE  mem' \in [Devices -> Saved] /\ run' \in [Devices -> Run]
<1> DEFINE dg == Snapshot(p, live[d][p].data)
<1>1. live[d][p] \in Version
  BY DEF TypeOK, Readable, Dict
<1>2. dg \in Content /\ [data |-> dg, mtime |-> live[d][p].mtime] \in Version
  BY <1>1, SnapshotType DEF Version
<1>3. mem' \in [Devices -> Saved]
  BY <1>2, ZenonT(40) DEF TypeOK, Record, Saved, Dict
<1>4. run' \in [Devices -> Run]
  <2>1. run[d] \in Run
    BY DEF TypeOK
  <2>2. [run[d] EXCEPT !.todo = @ \ {p},
                       !.entries[p] = [data |-> dg, mtime |-> live[d][p].mtime]] \in Run
    BY <1>2, <2>1 DEF Run, Dict
  <2> QED BY <2>2 DEF TypeOK, Record
<1> QED BY <1>3, <1>4

\* Passing a path over keeps the types.
LEMMA PassType ==
  ASSUME TypeOK, NEW d \in Devices, NEW p, Pass(d, p)
  PROVE  mem' \in [Devices -> Saved] /\ run' \in [Devices -> Run]
<1>1. run[d] \in Run
  BY DEF TypeOK
<1>2. [run[d] EXCEPT !.todo = @ \ {p}] \in Run
  BY <1>1 DEF Run
<1> QED BY <1>2 DEF TypeOK, Pass

\* So does the end of a run.
LEMMA ForgetType ==
  ASSUME TypeOK, NEW d \in Devices, Forget(d)
  PROVE  mem' \in [Devices -> Saved] /\ run' \in [Devices -> Run]
BY DEF TypeOK, Forget, IdleRun, NoPaths, Run, Dict, Phases

\* Keeping what was overwritten keeps the type of the backups.
LEMMA KeepType ==
  ASSUME TypeOK, NEW d \in Devices, Keep(d)
  PROVE  kept' \in [Devices -> SUBSET (Paths \X Content)]
BY BackupType DEF TypeOK, Keep

\* The user's actions keep the types.
LEMMA TypeUser ==
  ASSUME TypeOK, NEW d \in Devices, NEW p \in Paths, User(d, p)
  PROVE  TypeOK'
<1>1. Held(d, p) \in Content
  BY HeldType
<1>2. CASE Edit(d, p)
  <2>1. Append(Held(d, p), edits + 1) \in Content
    BY <1>1 DEF Content, TypeOK
  <2> QED BY <1>2, <2>1, WriteType DEF Edit, TypeOK, store
<1>3. CASE BeginRecord(d, p)
  <2>1. Append(Held(d, p), -(edits + 1)) \in Content
    BY <1>1 DEF Content, TypeOK
  <2> QED BY <1>3, <2>1, WriteType DEF BeginRecord, TypeOK, store
<1>4. CASE EndRecord(d, p)
  <2>1. Append(Front(Held(d, p)), -Last(Held(d, p))) \in Content
    <3>1. Held(d, p) # <<>>
      BY <1>4 DEF EndRecord, IsPartial
    <3>2. Front(Held(d, p)) \in Content /\ -Last(Held(d, p)) \in Int
      BY <1>1, <3>1, FrontType, LastType
    <3> QED BY <3>2 DEF Content
  <2> QED BY <1>4, <2>1, WriteType DEF EndRecord, TypeOK, store
<1>5. CASE Delete(d, p)
  BY <1>5 DEF Delete, TypeOK, store, Dict
<1> QED BY <1>2, <1>3, <1>4, <1>5 DEF User

\* A content that was read back unchanged is a content.
LEMMA PlannedType ==
  ASSUME TypeOK, NEW d \in Devices, NEW p \in Paths, Planning(d, p),
         Verified(Candidate(d, p).data),
         NEW both \in BOOLEAN, Planned(d, p, both)
  PROVE  run' \in [Devices -> Run] /\ Candidate(d, p).data \in Content
<1>1. run[d] \in Run
  BY DEF TypeOK
<1>2. Candidate(d, p).data \in Content
  BY DEF Verified, Exists, TypeOK
<1>3. Bytes(Candidate(d, p).data) \in Content
  BY <1>2 DEF Verified
<1>4. [run[d] EXCEPT !.todo = @ \ {p},
        !.plan[p] = [keepBoth |-> both, data |-> Bytes(Candidate(d, p).data)]] \in Run
  BY <1>1, <1>3 DEF Run, Dict, Apply
<1> QED BY <1>2, <1>4 DEF TypeOK, Planned

\* The steps of a run keep the types.
LEMMA TypePublish ==
  ASSUME TypeOK, NEW d \in Devices, NEW p \in Paths,
         PublishNothing(d, p) \/ PublishPresent(d, p) \/ Upload(d, p) \/ UploadFails(d, p)
  PROVE  TypeOK'
<1>1. CASE PublishNothing(d, p)
  BY <1>1, PassType DEF PublishNothing, TypeOK, disk, store
<1>2. CASE PublishPresent(d, p)
  BY <1>2, RecordType DEF PublishPresent, TypeOK, disk, store
<1>3. Readable(d, p) => Snapshot(p, live[d][p].data) \in Content
  BY SnapshotType DEF Readable, TypeOK, Dict, Version
<1>4. CASE Upload(d, p)
  BY <1>3, <1>4, RecordType DEF Upload, TypeOK, disk
<1>5. CASE UploadFails(d, p)
  BY <1>3, <1>5, PassType DEF UploadFails, UploadProblem, MayFail, TypeOK, disk, store
<1> QED BY <1>1, <1>2, <1>4, <1>5

\* Reading the peers keeps the types.
LEMMA TypePeers ==
  ASSUME TypeOK, NEW d \in Devices,
         \/ BuildManifest(d) \/ Announce(d) \/ StartPlan(d)
         \/ \E q \in Devices : ReadPeer(d, q)
  PROVE  TypeOK'
<1>1. run[d] \in Run
  BY DEF TypeOK
<1>2. CASE BuildManifest(d)
  <2>1. Inventory(d) \in Dict(Content) /\ Keys(live[d]) \subseteq Paths
    BY DEF TypeOK, Inventory, Dict, Version, Keys
  <2>2. [IdleRun EXCEPT !.pc = "publish", !.todo = Keys(live[d]),
                        !.inventory = Inventory(d)] \in Run
    BY <2>1 DEF IdleRun, NoPaths, Run, Dict, Phases
  <2> QED BY <1>2, <2>2 DEF BuildManifest, TypeOK, disk, store
<1>3. CASE Announce(d)
  <2>1. [run[d] EXCEPT !.pc = "peers", !.todo = Devices \ {d},
                       !.entries = NoPaths] \in Run
    BY <1>1 DEF Run, NoPaths, Dict, Phases
  <2>2. run[d].entries \in Dict(Version)
    BY <1>1 DEF Run
  <2> QED BY <1>3, <2>1, <2>2 DEF Announce, TypeOK, disk
<1>4. CASE StartPlan(d)
  <2>1. [run[d] EXCEPT !.pc = "plan", !.todo = Keys(run[d].winner)] \in Run
    BY <1>1 DEF Run, Keys, Phases
  <2> QED BY <1>4, <2>1 DEF StartPlan, TypeOK, disk, store
<1>5. ASSUME NEW q \in Devices, ReadPeer(d, q) PROVE TypeOK'
  <2>1. [p \in Paths |-> Winner(run[d].winner[p], manifests[q][p])] \in Dict(Version)
    BY <1>1 DEF TypeOK, Run, Dict, Winner
  <2>2. [run[d] EXCEPT !.todo = @ \ {q},
           !.winner = [p \in Paths |-> Winner(run[d].winner[p], manifests[q][p])]] \in Run
    BY <1>1, <2>1 DEF Run
  <2> QED BY <1>5, <2>2 DEF ReadPeer, TypeOK, disk, store
<1> QED BY <1>2, <1>3, <1>4, <1>5

\* Planning keeps the types.
LEMMA TypePlan ==
  ASSUME TypeOK, NEW d \in Devices, NEW p \in Paths,
         PlanTake(d, p) \/ PlanConflict(d, p) \/ PlanNothing(d, p) \/ FetchFails(d, p)
  PROVE  TypeOK'
<1>1. CASE PlanTake(d, p)
  <2>1. run' \in [Devices -> Run] /\ Candidate(d, p).data \in Content
    BY <1>1, PlannedType DEF PlanTake
  <2>2. mem' \in [Devices -> Saved]
    BY <1>1, <2>1 DEF PlanTake, TypeOK, Saved, Dict
  <2> QED BY <1>1, <2>1, <2>2 DEF PlanTake, TypeOK, disk, store
<1>2. CASE PlanConflict(d, p)
  <2>1. run' \in [Devices -> Run]
    BY <1>2, PlannedType DEF PlanConflict
  <2> QED BY <1>2, <2>1 DEF PlanConflict, TypeOK, disk, store
<1>3. CASE PlanNothing(d, p)
  BY <1>3, PassType DEF PlanNothing, TypeOK, disk, store
<1>4. CASE FetchFails(d, p)
  BY <1>4, PassType DEF FetchFails, MayFail, TypeOK, disk, store
<1> QED BY <1>1, <1>2, <1>3, <1>4

\* Applying keeps the types.
LEMMA TypeApply ==
  ASSUME TypeOK, AppliesPlanned, NEW d \in Devices,
         \/ Stage(d) \/ FinishApply(d) \/ SaveState(d)
         \/ \E p \in Paths : Replace(d, p) \/ AddCopy(d, p)
  PROVE  TypeOK'
<1>1. run[d] \in Run
  BY DEF TypeOK
<1>2. CASE Stage(d)
  <2>1. Now \in Nat /\ Keys(run[d].plan) \subseteq Paths
    BY DEF Now, TypeOK, Keys
  <2>2. [files |-> Existing(d), copies |-> copies[d]]
          \in [files : Dict(Version), copies : SUBSET (Paths \X Content)]
    BY DEF TypeOK, Existing, Dict
  <2>3. [run[d] EXCEPT !.pc = "apply", !.todo = Keys(run[d].plan),
           !.inventory = NoPaths, !.winner = NoPaths, !.staged = Now,
           !.undo = [files |-> Existing(d), copies |-> copies[d]]] \in Run
    BY <1>1, <2>1, <2>2 DEF Run, NoPaths, Dict, Phases
  <2> QED BY <1>2, <2>1, <2>3 DEF Stage, TypeOK, disk, store
<1>3. CASE FinishApply(d)
  <2>1. [IdleRun EXCEPT !.pc = "save"] \in Run
    BY DEF IdleRun, NoPaths, Run, Dict, Phases
  <2> QED BY <1>3, <2>1, KeepType DEF FinishApply, TypeOK, store
<1>4. CASE SaveState(d)
  BY <1>4 DEF SaveState, TypeOK, disk, store, IdleRun, NoPaths, Run, Dict, Phases
<1>5. ASSUME NEW p \in Paths, Replace(d, p) PROVE TypeOK'
  <2>1. run[d].plan[p] \in Apply
    BY <1>1, <1>5 DEF Replace, Applying, IsNext, AppliesPlanned, Keys, Run, Dict
  <2>2. [data |-> run[d].plan[p].data, mtime |-> run[d].staged] \in Version
    BY <1>1, <2>1 DEF Apply, Version, Run
  <2>3. live' \in [Devices -> Dict(Version)]
    BY <1>5, <2>2 DEF Replace, TypeOK, Dict
  <2> QED BY <1>5, <2>3, PassType DEF Replace, TypeOK, store
<1>6. ASSUME NEW p \in Paths, AddCopy(d, p) PROVE TypeOK'
  <2>1. run[d].plan[p] \in Apply
    BY <1>1, <1>6 DEF AddCopy, Applying, IsNext, AppliesPlanned, Keys, Run, Dict
  <2>2. copies' \in [Devices -> SUBSET (Paths \X Content)]
    BY <1>6, <2>1 DEF AddCopy, TypeOK, Apply
  <2> QED BY <1>6, <2>2, PassType DEF AddCopy, TypeOK, store
<1> QED BY <1>2, <1>3, <1>4, <1>5, <1>6

\* Every way a run can fail keeps the types.
LEMMA TypeAbort ==
  ASSUME TypeOK, NEW d \in Devices,
         AnnounceFails(d) \/ ApplyFails(d) \/ CrashInApply(d) \/ Crash(d)
  PROVE  TypeOK'
<1>1. run[d] \in Run
  BY DEF TypeOK
<1>2. CASE AnnounceFails(d)
  <2>1. run[d].entries \in Dict(Version)
    BY <1>1 DEF Run
  <2> QED BY <1>2, <2>1, ForgetType DEF AnnounceFails, MayFail, TypeOK, disk
<1>3. CASE ApplyFails(d)
  <2>1. run[d].undo \in [files : Dict(Version), copies : SUBSET (Paths \X Content)]
    BY <1>1 DEF Run
  <2> QED BY <1>3, <2>1, ForgetType DEF ApplyFails, MayFail, TypeOK, store, Dict
<1>4. CASE CrashInApply(d)
  BY <1>4, ForgetType, KeepType DEF CrashInApply, MayFail, TypeOK, store
<1>5. CASE Crash(d)
  BY <1>5, ForgetType DEF Crash, MayFail, TypeOK, disk, store
<1> QED BY <1>2, <1>3, <1>4, <1>5

\* Every step keeps the types.
LEMMA TypeStep == TypeOK /\ AppliesPlanned /\ [Next]_vars => TypeOK'
<1> SUFFICES ASSUME TypeOK, AppliesPlanned, [Next]_vars PROVE TypeOK'
  OBVIOUS
<1>1. CASE UNCHANGED vars
  BY <1>1 DEF vars, disk, store, TypeOK
<1>2. CASE Tick
  BY <1>2 DEF Tick, TypeOK, disk, store
<1>3. CASE SwitchBackend
  BY <1>3 DEF SwitchBackend, MayFail, TypeOK, disk, NoPaths, Dict
<1>4. ASSUME NEW d \in Devices, RunStep(d) PROVE TypeOK'
  BY <1>4, TypePublish, TypePeers, TypePlan, TypeApply DEF RunStep
<1>5. ASSUME NEW d \in Devices, Failure(d) PROVE TypeOK'
  BY <1>5, TypePublish, TypePlan, TypeAbort DEF Failure
<1>6. ASSUME NEW d \in Devices, NEW p \in Paths, User(d, p) PROVE TypeOK'
  BY <1>6, TypeUser
<1> QED BY <1>1, <1>2, <1>3, <1>4, <1>5, <1>6 DEF Next

\* A step of a run leaves it applying only what it planned.
LEMMA PlannedOfRun ==
  ASSUME TypeOK, AppliesPlanned, NEW d \in Devices, RunStep(d) \/ Failure(d)
  PROVE  run'[d].pc = "apply" => run'[d].todo \subseteq Keys(run'[d].plan)
<1>1. ASSUME NEW p, Pass(d, p)
      PROVE  run'[d].pc = "apply" => run'[d].todo \subseteq Keys(run'[d].plan)
  BY <1>1, PassRun DEF AppliesPlanned
<1>2. CASE Stage(d)
  BY <1>2, StageRun
<1>3. CASE Forget(d) \/ SaveState(d)
  BY <1>3, IdleAgain DEF IdleRun
<1>4. CASE BuildManifest(d) \/ FinishApply(d)
  BY <1>4, BuildRun, FinishApplyRun DEF IdleRun
<1>5. CASE Announce(d) \/ StartPlan(d) \/ \E q \in Devices : ReadPeer(d, q)
  BY <1>5, AnnounceRun, StartPlanRun, ReadPeerRun DEF ReadPeer
<1>6. ASSUME NEW p \in Paths, PublishPresent(d, p) \/ Upload(d, p)
      PROVE  run'[d].pc # "apply"
  BY <1>6, RecordRun DEF PublishPresent, Upload, Publishing
<1>7. ASSUME NEW p \in Paths, PlanTake(d, p) \/ PlanConflict(d, p)
      PROVE  run'[d].pc # "apply"
  BY <1>7, PlannedRun DEF PlanTake, PlanConflict, Planning
<1>8. CASE RunStep(d)
  BY <1>1, <1>2, <1>3, <1>4, <1>5, <1>6, <1>7, <1>8
     DEF RunStep, PublishNothing, PlanNothing, Replace, AddCopy
<1>9. CASE Failure(d)
  BY <1>1, <1>3, <1>9
     DEF Failure, AnnounceFails, ApplyFails, CrashInApply, Crash, UploadFails,
         UploadProblem, FetchFails
<1> QED BY <1>8, <1>9

\* Every step applies only what the run planned.
LEMMA PlannedStep == TypeOK /\ AppliesPlanned /\ [Next]_vars => AppliesPlanned'
<1> SUFFICES ASSUME TypeOK, AppliesPlanned, [Next]_vars PROVE AppliesPlanned'
  OBVIOUS
<1>1. CASE UNCHANGED run
  BY <1>1 DEF AppliesPlanned
<1>2. ASSUME NEW d \in Devices, RunStep(d) \/ Failure(d) PROVE AppliesPlanned'
  BY <1>2, PlannedOfRun, OthersUntouched DEF AppliesPlanned
<1>3. UNCHANGED vars \/ Tick \/ SwitchBackend => UNCHANGED run
  BY DEF vars, Tick, SwitchBackend
<1>4. ASSUME NEW d \in Devices, NEW p \in Paths, User(d, p) PROVE UNCHANGED run
  BY <1>4 DEF User, Edit, BeginRecord, EndRecord, Delete
<1> QED BY <1>1, <1>2, <1>3, <1>4 DEF Next

\* The types and the plan, together: what every later proof starts from.
THEOREM PlannedApplied == Spec => [](TypeOK /\ AppliesPlanned)
<1>1. Init => TypeOK /\ AppliesPlanned
  BY TypeInit DEF Init, AppliesPlanned, IdleRun
<1>2. TypeOK /\ AppliesPlanned /\ [Next]_vars => (TypeOK /\ AppliesPlanned)'
  BY TypeStep, PlannedStep
<1> QED BY <1>1, <1>2, PTL DEF Spec

\* Every variable keeps its type, whatever the users do and whatever fails:
\* the state, manifests and files of agent/src/relaydot/sync.py.
THEOREM TypeCorrect == Spec => []TypeOK
BY PlannedApplied, PTL

(***************************************************************************)
(* Half a record and half an upload stay where they are: proof of          *)
(* NothingTornTravels.  The invariant follows a content from the user's    *)
(* file through the snapshot, the store and the plan to the peer's disk.   *)
(***************************************************************************)

\* No edit of c is half written; at most the last one is.
Whole(c) == \A i \in 1..Len(c) : c[i] >= 0
Tidy(c)  == \A i \in 1..(Len(c) - 1) : c[i] >= 0

\* A content whose records are all whole has no partial tail.
LEMMA WholeNotPartial ==
  ASSUME NEW c \in Content, Whole(c)
  PROVE  ~IsPartial(c) /\ Tidy(c)
BY DEF Whole, Tidy, IsPartial, Last, Content

\* So a tidy content without a partial tail is whole.
LEMMA TidyWhole ==
  ASSUME NEW c \in Content, Tidy(c), ~IsPartial(c)
  PROVE  Whole(c)
BY DEF Whole, Tidy, IsPartial, Last, Content

\* What is appended to a whole content may be whole or not.
LEMMA WholeAppend ==
  ASSUME NEW c \in Content, Whole(c), NEW i \in Int
  PROVE  Tidy(Append(c, i)) /\ (i >= 0 => Whole(Append(c, i)))
BY DEF Whole, Tidy, Content

\* All but the last record of a tidy content is whole.
LEMMA FrontWhole ==
  ASSUME NEW c \in Content, Tidy(c), c # <<>>
  PROVE  Whole(Front(c))
BY DEF Whole, Tidy, Front, Content

\* Writing of a log may be interrupted, of another file not.
KeptWell(fs) ==
  \A p \in Keys(fs) : Tidy(fs[p].data) /\ (p \in Files => Whole(fs[p].data))

AllWhole(m) == \A p \in Keys(m) : Whole(m[p].data)

WholeAt(d) ==
  /\ KeptWell(live[d]) /\ KeptWell(run[d].undo.files)
  /\ AllWhole(run[d].entries) /\ AllWhole(manifests[d]) /\ AllWhole(run[d].plan)
  /\ \A x \in copies[d] \cup run[d].undo.copies : Whole(x[2])

WholeStore == \A c \in objects \cup torn : Whole(c)

WholeInv == WholeStore /\ \A d \in Devices : WholeAt(d)

\* Everything is whole at first.
LEMMA WholeInit == Init => WholeInv
BY DEF Init, WholeInv, WholeStore, WholeAt, KeptWell, AllWhole, Keys, NoPaths, IdleRun

\* read_snapshot offers whole contents only.
LEMMA SnapshotWhole ==
  ASSUME TypeOK, NEW d \in Devices, KeptWell(live[d]), NEW p \in Paths, live[d][p] # None
  PROVE  Whole(Snapshot(p, live[d][p].data))
<1> DEFINE c == live[d][p].data
<1>1. c \in Content /\ Tidy(c) /\ (p \in Files => Whole(c))
  BY DEF KeptWell, Keys, TypeOK, Dict, Version
<1>2. CASE p \in Logs
  BY <1>1, <1>2, FrontWhole, TidyWhole DEF Snapshot, WholeRecords, IsPartial
<1>3. CASE p \notin Logs
  BY <1>1, <1>3 DEF Snapshot, Paths
<1> QED BY <1>2, <1>3

\* The user of d leaves d's files well-kept.
LEMMA WholeUser ==
  ASSUME TypeOK, NEW d \in Devices, NEW p \in Paths, KeptWell(live[d]), User(d, p)
  PROVE  KeptWell(live'[d])
<1> DEFINE c == Held(d, p)
<1>1. /\ c \in Content /\ Tidy(c) /\ (p \in Files => Whole(c))
      /\ ~IsPartial(c) => Whole(c)
  <2>1. CASE live[d][p] = None
    BY <2>1 DEF Held, Tidy, Whole, Content
  <2>2. CASE live[d][p] # None
    BY <2>2, HeldType, TidyWhole DEF Held, KeptWell, Keys
  <2> QED BY <2>1, <2>2
<1>2. ASSUME NEW n \in Content, Write(d, p, n), Tidy(n), p \in Files => Whole(n)
      PROVE  KeptWell(live'[d])
  <2>1. live'[d] = [live[d] EXCEPT ![p] = [data |-> n, mtime |-> Now]]
    BY <1>2 DEF Write, TypeOK
  <2> QED BY <1>2, <2>1 DEF KeptWell, Keys, TypeOK, Dict
<1>3. CASE Edit(d, p)
  <2>1. Append(c, edits + 1) \in Content /\ Whole(Append(c, edits + 1))
    BY <1>1, <1>3, WholeAppend DEF Edit, TypeOK, Content
  <2> QED BY <1>2, <1>3, <2>1, WholeNotPartial DEF Edit
<1>4. CASE p \in Logs /\ BeginRecord(d, p)
  <2>1. Append(c, -(edits + 1)) \in Content /\ Tidy(Append(c, -(edits + 1)))
    BY <1>1, <1>4, WholeAppend DEF BeginRecord, TypeOK, Content
  <2> QED BY <1>2, <1>4, <2>1, ConstantsOK DEF BeginRecord
<1>5. CASE EndRecord(d, p)
  <2>1. c # <<>> /\ Last(c) < 0
    BY <1>5 DEF EndRecord, IsPartial
  <2>2. Front(c) \in Content /\ Whole(Front(c)) /\ Last(c) \in Int
    BY <1>1, <2>1, FrontType, FrontWhole, LastType
  <2>3. Append(Front(c), -Last(c)) \in Content /\ Whole(Append(Front(c), -Last(c)))
    BY <2>1, <2>2, WholeAppend DEF Content
  <2> QED BY <1>2, <1>5, <2>3, WholeNotPartial DEF EndRecord
<1>6. CASE Delete(d, p)
  <2>1. live'[d] = [live[d] EXCEPT ![p] = None]
    BY <1>6 DEF Delete, TypeOK
  <2> QED BY <2>1 DEF KeptWell, Keys, TypeOK, Dict
<1> QED BY <1>3, <1>4, <1>5, <1>6 DEF User

-----------------------------------------------------------------------------
(***************************************************************************)
(* The steps of a run.                                                     *)
(***************************************************************************)

\* A dictionary without paths is whole.
LEMMA NoPathsWhole == AllWhole(NoPaths) /\ KeptWell(NoPaths)
BY DEF AllWhole, KeptWell, Keys, NoPaths

\* The fields a run starts and ends with.
LEMMA IdleWhole ==
  ASSUME NEW d \in Devices, WholeAt(d),
         run'[d].entries = NoPaths, run'[d].plan = NoPaths, run'[d].undo = IdleRun.undo,
         KeptWell(live'[d]), AllWhole(manifests'[d]), \A x \in copies'[d] : Whole(x[2])
  PROVE  WholeAt(d)'
BY NoPathsWhole DEF WholeAt, IdleRun

\* Publishing uploads whole contents only.
LEMMA WholePublish ==
  ASSUME TypeOK, WholeInv, NEW d \in Devices, NEW p \in Paths,
         PublishPresent(d, p) \/ Upload(d, p) \/ UploadFails(d, p)
  PROVE  WholeStore' /\ WholeAt(d)'
<1> DEFINE dg == Snapshot(p, live[d][p].data)
<1>1. live[d][p] # None
  BY DEF PublishPresent, Upload, UploadFails, Readable
<1>2. Whole(dg)
  BY <1>1, SnapshotWhole DEF WholeInv, WholeAt
<1>3. WholeStore'
  BY <1>2 DEF WholeInv, WholeStore, PublishPresent, Upload, UploadFails, store
<1>4. UNCHANGED <<live, copies, manifests>>
  BY DEF PublishPresent, Upload, UploadFails, disk, store
<1>5. ASSUME Record(d, p) PROVE WholeAt(d)'
  <2>1. run[d].entries \in Dict(Version)
    BY DEF TypeOK, Run
  <2>2. AllWhole(run'[d].entries)
    <3>1. run'[d].entries =
            [run[d].entries EXCEPT ![p] = [data |-> dg, mtime |-> live[d][p].mtime]]
      BY <1>5, RecordRun
    <3>2. AllWhole(run[d].entries)
      BY DEF WholeInv, WholeAt
    <3> QED BY <1>2, <2>1, <3>1, <3>2 DEF AllWhole, Keys, Dict
  <2> QED BY <1>4, <1>5, <2>2, RecordRun DEF WholeInv, WholeAt, SameRest
<1>6. ASSUME Pass(d, p) PROVE WholeAt(d)'
  BY <1>4, <1>6, PassRun DEF WholeInv, WholeAt, SameRest
<1> QED BY <1>3, <1>5, <1>6 DEF PublishPresent, Upload, UploadFails, UploadProblem

\* What is planned was fetched, and is what its digest says.
LEMMA WholePlan ==
  ASSUME TypeOK, WholeInv, NEW d \in Devices, NEW p \in Paths,
         PlanTake(d, p) \/ PlanConflict(d, p)
  PROVE  WholeStore' /\ WholeAt(d)'
<1> DEFINE dg == Candidate(d, p).data
<1>1. Bytes(dg) = dg /\ dg \in objects \cup torn
  BY DEF PlanTake, PlanConflict, Verified, Exists
<1>2. Whole(Bytes(dg))
  BY <1>1 DEF WholeInv, WholeStore
<1>3. PICK both \in BOOLEAN : Planned(d, p, both)
  BY DEF PlanTake, PlanConflict
<1>4. run[d].plan \in Dict(Apply)
  BY DEF TypeOK, Run
<1>5. AllWhole(run'[d].plan)
  <2>1. run'[d].plan = [run[d].plan EXCEPT ![p] = [keepBoth |-> both, data |-> Bytes(dg)]]
    BY <1>3, PlannedRun
  <2>2. AllWhole(run[d].plan)
    BY DEF WholeInv, WholeAt
  <2> QED BY <1>2, <1>4, <2>1, <2>2 DEF AllWhole, Keys, Dict
<1>6. UNCHANGED <<live, copies, manifests, objects, torn>>
  BY DEF PlanTake, PlanConflict, disk, store
<1>7. run'[d].entries = run[d].entries /\ run'[d].undo = run[d].undo
  BY <1>3, PlannedRun DEF SameRest
<1> QED BY <1>5, <1>6, <1>7 DEF WholeInv, WholeStore, WholeAt

\* Applying puts whole contents on disk only.
LEMMA WholeApply ==
  ASSUME TypeOK, AppliesPlanned, WholeInv, NEW d \in Devices,
         Stage(d) \/ ApplyFails(d) \/ \E p \in Paths : Replace(d, p) \/ AddCopy(d, p)
  PROVE  WholeStore' /\ WholeAt(d)'
<1>1. WholeAt(d)
  BY DEF WholeInv
<1>2. UNCHANGED <<manifests, objects, torn>>
  BY DEF Stage, ApplyFails, Replace, AddCopy, store
<1>3. WholeStore'
  BY <1>2 DEF WholeInv, WholeStore
<1>4. CASE Stage(d)
  <2>1. UNCHANGED <<live, copies>>
    BY <1>4 DEF Stage, disk
  <2>2. KeptWell(Existing(d))
    BY <1>1 DEF WholeAt, KeptWell, Existing, Keys
  <2> QED BY <1>1, <1>2, <1>3, <1>4, <2>1, <2>2, StageRun DEF WholeAt
<1>5. CASE ApplyFails(d)
  <2>1. live'[d] = [p \in Paths |-> IF p \in TakenPaths(d) \ run[d].todo
                                      THEN run[d].undo.files[p] ELSE live[d][p]]
    BY <1>5 DEF ApplyFails, TypeOK
  <2>2. KeptWell(live'[d])
    BY <1>1, <2>1 DEF WholeAt, KeptWell, Keys
  <2>3. copies'[d] = run[d].undo.copies
    BY <1>5 DEF ApplyFails, TypeOK
  <2>4. run'[d] = IdleRun
    BY <1>5, IdleAgain DEF ApplyFails
  <2>5. \A x \in copies'[d] : Whole(x[2])
    BY <1>1, <2>3 DEF WholeAt
  <2>6. AllWhole(manifests'[d])
    BY <1>1, <1>2 DEF WholeAt
  <2>7. run'[d].entries = NoPaths /\ run'[d].plan = NoPaths /\ run'[d].undo = IdleRun.undo
    BY <2>4 DEF IdleRun
  <2> QED BY <1>1, <1>3, <2>2, <2>5, <2>6, <2>7, IdleWhole
<1>6. ASSUME NEW p \in Paths, Replace(d, p) \/ AddCopy(d, p)
      PROVE  p \in Keys(run[d].plan) /\ run[d].plan[p].data \in Content
             /\ Whole(run[d].plan[p].data)
  <2>1. p \in Keys(run[d].plan)
    BY <1>6 DEF Replace, AddCopy, Applying, IsNext, AppliesPlanned
  <2>2. run[d].plan[p] \in Apply
    BY <2>1 DEF TypeOK, Run, Dict, Keys
  <2> QED BY <1>1, <2>1, <2>2 DEF WholeAt, AllWhole, Apply
<1>7. ASSUME NEW p \in Paths, Replace(d, p) PROVE WholeAt(d)'
  <2>1. live'[d] = [live[d] EXCEPT ![p] = [data  |-> run[d].plan[p].data,
                                           mtime |-> run[d].staged]]
    BY <1>7 DEF Replace, TypeOK
  <2>2. Tidy(run[d].plan[p].data) /\ Whole(run[d].plan[p].data)
    BY <1>6, <1>7, WholeNotPartial
  <2>3. KeptWell(live'[d])
    BY <1>1, <2>1, <2>2 DEF WholeAt, KeptWell, Keys, TypeOK, Dict
  <2>4. copies' = copies
    BY <1>7 DEF Replace
  <2> QED BY <1>1, <1>2, <1>7, <2>3, <2>4, PassRun DEF WholeAt, SameRest, Replace
<1>8. ASSUME NEW p \in Paths, AddCopy(d, p) PROVE WholeAt(d)'
  <2>1. copies'[d] = copies[d] \cup {<<p, run[d].plan[p].data>>} /\ live' = live
    BY <1>8 DEF AddCopy, TypeOK
  <2>2. \A x \in copies'[d] : Whole(x[2])
    BY <1>1, <1>6, <1>8, <2>1 DEF WholeAt
  <2> QED BY <1>1, <1>2, <1>8, <2>1, <2>2, PassRun DEF WholeAt, SameRest, AddCopy
<1> QED BY <1>3, <1>4, <1>5, <1>7, <1>8

\* The remaining steps move nothing that is not whole.
LEMMA WholeRest ==
  ASSUME TypeOK, WholeInv, NEW d \in Devices,
         \/ BuildManifest(d) \/ Announce(d) \/ AnnounceFails(d) \/ StartPlan(d)
         \/ FinishApply(d) \/ SaveState(d) \/ CrashInApply(d) \/ Crash(d)
         \/ \E q \in Devices : ReadPeer(d, q)
         \/ \E p \in Paths : PublishNothing(d, p) \/ PlanNothing(d, p) \/ FetchFails(d, p)
  PROVE  WholeStore' /\ WholeAt(d)'
<1>1. WholeAt(d)
  BY DEF WholeInv
<1>2. UNCHANGED <<live, copies, objects, torn>>
  BY DEF BuildManifest, Announce, AnnounceFails, StartPlan, FinishApply, SaveState,
         CrashInApply, Crash, ReadPeer, PublishNothing, PlanNothing, FetchFails, disk, store
<1>3. WholeStore'
  BY <1>2 DEF WholeInv, WholeStore
<1>4. AllWhole(manifests'[d])
  <2>1. manifests'[d] \in {manifests[d], run[d].entries}
    BY DEF BuildManifest, Announce, AnnounceFails, StartPlan, FinishApply, SaveState,
           CrashInApply, Crash, ReadPeer, PublishNothing, PlanNothing, FetchFails,
           store, TypeOK
  <2> QED BY <1>1, <2>1 DEF WholeAt
<1>5. KeptWell(live'[d]) /\ \A x \in copies'[d] : Whole(x[2])
  BY <1>1, <1>2 DEF WholeAt
<1>6. ASSUME Forget(d) \/ SaveState(d) \/ FinishApply(d) \/ BuildManifest(d)
      PROVE  WholeAt(d)'
  <2>1. run'[d].entries = NoPaths /\ run'[d].plan = NoPaths /\ run'[d].undo = IdleRun.undo
    BY <1>6, IdleAgain, FinishApplyRun, BuildRun DEF IdleRun
  <2> QED BY <1>1, <1>4, <1>5, <2>1, IdleWhole
<1>7. ASSUME run'[d].entries \in {run[d].entries, NoPaths}, run'[d].plan = run[d].plan,
             run'[d].undo = run[d].undo
      PROVE  WholeAt(d)'
  <2>1. AllWhole(run'[d].entries)
    BY <1>1, <1>7, NoPathsWhole DEF WholeAt
  <2> QED BY <1>1, <1>2, <1>4, <1>5, <1>7, <2>1 DEF WholeAt
<1>8. ASSUME NEW p, Pass(d, p) PROVE WholeAt(d)'
  BY <1>7, <1>8, PassRun DEF SameRest
<1>9. ASSUME Announce(d) \/ StartPlan(d) PROVE WholeAt(d)'
  BY <1>7, <1>9, AnnounceRun, StartPlanRun DEF SameRest
<1>10. ASSUME NEW q \in Devices, ReadPeer(d, q) PROVE WholeAt(d)'
  BY <1>7, <1>10, ReadPeerRun
<1> QED BY <1>3, <1>6, <1>8, <1>9, <1>10
        DEF AnnounceFails, CrashInApply, Crash, PublishNothing, PlanNothing, FetchFails

\* Every step keeps everything whole.
LEMMA WholeStep ==
  ASSUME TypeOK, AppliesPlanned, WholeInv, [Next]_vars
  PROVE  WholeInv'
<1>1. ASSUME UNCHANGED <<disk, store, run>> PROVE WholeInv'
  BY <1>1 DEF disk, store, WholeInv, WholeStore, WholeAt
<1>2. CASE Tick \/ UNCHANGED vars
  BY <1>1, <1>2 DEF Tick, vars
<1>3. CASE SwitchBackend
  <2>1. /\ UNCHANGED <<disk, run>> /\ objects' = {} /\ torn' = {}
        /\ \A d \in Devices : manifests'[d] = NoPaths
    BY <1>3 DEF SwitchBackend
  <2> QED BY <2>1, NoPathsWhole DEF disk, WholeInv, WholeStore, WholeAt
<1>4. ASSUME NEW d \in Devices, NEW p \in Paths, User(d, p) PROVE WholeInv'
  <2>1. /\ UNCHANGED <<copies, objects, torn, manifests, run>>
        /\ \A e \in Devices : e # d => live'[e] = live[e]
    BY <1>4 DEF TypeOK, User, Edit, BeginRecord, EndRecord, Delete, Write, store
  <2>2. KeptWell(live'[d])
    BY <1>4, WholeUser DEF WholeInv, WholeAt
  <2> QED BY <2>1, <2>2 DEF WholeInv, WholeStore, WholeAt
<1>5. ASSUME NEW d \in Devices, RunStep(d) \/ Failure(d) PROVE WholeInv'
  <2>1. WholeStore' /\ WholeAt(d)'
    BY <1>5, WholePublish, WholePlan, WholeApply, WholeRest DEF RunStep, Failure
  <2>2. \A e \in Devices : e # d => WholeAt(e)'
    BY <1>5, OthersUntouched DEF WholeInv, WholeAt
  <2> QED BY <2>1, <2>2 DEF WholeInv
<1> QED BY <1>2, <1>3, <1>4, <1>5 DEF Next

\* Whatever fails and whenever users write: no manifest lists half a record of
\* a log, and no run writes half an upload or half a record to its disk
\* (read_snapshot and _fetch_verified, agent/src/relaydot/sync.py).
THEOREM NothingTorn == Spec => []NothingTornTravels
<1>1. Spec => [](TypeOK /\ AppliesPlanned)
  BY PlannedApplied
<1>2. Init => WholeInv
  BY WholeInit
<1>3. TypeOK /\ AppliesPlanned /\ WholeInv /\ [Next]_vars => WholeInv'
  BY WholeStep
<1>4. TypeOK /\ WholeInv => NothingTornTravels
  <2> SUFFICES ASSUME TypeOK, WholeInv, NEW d \in Devices
               PROVE  /\ \A p \in Keys(manifests[d]) : ~IsPartial(manifests[d][p].data)
                      /\ \A p \in Keys(run[d].plan) : ~IsPartial(run[d].plan[p].data)
                      /\ \A x \in copies[d] : ~IsPartial(x[2])
    BY DEF NothingTornTravels
  <2>1. WholeAt(d)
    BY DEF WholeInv
  <2>2. ASSUME NEW p \in Keys(manifests[d]) PROVE ~IsPartial(manifests[d][p].data)
    BY <2>1, WholeNotPartial DEF WholeAt, AllWhole, Keys, TypeOK, Dict, Version
  <2>3. ASSUME NEW p \in Keys(run[d].plan) PROVE ~IsPartial(run[d].plan[p].data)
    BY <2>1, WholeNotPartial DEF WholeAt, AllWhole, Keys, TypeOK, Run, Dict, Apply
  <2>4. ASSUME NEW x \in copies[d] PROVE ~IsPartial(x[2])
    BY <2>1, WholeNotPartial DEF WholeAt, TypeOK
  <2> QED BY <2>2, <2>3, <2>4
<1> QED BY <1>1, <1>2, <1>3, <1>4, PTL DEF Spec
=============================================================================
