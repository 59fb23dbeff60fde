----------------------------- MODULE AgentSync -----------------------------
(***************************************************************************)
(* Devices that synchronise files through a shared WebDAV store: the       *)
(* publish / pull cycle of agent/src/relaydot/sync.py (run_sync), with the *)
(* inventory of manifest.py and the staged apply of apply.py.              *)
(*                                                                         *)
(* The content of a file is the sequence of the edits that led to it, each *)
(* edit a number used once in the whole fleet.  The code only compares     *)
(* whole files for equality, and logs for equality and prefix, so digests  *)
(* are represented by the contents themselves (sha256 does not collide).   *)
(* -e at the end of a sequence is an edit of which only a first part has   *)
(* been written.                                                           *)
(***************************************************************************)
EXTENDS Integers, SequencesExt

CONSTANTS
  Devices,          \* the enrolled devices
  Logs,             \* synced paths ending in .jsonl (append-structured logs)
  Files,            \* synced paths whose content is replaced as a whole
  UserActs,         \* what the user does: "edit", "partial", "delete"
  EditPhases,       \* phases of a device's run in which its user acts
  Faults,           \* what may go wrong: see FaultKinds
  DistinctSeconds,  \* TRUE: no two writes fall into the same second
  MaxEdits,         \* bound: edits of the whole fleet
  MaxPaths,         \* bound: paths in use in the whole fleet
  MaxClock,         \* bound: seconds (not used when DistinctSeconds)
  MaxFailures,      \* bound: failures of the whole fleet
  None              \* a key a Python dict does not have

Paths == Logs \cup Files

Phases == {"idle", "publish", "peers", "plan", "apply", "save"}

FaultKinds == {"put",     \* an object or manifest request fails or times out
               "torn",    \* a failing upload leaves a truncated object
               "fetch",   \* a download fails
               "crash",   \* the run raises or its process dies
               "apply",   \* the file system refuses a replacement
               "switch"}  \* the operator points the fleet at another store

ASSUME ConstantsOK ==
  /\ Logs \cap Files = {}
  /\ UserActs \subseteq {"edit", "partial", "delete"}
  /\ EditPhases \subseteq Phases
  /\ Faults \subseteq FaultKinds
  /\ DistinctSeconds \in BOOLEAN
  /\ MaxEdits \in Nat /\ MaxPaths \in Nat /\ MaxClock \in Nat /\ MaxFailures \in Nat

VARIABLES
  clock,      \* wall-clock seconds, the unit of st_mtime as the agent reads it
  edits,      \* edits made so far
  failures,   \* failures so far
  live,       \* live[d]: path -> [data, mtime], the files under d's root
  copies,     \* copies[d]: <<path, data>> written under a conflict name
  kept,       \* kept[d]: <<path, data>> in recovery or abandoned work directories
  objects,    \* digests whose object holds the bytes it is named after
  torn,       \* digests whose object is truncated
  manifests,  \* manifests[d]: path -> [data, mtime], as d last announced
  saved,      \* saved[d]: sync-state.json
  mem,        \* mem[d]: the SyncState of d's run
  run         \* run[d]: the other locals of d's run

disk  == <<live, copies, kept>>
store == <<objects, torn, manifests>>
vars  == <<clock, edits, failures, disk, store, saved, mem, run>>

-----------------------------------------------------------------------------
(* Values.  A Python dict keyed by path is a function on Paths that is None *)
(* where the dict has no such key.                                         *)

Content  == Seq(Int)
Version  == [data : Content, mtime : Nat]
Apply    == [keepBoth : BOOLEAN, data : Content]
Dict(T)  == [Paths -> {None} \cup T]
Keys(f)  == {p \in Paths : f[p] # None}
NoPaths  == [p \in Paths |-> None]

Saved    == [uploaded : SUBSET Content, applied : Dict(Content)]

Run      == [pc        : Phases,
             todo      : SUBSET (Paths \cup Devices),
             inventory : Dict(Content),
             entries   : Dict(Version),
             winner    : Dict(Version),
             plan      : Dict(Apply),
             staged    : Nat,
             undo      : [files : Dict(Version), copies : SUBSET (Paths \X Content)]]

ASSUME NoneIsAbsent == None \notin Content /\ None \notin Version

NoState == [uploaded |-> {}, applied |-> NoPaths]

IdleRun == [pc |-> "idle", todo |-> {}, inventory |-> NoPaths,
            entries |-> NoPaths, winner |-> NoPaths, plan |-> NoPaths,
            staged |-> 0, undo |-> [files |-> NoPaths, copies |-> {}]]

\* The type invariant.
TypeOK ==
  /\ clock \in Nat /\ edits \in Nat /\ failures \in Nat
  /\ live \in [Devices -> Dict(Version)]
  /\ copies \in [Devices -> SUBSET (Paths \X Content)]
  /\ kept \in [Devices -> SUBSET (Paths \X Content)]
  /\ objects \subseteq Content /\ torn \subseteq Content
  /\ manifests \in [Devices -> Dict(Version)]
  /\ saved \in [Devices -> Saved]
  /\ mem \in [Devices -> Saved]
  /\ run \in [Devices -> Run]

Init ==
  /\ clock = 0 /\ edits = 0 /\ failures = 0
  /\ live = [d \in Devices |-> NoPaths]
  /\ copies = [d \in Devices |-> {}]
  /\ kept = [d \in Devices |-> {}]
  /\ objects = {} /\ torn = {}
  /\ manifests = [d \in Devices |-> NoPaths]
  /\ saved = [d \in Devices |-> NoState]
  /\ mem = [d \in Devices |-> NoState]
  /\ run = [d \in Devices |-> IdleRun]

-----------------------------------------------------------------------------
(* The user of device d, and the clock. *)

IsPartial(c) == c # <<>> /\ Last(c) < 0

Now == IF DistinctSeconds THEN clock + 1 ELSE clock

InUse == {p \in Paths : \E d \in Devices : live[d][p] # None}

MayAct(d, p, act) ==
  /\ act \in UserActs /\ run[d].pc \in EditPhases
  /\ Cardinality(InUse \cup {p}) <= MaxPaths

Write(d, p, c) ==
  /\ live' = [live EXCEPT ![d][p] = [data |-> c, mtime |-> Now]]
  /\ clock' = Now

Held(d, p) == IF live[d][p] = None THEN <<>> ELSE live[d][p].data

\* A new version of a file, or one more whole record of a log.
Edit(d, p) ==
  /\ MayAct(d, p, "edit") /\ edits < MaxEdits
  /\ ~IsPartial(Held(d, p))
  /\ Write(d, p, Append(Held(d, p), edits + 1))
  /\ edits' = edits + 1
  /\ UNCHANGED <<failures, copies, kept, store, saved, mem, run>>

\* A session is midway through the next record of its log.
BeginRecord(d, p) ==
  /\ MayAct(d, p, "partial") /\ edits < MaxEdits
  /\ ~IsPartial(Held(d, p))
  /\ Write(d, p, Append(Held(d, p), -(edits + 1)))
  /\ edits' = edits + 1
  /\ UNCHANGED <<failures, copies, kept, store, saved, mem, run>>

EndRecord(d, p) ==
  /\ MayAct(d, p, "partial")
  /\ IsPartial(Held(d, p))
  /\ Write(d, p, Append(Front(Held(d, p)), -Last(Held(d, p))))
  /\ UNCHANGED <<edits, failures, copies, kept, store, saved, mem, run>>

Delete(d, p) ==
  /\ MayAct(d, p, "delete") /\ edits < MaxEdits
  /\ live[d][p] # None
  /\ live' = [live EXCEPT ![d][p] = None]
  /\ edits' = edits + 1
  /\ UNCHANGED <<clock, failures, copies, kept, store, saved, mem, run>>

Tick ==
  /\ ~DistinctSeconds /\ clock < MaxClock
  /\ clock' = clock + 1
  /\ UNCHANGED <<edits, failures, disk, store, saved, mem, run>>

-----------------------------------------------------------------------------
(* Inventory and publish. *)

\* complete_jsonl_prefix: a log is cut at its last complete record.
WholeRecords(c) == IF IsPartial(c) THEN Front(c) ELSE c

\* read_snapshot: the bytes published for a path.
Snapshot(p, c) == IF p \in Logs THEN WholeRecords(c) ELSE c

\* read_snapshot is not None: the file is there and offers something complete.
Readable(d, p) == live[d][p] # None /\ Snapshot(p, live[d][p].data) # <<>>

Exists(dg) == dg \in objects \cup torn

\* Mutant: the inventory has no answer for a path that is absent.
InventoryOfPresent(d) == [p \in Keys(live[d]) |-> live[d][p].data]

\* build_manifest: a digest for each file that is there.
Inventory(d) == [p \in Paths |-> IF live[d][p] = None THEN None ELSE live[d][p].data]

\* build_manifest, then SyncState.load: the run starts.
BuildManifest(d) ==
  /\ run[d].pc = "idle"
  /\ run' = [run EXCEPT ![d] =
       [IdleRun EXCEPT !.pc = "publish",
                       !.todo = Keys(live[d]),
                       !.inventory = Inventory(d)]]
  /\ mem' = [mem EXCEPT ![d] = saved[d]]
  /\ UNCHANGED <<clock, edits, failures, disk, store, saved>>

\* The path is dealt with in this phase and nothing is recorded for it.
Pass(d, p) ==
  /\ run' = [run EXCEPT ![d].todo = @ \ {p}]
  /\ UNCHANGED mem

\* Mutant: publishing does not establish the digest as known to the fleet.
RecordUnapplied(d, p) ==
  LET dg == Snapshot(p, live[d][p].data) IN
  /\ run' = [run EXCEPT ![d].todo = @ \ {p},
                        ![d].entries[p] = [data |-> dg, mtime |-> live[d][p].mtime]]
  /\ mem' = [mem EXCEPT ![d].uploaded = @ \cup {dg}]

\* The end of publish's loop body: the path is listed, and its digest becomes
\* the revision the fleet has seen.
Record(d, p) ==
  LET dg == Snapshot(p, live[d][p].data) IN
  /\ run' = [run EXCEPT ![d].todo = @ \ {p},
                        ![d].entries[p] = [data |-> dg, mtime |-> live[d][p].mtime]]
  /\ mem' = [mem EXCEPT ![d].uploaded = @ \cup {dg}, ![d].applied[p] = dg]

\* The loops go through the paths in a fixed (sorted) order.
IsNext(d, p) == p \in run[d].todo /\ p = CHOOSE q \in run[d].todo : TRUE

Publishing(d, p) == run[d].pc = "publish" /\ IsNext(d, p)

\* The file vanished, or is a log without a complete record yet.
PublishNothing(d, p) ==
  /\ Publishing(d, p) /\ ~Readable(d, p)
  /\ Pass(d, p)
  /\ UNCHANGED <<clock, edits, failures, disk, store, saved>>

\* The upload is skipped: this device remembers it, or finds the object there.
SkipsUpload(d, dg) == dg \in mem[d].uploaded \/ Exists(dg)

PublishPresent(d, p) ==
  /\ Publishing(d, p) /\ Readable(d, p)
  /\ SkipsUpload(d, Snapshot(p, live[d][p].data))
  /\ Record(d, p)
  /\ UNCHANGED <<clock, edits, failures, disk, store, saved>>

Upload(d, p) ==
  /\ Publishing(d, p) /\ Readable(d, p)
  /\ LET dg == Snapshot(p, live[d][p].data) IN
       /\ ~SkipsUpload(d, dg)
       /\ objects' = objects \cup {dg}
  /\ Record(d, p)
  /\ UNCHANGED <<clock, edits, failures, disk, torn, manifests, saved>>

MayFail(kind) ==
  /\ kind \in Faults /\ failures < MaxFailures
  /\ failures' = failures + 1

\* Mutants: a failed upload is listed all the same; is remembered as done; is
\* noted as the revision the fleet has seen.
ListProblem(d, p) == Record(d, p)

RememberProblem(d, p) ==
  /\ run' = [run EXCEPT ![d].todo = @ \ {p}]
  /\ mem' = [mem EXCEPT ![d].uploaded = @ \cup {Snapshot(p, live[d][p].data)}]

ApplyProblem(d, p) ==
  /\ run' = [run EXCEPT ![d].todo = @ \ {p}]
  /\ mem' = [mem EXCEPT ![d].applied[p] = Snapshot(p, live[d][p].data)]

\* A StorageError in publish: the path is a problem of this run.
UploadProblem(d, p) == Pass(d, p)

\* exists or put_bytes raises: nothing was stored, the object was stored and
\* only the answer is lost, or a truncated object was stored.
UploadFails(d, p) ==
  /\ Publishing(d, p) /\ Readable(d, p)
  /\ MayFail("put")
  /\ LET dg == Snapshot(p, live[d][p].data) IN
       /\ dg \notin mem[d].uploaded
       /\ \/ UNCHANGED store
          \/ /\ ~Exists(dg)
             /\ objects' = objects \cup {dg}
             /\ UNCHANGED <<torn, manifests>>
          \/ /\ ~Exists(dg) /\ "torn" \in Faults
             /\ torn' = torn \cup {dg}
             /\ UNCHANGED <<objects, manifests>>
  /\ UploadProblem(d, p)
  /\ UNCHANGED <<clock, edits, disk, saved>>

\* PUT of this device's manifest; then pull lists the others.
Announce(d) ==
  /\ run[d].pc = "publish" /\ run[d].todo = {}
  /\ manifests' = [manifests EXCEPT ![d] = run[d].entries]
  /\ run' = [run EXCEPT ![d].pc = "peers", ![d].todo = Devices \ {d},
                        ![d].entries = NoPaths]
  /\ UNCHANGED <<clock, edits, failures, disk, objects, torn, saved, mem>>

\* The run is over without state.save(): what it remembered is lost.
Forget(d) ==
  /\ run' = [run EXCEPT ![d] = IdleRun]
  /\ mem' = [mem EXCEPT ![d] = saved[d]]

\* The PUT of the manifest raises, whether or not the server stored it.
AnnounceFails(d) ==
  /\ run[d].pc = "publish" /\ run[d].todo = {}
  /\ MayFail("put")
  /\ \/ manifests' = [manifests EXCEPT ![d] = run[d].entries]
     \/ UNCHANGED manifests
  /\ Forget(d)
  /\ UNCHANGED <<clock, edits, disk, objects, torn, saved>>

-----------------------------------------------------------------------------
(* Pull: read the peers' manifests and pick one version of each path. *)

\* A fixed total order stands for the order of sha256 digests.
DigestAfter(a, b) == Last(a) > Last(b)

Newer(a, b) ==
  \/ a.mtime > b.mtime
  \/ a.mtime = b.mtime /\ DigestAfter(a.data, b.data)

Winner(best, entry) ==
  IF entry # None /\ (best = None \/ Newer(entry, best)) THEN entry ELSE best

ReadPeer(d, q) ==
  /\ run[d].pc = "peers" /\ q \in run[d].todo
  /\ run' = [run EXCEPT ![d].todo = @ \ {q},
       ![d].winner = [p \in Paths |-> Winner(run[d].winner[p], manifests[q][p])]]
  /\ UNCHANGED <<clock, edits, failures, disk, store, saved, mem>>

StartPlan(d) ==
  /\ run[d].pc = "peers" /\ run[d].todo = {}
  /\ run' = [run EXCEPT ![d].pc = "plan", ![d].todo = Keys(run[d].winner)]
  /\ UNCHANGED <<clock, edits, failures, disk, store, saved, mem>>

-----------------------------------------------------------------------------
(* Pull: decide path by path. `known`, the baseline, is the applied map as   *)
(* it was before this run's publish: the saved one, which only d's own       *)
(* state.save() changes.                                                     *)

\* Mutant: the baseline is read after this run's publish.
PublishedBaseline(d) == mem[d].applied

Baseline(d) == saved[d].applied

Candidate(d, p) == run[d].winner[p]

Inventoried(d, p) == run[d].inventory[p] # None

\* `ours is not None`: an inventoried log that still offers whole records.
HasOurs(d, p) == p \in Logs /\ Inventoried(d, p) /\ Readable(d, p)

Ours(d, p) == Snapshot(p, live[d][p].data)

LocalDigest(d, p) == IF HasOurs(d, p) THEN Ours(d, p) ELSE run[d].inventory[p]

LocalTime(d, p) == IF live[d][p] = None THEN 0 ELSE live[d][p].mtime

SameDigest(d, p) == LocalDigest(d, p) = Candidate(d, p).data

\* Mutants: the prefix test the wrong way round; the clock asked as well.
OursExtends(d, p) ==
  HasOurs(d, p) /\ IsStrictPrefix(Candidate(d, p).data, Ours(d, p))

TheirsNewer(d, p) ==
  /\ HasOurs(d, p) /\ IsStrictPrefix(Ours(d, p), Candidate(d, p).data)
  /\ Candidate(d, p).mtime > LocalTime(d, p)

\* reconcile_streams: theirs-extends, divergent.
TheirsExtends(d, p) ==
  HasOurs(d, p) /\ IsStrictPrefix(Ours(d, p), Candidate(d, p).data)

Divergent(d, p) ==
  /\ HasOurs(d, p)
  /\ ~IsPrefix(Ours(d, p), Candidate(d, p).data)
  /\ ~IsPrefix(Candidate(d, p).data, Ours(d, p))

\* Whole-file content: the date decides.
PeerNewer(d, p) ==
  /\ Inventoried(d, p) /\ ~HasOurs(d, p) /\ ~SameDigest(d, p)
  /\ Candidate(d, p).mtime > LocalTime(d, p)

Unedited(d, p) == Baseline(d)[p] = LocalDigest(d, p)

Takes(d, p) ==
  \/ ~Inventoried(d, p)
  \/ TheirsExtends(d, p)
  \/ PeerNewer(d, p) /\ Unedited(d, p)

KeepsBoth(d, p) ==
  \/ Divergent(d, p)
  \/ PeerNewer(d, p) /\ ~Unedited(d, p)

\* The bytes stored under a digest: a truncated object ends in its last edit.
Bytes(dg) == IF dg \in torn THEN Append(Front(dg), -Last(dg)) ELSE dg

\* Mutant: downloads are not hashed again.
Unverified(dg) == Exists(dg)

\* _fetch_verified returns bytes: the object is there and hashes to its name.
Verified(dg) == Exists(dg) /\ Bytes(dg) = dg

Planning(d, p) == run[d].pc = "plan" /\ IsNext(d, p)

Planned(d, p, both) ==
  run' = [run EXCEPT ![d].todo = @ \ {p},
            ![d].plan[p] = [keepBoth |-> both, data |-> Bytes(Candidate(d, p).data)]]

PlanTake(d, p) ==
  /\ Planning(d, p) /\ Takes(d, p) /\ Verified(Candidate(d, p).data)
  /\ Planned(d, p, FALSE)
  /\ mem' = [mem EXCEPT ![d].applied[p] = Candidate(d, p).data]
  /\ UNCHANGED <<clock, edits, failures, disk, store, saved>>

PlanConflict(d, p) ==
  /\ Planning(d, p) /\ KeepsBoth(d, p) /\ Verified(Candidate(d, p).data)
  /\ Planned(d, p, TRUE)
  /\ UNCHANGED <<clock, edits, failures, disk, store, saved, mem>>

\* Nothing to do for the path, or its object is missing or refused.
PlanNothing(d, p) ==
  /\ Planning(d, p)
  /\ (Takes(d, p) \/ KeepsBoth(d, p)) => ~Verified(Candidate(d, p).data)
  /\ Pass(d, p)
  /\ UNCHANGED <<clock, edits, failures, disk, store, saved>>

\* The GET raises: a problem of this run.
FetchFails(d, p) ==
  /\ Planning(d, p) /\ (Takes(d, p) \/ KeepsBoth(d, p))
  /\ MayFail("fetch")
  /\ Pass(d, p)
  /\ UNCHANGED <<clock, edits, disk, store, saved>>

-----------------------------------------------------------------------------
(* atomic_apply with keep_backup, then state.save(). *)

TakenPaths(d) == {p \in Keys(run[d].plan) : ~run[d].plan[p].keepBoth}

\* Mutant: what exists is taken from the inventory, not from the disk.
TakenInventoried(d) ==
  [p \in Paths |-> IF p \in TakenPaths(d) /\ Inventoried(d, p)
                     THEN live[d][p] ELSE None]

\* The live files an apply is about to replace.
Existing(d) == [p \in Paths |-> IF p \in TakenPaths(d) THEN live[d][p] ELSE None]

\* Stage the planned content, and copy what it will replace into the backup.
Stage(d) ==
  /\ run[d].pc = "plan" /\ run[d].todo = {} /\ Keys(run[d].plan) # {}
  /\ run' = [run EXCEPT ![d].pc = "apply", ![d].todo = Keys(run[d].plan),
       ![d].inventory = NoPaths, ![d].winner = NoPaths, ![d].staged = Now,
       ![d].undo = [files |-> Existing(d), copies |-> copies[d]]]
  /\ clock' = IF TakenPaths(d) = {} THEN clock ELSE Now
  /\ UNCHANGED <<edits, failures, disk, store, saved, mem>>

Applying(d, p) == run[d].pc = "apply" /\ IsNext(d, p)

\* os.replace of the live file; it carries the time its content was staged.
Replace(d, p) ==
  /\ Applying(d, p) /\ ~run[d].plan[p].keepBoth
  /\ live' = [live EXCEPT ![d][p] =
                [data |-> run[d].plan[p].data, mtime |-> run[d].staged]]
  /\ Pass(d, p)
  /\ UNCHANGED <<clock, edits, failures, copies, kept, store, saved>>

\* os.replace onto a conflict name, which no earlier run has used.
AddCopy(d, p) ==
  /\ Applying(d, p) /\ run[d].plan[p].keepBoth
  /\ copies' = [copies EXCEPT ![d] = @ \cup {<<p, run[d].plan[p].data>>}]
  /\ Pass(d, p)
  /\ UNCHANGED <<clock, edits, failures, live, kept, store, saved>>

Backup(d) == {<<p, run[d].undo.files[p].data>> : p \in Keys(run[d].undo.files)}

\* Mutant: keep_backup is not asked for.
KeepNothing(d) == UNCHANGED kept

\* The backup becomes a recovery directory.
Keep(d) == kept' = [kept EXCEPT ![d] = @ \cup Backup(d)]

FinishApply(d) ==
  /\ run[d].pc = "apply" /\ run[d].todo = {}
  /\ Keep(d)
  /\ run' = [run EXCEPT ![d] = [IdleRun EXCEPT !.pc = "save"]]
  /\ UNCHANGED <<clock, edits, failures, live, copies, store, saved, mem>>

\* A replacement raises: what was replaced is restored, and the run raises.
ApplyFails(d) ==
  LET replaced == TakenPaths(d) \ run[d].todo IN
  /\ run[d].pc = "apply" /\ run[d].todo # {}
  /\ MayFail("apply")
  /\ live' = [live EXCEPT ![d] =
       [p \in Paths |-> IF p \in replaced THEN run[d].undo.files[p] ELSE live[d][p]]]
  /\ copies' = [copies EXCEPT ![d] = run[d].undo.copies]
  /\ Forget(d)
  /\ UNCHANGED <<clock, edits, kept, store, saved>>

\* The process dies inside atomic_apply: the work directory stays behind.
CrashInApply(d) ==
  /\ run[d].pc = "apply"
  /\ MayFail("crash")
  /\ Keep(d)
  /\ Forget(d)
  /\ UNCHANGED <<clock, edits, live, copies, store, saved>>

\* The run raises (a peer manifest cannot be read) or its process dies.
Crash(d) ==
  /\ run[d].pc \in {"publish", "peers", "plan", "save"}
  /\ MayFail("crash")
  /\ Forget(d)
  /\ UNCHANGED <<clock, edits, disk, store, saved>>

NothingPlanned(d) ==
  run[d].pc = "plan" /\ run[d].todo = {} /\ Keys(run[d].plan) = {}

SaveState(d) ==
  /\ run[d].pc = "save" \/ NothingPlanned(d)
  /\ saved' = [saved EXCEPT ![d] = mem[d]]
  /\ run' = [run EXCEPT ![d] = IdleRun]
  /\ UNCHANGED <<clock, edits, failures, disk, store, mem>>

\* The operator saves another, empty storage backend between runs.
SwitchBackend ==
  /\ \A d \in Devices : run[d].pc = "idle"
  /\ MayFail("switch")
  /\ objects' = {} /\ torn' = {}
  /\ manifests' = [d \in Devices |-> NoPaths]
  /\ UNCHANGED <<clock, edits, disk, saved, mem, run>>

-----------------------------------------------------------------------------
User(d, p) ==
  \/ Edit(d, p)
  \/ p \in Logs /\ (BeginRecord(d, p) \/ EndRecord(d, p))
  \/ Delete(d, p)

\* The steps of a run when nothing goes wrong.
RunStep(d) ==
  \/ BuildManifest(d) \/ Announce(d) \/ StartPlan(d)
  \/ Stage(d) \/ FinishApply(d) \/ SaveState(d)
  \/ \E q \in Devices : ReadPeer(d, q)
  \/ \E p \in Paths : \/ PublishNothing(d, p) \/ PublishPresent(d, p) \/ Upload(d, p)
                      \/ PlanTake(d, p) \/ PlanConflict(d, p) \/ PlanNothing(d, p)
                      \/ Replace(d, p) \/ AddCopy(d, p)

Failure(d) ==
  \/ AnnounceFails(d) \/ ApplyFails(d) \/ CrashInApply(d) \/ Crash(d)
  \/ \E p \in Paths : UploadFails(d, p) \/ FetchFails(d, p)

Next ==
  \/ \E d \in Devices : \/ RunStep(d) \/ Failure(d)
                        \/ \E p \in Paths : User(d, p)
  \/ Tick \/ SwitchBackend

Spec == Init /\ [][Next]_vars

\* Every device is asked to sync again and again, and a run keeps going.
FairSpec == Spec /\ \A d \in Devices : WF_vars(RunStep(d))

-----------------------------------------------------------------------------
(* Safety *)

\* A manifest advertises only what is in the store, under its own digest: no
\* sequence of failing uploads, remembered uploads and aborted runs lets
\* publish list a digest whose bytes a peer cannot get.
StoreBacksManifests ==
  \A d \in Devices : \A p \in Keys(manifests[d]) : manifests[d][p].data \in objects

Contract == INSTANCE SharedStore

\* The fleet keeps the contract of its store: objects stay as they are, a
\* manifest changes only by its device's announcement, and every announcement
\* comes after the uploads it refers to.
KeepsContract == Contract!Spec

\* Neither a truncated object nor a record of which only a part is written
\* ever reaches a peer: not through a manifest, not through an apply.
NothingTornTravels ==
  \A d \in Devices :
    /\ \A p \in Keys(manifests[d]) : p \in Logs => ~IsPartial(manifests[d][p].data)
    /\ \A p \in Keys(run[d].plan) : ~IsPartial(run[d].plan[p].data)
    /\ \A x \in copies[d] : ~IsPartial(x[2])

HasEdit(c, e) == \E i \in DOMAIN c : c[i] \in {e, -e}

Survives(e) ==
  \E d \in Devices :
    \/ \E p \in Keys(live[d]) : HasEdit(live[d][p].data, e)
    \/ \E x \in copies[d] \cup kept[d] \cup Backup(d) : HasEdit(x[2], e)

\* Whatever a user wrote is still in a file, conflict copy or backup of some
\* device, whichever runs raced with the edit, failed or died, and whatever
\* became of the store.
EveryEditSurvives == \A e \in 1..edits : Survives(e)

\* Step of d's run, not of its user, that changes what a path holds.
Overwrites(d, p) ==
  /\ run'[d] # run[d]
  /\ live[d][p] # None
  /\ live'[d][p] = None \/ live'[d][p].data # live[d][p].data

\* A run overwrites content only after copying it beside the live file, even
\* when the file changed after the run decided (the rollback of an apply
\* takes back what the apply itself wrote).
OverwrittenIsKept ==
  [][\A d \in Devices, p \in Paths : Overwrites(d, p) =>
       \/ <<p, live[d][p].data>> \in Backup(d) \cup kept'[d]
       \/ run[d].plan[p] # None /\ live[d][p].data = run[d].plan[p].data]_vars

\* A run overwrites a file only if its content is the revision this device
\* last published or applied in a run that completed.
FreshEditNotOverwritten ==
  [][\A d \in Devices, p \in Files :
       Overwrites(d, p) /\ run'[d].pc = "apply" => live[d][p].data = saved[d].applied[p]]_vars

\* A run overwrites a file only if another device can still get its content.
OverwrittenWasPublished ==
  [][\A d \in Devices, p \in Files :
       Overwrites(d, p) /\ run'[d].pc = "apply" => live[d][p].data \in objects]_vars

\* A run never takes a complete record out of a log.
LogsOnlyGrow ==
  [][\A d \in Devices, p \in Logs :
       Overwrites(d, p) /\ run'[d].pc = "apply"
         => IsPrefix(WholeRecords(live[d][p].data), live'[d][p].data)]_vars

\* Whichever side extends the other is the complete log, so a run takes no
\* record out of a log that an earlier run of this device published or applied:
\* its inventory has the log, and the plan compared what the log held with the
\* version it is replaced by.
ComparedLogsGrow ==
  [][\A d \in Devices, p \in Logs :
       Overwrites(d, p) /\ run'[d].pc = "apply" /\ saved[d].applied[p] # None
         => IsPrefix(WholeRecords(live[d][p].data), live'[d][p].data)]_vars

\* Versions that diverged are both preserved in place: a run overwrites a file
\* only with a version derived from it.
DivergedNotOverwritten ==
  [][\A d \in Devices, p \in Files :
       Overwrites(d, p) /\ run'[d].pc = "apply"
         => IsPrefix(live[d][p].data, live'[d][p].data)]_vars

\* Logs merge by prefix, not by clock: a run that reads a peer's manifest never
\* settles for another peer's log that this one strictly extends.
LongerLogNotHidden ==
  [][\A d, q \in Devices, p \in Logs :
       run[d].pc = "peers" /\ q \in run[d].todo /\ q \notin run'[d].todo
         /\ manifests[q][p] # None
       => ~IsStrictPrefix(run'[d].winner[p].data, manifests[q][p].data)]_vars

-----------------------------------------------------------------------------
(* Liveness *)

\* A log without a complete record waits for its next cycle.
Waits(d, p) == IsPartial(Held(d, p)) /\ WholeRecords(Held(d, p)) = <<>>

\* The complete records of two logs are equal, or divergent branches.
LogsAgree(d, e, p) ==
  LET a == WholeRecords(Held(d, p))
      b == WholeRecords(Held(e, p))
  IN  a = b \/ ~(IsPrefix(a, b) \/ IsPrefix(b, a)) \/ Waits(d, p) \/ Waits(e, p)

\* Once users stop and failures are over, the logs of any two devices end up
\* equal or divergent.
LogsConverge ==
  \A d, e \in Devices, p \in Logs : <>[]LogsAgree(d, e, p)

\* Once users stop and failures are over, every device ends up with the same content of every file.
FilesConverge ==
  \A d, e \in Devices, p \in Files : <>[](Held(d, p) = Held(e, p))

=============================================================================
