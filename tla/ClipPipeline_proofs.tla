------------------------ MODULE ClipPipeline_proofs ------------------------
EXTENDS ClipPipeline, TLAPS

(***************************************************************************)
(* The inductive invariant                                                 *)
(***************************************************************************)

JobPCs == Inside \cup {"reopen", "rebind"}

(* What a thread holds at its program counter: the paths it works with, and
   the key of a job that exists. *)
HoldsPaths(t) ==
    /\ th[t].pc \notin {"idle", "done", "begin"} => th[t].path \in Paths /\ th[t].orig \in Paths
    /\ th[t].pc \in {"gate", "remux_rec", "remux_rm", "defer", "defer_row", "fail_rec", "final_rec"} =>
           th[t].src \in Paths
    /\ th[t].pc = "begin" => th[t].sub \in Paths
HoldsKey(t) ==
    /\ th[t].pc \in {"move", "reclaim", "insert", "adopt", "begin"} \cup JobPCs => th[t].key \in Keys
    /\ th[t].pc \in JobPCs => jobs[th[t].key].status # "none"
    /\ th[t].pc = "begin" => jobs[th[t].key].status # "none"
    /\ th[t].pc = "record" => th[t].step \in Steps \ {"booking", "final", "renamed"}

(* A remuxed copy of the source lies somewhere until the source is removed. *)
HasCopy(t) ==
    th[t].pc \in {"remux_rec", "remux_rm"} =>
        /\ th[t].src.name \notin Remuxed
        /\ \E q \in disk : q.file = th[t].src.file /\ q.name \in Remuxed

(* Every flag of a published step that a thread, a job or the retry command
   holds is backed by a call that was made; so is the step a thread is about
   to record, and a thread finalizes nothing that is not published.  A thread
   may hold flags its job lacks: the retry command drops what was set since
   it read the job. *)
Published == {"original", "previewUp", "row"}
Has(k, s) == \E o \in remote[s] : o.key = k
backed == [k \in Keys |-> {s \in Published : Has(k, s)}]
HoldsFlags(t) ==
    /\ th[t].pc \in JobPCs \ {"reopen", "rebind", "body"} =>
           th[t].flags \cap Published \subseteq backed[th[t].key]
    /\ th[t].pc = "record" /\ th[t].step \in Published => th[t].step \in backed[th[t].key]
    /\ th[t].pc = "final_rec" => Published \subseteq backed[th[t].key]

ThreadInv(t) == HoldsPaths(t) /\ HoldsKey(t) /\ HasCopy(t) /\ HoldsFlags(t)

RowHasJob == \A k \in Keys : rows[k].queued => jobs[k].status # "none"
FlagsAreBacked == \A k \in Keys : jobs[k].flags \cap Published \subseteq backed[k]
CompletedIsBacked ==
    \A k \in Keys : jobs[k].status = "completed" => Published \subseteq backed[k]
CmdIsBacked ==
    cmd # NoCmd => /\ jobs[cmd.key].status # "none"
                   /\ cmd.flags \cap Published \subseteq backed[cmd.key]

IInv ==
    /\ TypeOK /\ NeverLost
    /\ RowHasJob /\ FlagsAreBacked /\ CompletedIsBacked /\ CmdIsBacked
    /\ \A t \in Threads : ThreadInv(t)

(* What a step leaves to the others. *)
JobsGrow == \A k \in Keys : jobs[k].status # "none" => jobs'[k].status # "none"
RemoteGrows == \A s \in RemoteSteps : remote[s] \subseteq remote'[s]
BackedGrows == \A k \in Keys : backed[k] \subseteq backed'[k]
DiskKeeps ==
    \A p \in disk : \E q \in disk' : q.file = p.file /\ (p.name \in Remuxed => q.name \in Remuxed)
OthersSame(t) == \A u \in Threads \ {t} : th'[u] = th[u]
SamePaths(t) == th'[t].path = th[t].path /\ th'[t].orig = th[t].orig
SameJob(t) == th'[t].key = th[t].key /\ th'[t].flags = th[t].flags
StepEffects(t) ==
    JobsGrow /\ RemoteGrows /\ DiskKeeps /\ OthersSame(t) /\ UNCHANGED <<arrived, cmd>>

(***************************************************************************)
(* Lemmas about the operators                                              *)
(***************************************************************************)

LEMMA BackingGrows == ASSUME RemoteGrows PROVE BackedGrows
BY DEF RemoteGrows, BackedGrows, backed, Has, Published, RemoteSteps

LEMMA BackedNames ==
    ASSUME NEW k \in Keys, NEW s \in Published
    PROVE  /\ s \in backed[k] <=> Has(k, s)
           /\ s \in backed'[k] <=> Has(k, s)'
BY DEF backed, Has

(* What the retry command read stays backed while it is under way. *)
LEMMA CmdKeeps ==
    ASSUME IInv, JobsGrow, BackedGrows, cmd' \in {cmd, NoCmd}
    PROVE  CmdIsBacked'
<1>1. cmd # NoCmd => cmd.key \in Keys
  BY DEF IInv, TypeOK, WorldOK
<1> QED
  BY <1>1 DEF IInv, CmdIsBacked, JobsGrow, BackedGrows

LEMMA PathOps ==
    ASSUME NEW p \in Paths
    PROVE  /\ KeyOf(p) \in Keys
           /\ In(p, "processing") \in Paths /\ In(p, "processed") \in Paths
           /\ In(p, "failed") \in Paths
           /\ As(p, "utc") \in Paths /\ As(p, "mp4") \in Paths /\ As(p, "mp4_2") \in Paths
BY PipelineAssumption DEF Paths, Keys, KeyOf, In, As, Remuxed

LEMMA FreeType == ASSUME NEW p \in Paths, NEW there PROVE Free(p, there) \in Paths
BY PathOps DEF Free

LEMMA StepNames ==
    /\ "renamed" \in Steps /\ "preview" \in Steps /\ "final" \in Steps /\ "original" \in Steps
    /\ "previewUp" \in Steps /\ "row" \in Steps /\ "booking" \in Steps
    /\ RemoteSteps \subseteq Steps
BY DEF Steps, LocalSteps, RemoteSteps

LEMMA RemoteNames ==
    "original" \in RemoteSteps /\ "previewUp" \in RemoteSteps /\ "row" \in RemoteSteps
BY DEF RemoteSteps

(* A file that is moved, and renamed when its name is taken, is the same
   recording, and a remuxed one stays one. *)
LEMMA MoveKeeps ==
    ASSUME NEW p \in Paths, NEW there
    PROVE  /\ \A d \in {"processing", "processed", "failed"} :
                 /\ In(p, d).file = p.file /\ In(p, d).name = p.name
                 /\ Free(In(p, d), there).file = p.file
                 /\ p.name \in Remuxed => Free(In(p, d), there).name \in Remuxed
           /\ \A n \in {"utc", "mp4"} :
                 /\ As(p, n).file = p.file /\ As(p, n).name = n
                 /\ Free(As(p, n), there).file = p.file
                 /\ n = "mp4" => Free(As(p, n), there).name \in Remuxed
BY DEF Paths, In, As, Free, Remuxed

LEMMA NewJobType ==
    ASSUME NEW p \in Paths
    PROVE  /\ NewJob(p) \in Jobs
           /\ NewJob(p).status = "processing" /\ NewJob(p).flags = {}
BY DEF NewJob, NoJob, Jobs

LEMMA EnsurePC == ASSUME NEW status PROVE AfterEnsure(status) \in {"exit", "reopen", "body"}
BY DEF AfterEnsure

LEMMA Held ==
    ASSUME IInv, NEW t \in Threads, th[t].pc \in JobPCs
    PROVE  /\ th[t].path \in Paths /\ th[t].orig \in Paths
           /\ th[t].key \in Keys /\ jobs[th[t].key] \in Jobs
<1>1. th[t].path \in Paths /\ th[t].orig \in Paths
  BY DEF IInv, ThreadInv, HoldsPaths, JobPCs, Inside
<1>2. th[t].key \in Keys /\ jobs[th[t].key].status # "none"
  BY DEF IInv, ThreadInv, HoldsKey
<1> QED
  BY <1>1, <1>2 DEF IInv, TypeOK, JobsOK, NoJob

LEMMA TypeStep ==
    ASSUME IInv, NEW t \in Threads, Step(t)
    PROVE  TypeOK'
<1> USE DEF IInv, TypeOK, ThreadInv
<1>a. th[t] \in Locals
  BY DEF ThreadsOK
<1>r. th[t].pc = "record" => th[t].step \in Steps
  BY DEF HoldsKey
<1>1. CASE Ready(t)
  <2>1. {th[t].path, th[t].orig} \subseteq Paths
    BY <1>1 DEF Ready, HoldsPaths
  <2>2. ThreadsOK'
    BY <1>1, <1>a, <2>1, PathOps, StepNames DEF Ready, ThreadsOK, Locals, OptPaths, PCs, Go, Idle, Free
  <2>3. MemoryOK'
    BY <1>1, <1>a, <2>1, PathOps DEF Ready, MemoryOK, memory, queue
  <2> QED
    BY <1>1, <2>2, <2>3 DEF Ready, DiskOK, JobsOK, RowsOK, RemoteOK, WorldOK, world, store, queue, memory
<1>2. CASE MoveIn(t)
  <2>1. {th[t].path, th[t].orig} \subseteq Paths /\ th[t].key \in Keys
    BY <1>2 DEF MoveIn, HoldsPaths, HoldsKey
  <2>2. ThreadsOK'
    BY <1>2, <1>a, <2>1, PathOps, StepNames DEF MoveIn, ThreadsOK, Locals, OptPaths, PCs, Go, Idle, Free
  <2>3. DiskOK'
    BY <1>2, <1>a, <2>1, PathOps DEF MoveIn, DiskOK, world, Free
  <2>4. WorldOK'
    BY <1>2, <1>a, <2>1 DEF MoveIn, WorldOK, world, Fault, Spend
  <2> QED
    BY <1>2, <2>2, <2>3, <2>4 DEF MoveIn, JobsOK, RowsOK, RemoteOK, MemoryOK, world, store, queue, memory
<1>3. CASE Reclaim(t)
  <2>1. {th[t].path, th[t].orig} \subseteq Paths /\ th[t].key \in Keys
    BY <1>3 DEF Reclaim, HoldsPaths, HoldsKey
  <2>2. ThreadsOK'
    BY <1>3, <1>a, <2>1, StepNames DEF Reclaim, ThreadsOK, Locals, OptPaths, PCs, Go, Idle
  <2>3. MemoryOK'
    BY <1>3, <1>a, <2>1 DEF Reclaim, MemoryOK, memory, queue
  <2> QED
    BY <1>3, <2>2, <2>3 DEF Reclaim, DiskOK, JobsOK, RowsOK, RemoteOK, WorldOK, world, store, queue, memory
<1>4. CASE Insert(t)
  <2>1. {th[t].path, th[t].orig} \subseteq Paths /\ th[t].key \in Keys
    BY <1>4 DEF Insert, HoldsPaths, HoldsKey
  <2>2. ThreadsOK'
    BY <1>4, <1>a, <2>1, PathOps, StepNames DEF Insert, ThreadsOK, Locals, OptPaths, PCs, Go, Idle, Free
  <2>3. JobsOK'
    BY <1>4, <2>1, NewJobType DEF Insert, JobsOK, store
  <2> QED
    BY <1>4, <2>2, <2>3 DEF Insert, DiskOK, RowsOK, RemoteOK, MemoryOK, WorldOK, world, store, queue, memory
<1>5. CASE Resume(t)
  <2>1. {th[t].path, th[t].orig} \subseteq Paths
    BY <1>5 DEF Resume, HoldsPaths
  <2>2. ThreadsOK'
    <3>1. PICK k \in Keys, pc \in {"exit", "reopen", "body", "adopt", "rebind"} :
             \/ th' = [th EXCEPT ![t].key = k, ![t].pc = pc]
             \/ th' = [th EXCEPT ![t].pc = pc]
      BY <1>5, <2>1, PathOps, EnsurePC DEF Resume, Go
    <3>2. [th[t] EXCEPT !.key = k, !.pc = pc] \in Locals /\ [th[t] EXCEPT !.pc = pc] \in Locals
      BY <1>a DEF Locals, PCs
    <3> QED
      BY <3>1, <3>2 DEF ThreadsOK
  <2> QED
    BY <1>5, <2>2 DEF Resume, DiskOK, JobsOK, RowsOK, RemoteOK, MemoryOK, WorldOK, world, store, queue, memory
<1>33. CASE Adopt(t)
  <2>1. {th[t].path, th[t].orig} \subseteq Paths /\ th[t].key \in Keys
    BY <1>33 DEF Adopt, HoldsPaths, HoldsKey
  <2>2. ThreadsOK'
    BY <1>33, <1>a, <2>1 DEF Adopt, Orphaned, ThreadsOK, Locals, PCs, Go
  <2>3. JobsOK'
    BY <1>33, <2>1, NewJobType DEF Adopt, JobsOK, store
  <2> QED
    BY <1>33, <2>2, <2>3 DEF Adopt, DiskOK, RowsOK, RemoteOK, MemoryOK, WorldOK, world, store, queue, memory
<1>34. CASE Rebind(t)
  <2>1. th[t].pc \in JobPCs
    BY <1>34 DEF Rebind, JobPCs, Inside, PCs
  <2>2. {th[t].path, th[t].orig} \subseteq Paths /\ th[t].key \in Keys /\ jobs[th[t].key] \in Jobs
    BY <2>1, Held
  <2>3. ThreadsOK'
    BY <1>34, <1>a, <2>2, EnsurePC DEF Rebind, Orphaned, ThreadsOK, Locals, PCs, Go
  <2>4. JobsOK'
    BY <1>34, <1>a, <2>2, StepNames DEF Rebind, JobsOK, Jobs, store
  <2> QED
    BY <1>34, <2>3, <2>4 DEF Rebind, DiskOK, RowsOK, RemoteOK, MemoryOK, WorldOK, world, store, queue, memory
<1>6. CASE Reopen(t)
  <2>1. th[t].pc \in JobPCs
    BY <1>6 DEF Reopen, JobPCs, Inside, PCs
  <2>2. {th[t].path, th[t].orig} \subseteq Paths /\ th[t].key \in Keys /\ jobs[th[t].key] \in Jobs
    BY <2>1, Held
  <2>3. ThreadsOK'
    BY <1>6, <1>a, <2>2, StepNames DEF Reopen, ThreadsOK, Locals, OptPaths, PCs, Go, Idle
  <2>4. JobsOK'
    BY <1>6, <1>a, <2>2, StepNames DEF Reopen, JobsOK, Jobs, store
  <2> QED
    BY <1>6, <2>3, <2>4 DEF Reopen, DiskOK, RowsOK, RemoteOK, MemoryOK, WorldOK, world, store, queue, memory
<1>7. CASE Body(t)
  <2>1. th[t].pc \in JobPCs
    BY <1>7 DEF Body, JobPCs, Inside, PCs
  <2>2. {th[t].path, th[t].orig} \subseteq Paths /\ th[t].key \in Keys /\ jobs[th[t].key] \in Jobs
    BY <2>1, Held
  <2>3. jobs[th[t].key].flags \in SUBSET Steps /\ jobs[th[t].key].path \in Paths
    BY <2>2 DEF Jobs
  <2>4. ThreadsOK'
    BY <1>7, <1>a, <2>2, <2>3 DEF Body, ThreadsOK, Locals, OptPaths, PCs
  <2> QED
    BY <1>7, <2>4 DEF Body, DiskOK, JobsOK, RowsOK, RemoteOK, MemoryOK, WorldOK, world, store, queue, memory
<1>35. CASE Gate(t)
  <2>1. th[t].pc \in JobPCs
    BY <1>35 DEF Gate, JobPCs, Inside, PCs
  <2>2. {th[t].path, th[t].orig, th[t].src} \subseteq Paths
    BY <1>35, <2>1, Held DEF Gate, HoldsPaths
  <2>3. ThreadsOK'
    <3> DEFINE large == th[t].path.file \in LargeFiles
               path == IF "renamed" \in th[t].flags THEN th[t].src ELSE th[t].path
               pc == IF ~("renamed" \in th[t].flags) THEN "utc"
                     ELSE IF path \in disk THEN "remux" ELSE "exit"
               new == [th[t] EXCEPT !.slot = large, !.path = path, !.src = None, !.pc = pc]
    <3>1. large \in BOOLEAN /\ path \in Paths /\ pc \in {"utc", "remux", "exit"}
      BY <2>2
    <3>2. new \in Locals
      <4> HIDE DEF large, path, pc
      <4> QED
        BY <1>a, <3>1 DEF Locals, PCs, OptPaths
    <3>3. th' = [th EXCEPT ![t] = new]
      BY <1>35, <1>a DEF Gate, ThreadsOK
    <3> HIDE DEF new
    <3> QED
      BY <3>2, <3>3 DEF ThreadsOK
  <2> QED
    BY <1>35, <2>3 DEF Gate, DiskOK, JobsOK, RowsOK, RemoteOK, MemoryOK, WorldOK, world, store, queue, memory
<1>8. CASE RenameUtc(t)
  <2>1. th[t].pc \in JobPCs
    BY <1>8 DEF RenameUtc, JobPCs, Inside, PCs
  <2>2. {th[t].path, th[t].orig} \subseteq Paths /\ th[t].key \in Keys /\ jobs[th[t].key] \in Jobs
    BY <2>1, Held
  <2>3. ThreadsOK'
    BY <1>8, <1>a, <2>2, PathOps, StepNames DEF RenameUtc, ThreadsOK, Locals, OptPaths, PCs, Go, Idle, Free
  <2>4. DiskOK'
    BY <1>8, <1>a, <2>2, PathOps DEF RenameUtc, DiskOK, world, Free
  <2>5. MemoryOK'
    BY <1>8, <1>a, <2>2, PathOps DEF RenameUtc, MemoryOK, memory, queue
  <2>6. WorldOK'
    BY <1>8, <1>a, <2>2 DEF RenameUtc, WorldOK, world, Fault, Spend
  <2> QED
    BY <1>8, <2>3, <2>4, <2>5, <2>6 DEF RenameUtc, JobsOK, RowsOK, RemoteOK, world, store, queue, memory
<1>9. CASE RecordUtc(t)
  <2>1. th[t].pc \in JobPCs
    BY <1>9 DEF RecordUtc, JobPCs, Inside, PCs
  <2>2. {th[t].path, th[t].orig} \subseteq Paths /\ th[t].key \in Keys /\ jobs[th[t].key] \in Jobs
    BY <2>1, Held
  <2>3. ThreadsOK'
    <3> DEFINE new == [th[t] EXCEPT !.pc = "remux", !.flags = @ \cup {"renamed"}]
    <3>1. new \in Locals
      BY <1>a, StepNames DEF Locals, PCs
    <3>2. th' = [th EXCEPT ![t] = new] \/ th' = [th EXCEPT ![t].pc = "fail"]
      BY <1>9, <1>a DEF RecordUtc, Go, ThreadsOK
    <3>3. [th[t] EXCEPT !.pc = "fail"] \in Locals
      BY <1>a DEF Locals, PCs
    <3> HIDE DEF new
    <3> QED
      BY <3>1, <3>2, <3>3 DEF ThreadsOK
  <2>4. JobsOK'
    BY <1>9, <1>a, <2>2, StepNames DEF RecordUtc, JobsOK, Jobs, store
  <2> QED
    BY <1>9, <2>3, <2>4 DEF RecordUtc, DiskOK, RowsOK, RemoteOK, MemoryOK, WorldOK, world, store, queue, memory
<1>10. CASE Remux(t)
  <2>1. th[t].pc \in JobPCs
    BY <1>10 DEF Remux, JobPCs, Inside, PCs
  <2>2. {th[t].path, th[t].orig} \subseteq Paths /\ th[t].key \in Keys /\ jobs[th[t].key] \in Jobs
    BY <2>1, Held
  <2>3. ThreadsOK'
    BY <1>10, <1>a, <2>2, PathOps, StepNames DEF Remux, ThreadsOK, Locals, OptPaths, PCs, Go, Idle, Free
  <2>4. DiskOK'
    BY <1>10, <1>a, <2>2, PathOps DEF Remux, DiskOK, world, Free
  <2>5. WorldOK'
    BY <1>10, <1>a, <2>2 DEF Remux, WorldOK, world, Fault, Spend
  <2> QED
    BY <1>10, <2>3, <2>4, <2>5 DEF Remux, JobsOK, RowsOK, RemoteOK, MemoryOK, world, store, queue, memory
<1>11. CASE RecordRemux(t)
  <2>1. th[t].pc \in JobPCs
    BY <1>11 DEF RecordRemux, JobPCs, Inside, PCs
  <2>2. {th[t].path, th[t].orig} \subseteq Paths /\ th[t].key \in Keys /\ jobs[th[t].key] \in Jobs
    BY <2>1, Held
  <2>3. ThreadsOK'
    BY <1>11, <1>a, <2>2, StepNames DEF RecordRemux, ThreadsOK, Locals, OptPaths, PCs, Go, Idle
  <2>4. JobsOK'
    BY <1>11, <1>a, <2>2, StepNames DEF RecordRemux, JobsOK, Jobs, store
  <2> QED
    BY <1>11, <2>3, <2>4 DEF RecordRemux, DiskOK, RowsOK, RemoteOK, MemoryOK, WorldOK, world, store, queue, memory
<1>12. CASE RemoveSource(t)
  <2>1. th[t].pc \in JobPCs
    BY <1>12 DEF RemoveSource, JobPCs, Inside, PCs
  <2>2. {th[t].path, th[t].orig} \subseteq Paths /\ th[t].key \in Keys /\ jobs[th[t].key] \in Jobs
    BY <2>1, Held
  <2>3. ThreadsOK'
    BY <1>12, <1>a, <2>2, StepNames DEF RemoveSource, ThreadsOK, Locals, OptPaths, PCs, Go, Idle
  <2>4. DiskOK'
    BY <1>12, <1>a, <2>2, PathOps DEF RemoveSource, DiskOK, world, Free
  <2>5. WorldOK'
    BY <1>12, <1>a, <2>2 DEF RemoveSource, WorldOK, world, Fault, Spend
  <2> QED
    BY <1>12, <2>3, <2>4, <2>5 DEF RemoveSource, JobsOK, RowsOK, RemoteOK, MemoryOK, world, store, queue, memory
<1>13. CASE Preview(t)
  <2>1. th[t].pc \in JobPCs
    BY <1>13 DEF Preview, At, JobPCs, Inside, PCs
  <2>2. {th[t].path, th[t].orig} \subseteq Paths /\ th[t].key \in Keys /\ jobs[th[t].key] \in Jobs
    BY <2>1, Held
  <2>3. ThreadsOK'
    BY <1>13, <1>a, <2>2, StepNames DEF Preview, At, Raise, Shielded, ThreadsOK, Locals, OptPaths, PCs, Go, Idle
  <2>4. MemoryOK'
    BY <1>13, <1>a, <2>2 DEF Preview, At, Raise, Shielded, MemoryOK, memory, queue
  <2>5. WorldOK'
    BY <1>13, <1>a, <2>2 DEF Preview, At, Raise, Shielded, WorldOK, world, Fault, Spend
  <2> QED
    BY <1>13, <2>3, <2>4, <2>5 DEF Preview, DiskOK, JobsOK, RowsOK, RemoteOK, world, store, queue, memory
<1>14. CASE MoveBad(t)
  <2>1. th[t].pc \in JobPCs
    BY <1>14 DEF MoveBad, JobPCs, Inside, PCs
  <2>2. {th[t].path, th[t].orig} \subseteq Paths /\ th[t].key \in Keys /\ jobs[th[t].key] \in Jobs
    BY <2>1, Held
  <2>3. ThreadsOK'
    BY <1>14, <1>a, <2>2, PathOps, StepNames DEF MoveBad, ThreadsOK, Locals, OptPaths, PCs, Go, Idle, Free
  <2>4. DiskOK'
    BY <1>14, <1>a, <2>2, PathOps DEF MoveBad, DiskOK, world, Free
  <2>5. WorldOK'
    BY <1>14, <1>a, <2>2 DEF MoveBad, WorldOK, world, Fault, Spend
  <2> QED
    BY <1>14, <2>3, <2>4, <2>5 DEF MoveBad, JobsOK, RowsOK, RemoteOK, MemoryOK, world, store, queue, memory
<1>15. CASE RecordBad(t)
  <2>1. th[t].pc \in JobPCs
    BY <1>15 DEF RecordBad, JobPCs, Inside, PCs
  <2>2. {th[t].path, th[t].orig} \subseteq Paths /\ th[t].key \in Keys /\ jobs[th[t].key] \in Jobs
    BY <2>1, Held
  <2>3. ThreadsOK'
    BY <1>15, <1>a, <2>2, StepNames DEF RecordBad, ThreadsOK, Locals, OptPaths, PCs, Go, Idle
  <2>4. JobsOK'
    BY <1>15, <1>a, <2>2, StepNames DEF RecordBad, JobsOK, Jobs, store
  <2> QED
    BY <1>15, <2>3, <2>4 DEF RecordBad, DiskOK, RowsOK, RemoteOK, MemoryOK, WorldOK, world, store, queue, memory
<1>16. ASSUME NEW s \in {"original", "previewUp", "row"}, Call(t, s) PROVE TypeOK'
  <2>1. th[t].pc \in JobPCs
    BY <1>16 DEF Call, At, JobPCs, Inside, PCs
  <2>2. {th[t].path, th[t].orig} \subseteq Paths /\ th[t].key \in Keys /\ jobs[th[t].key] \in Jobs
    BY <2>1, Held
  <2>3. ThreadsOK'
    <3>1. s \in Steps
      BY StepNames
    <3> QED
      BY <1>16, <1>a, <2>2, <3>1 DEF Call, ThreadsOK, Locals, PCs
  <2>4. RemoteOK'
    BY <1>16, <1>a, <2>2, RemoteNames DEF Call, At, RemoteOK, Told, Object, Objects, Locals, Paths
  <2> QED
    BY <1>16, <2>3, <2>4 DEF Call, DiskOK, JobsOK, RowsOK, MemoryOK, WorldOK, world, store, queue, memory
<1>17. ASSUME NEW s \in {"original", "previewUp", "row"}, CallRaises(t, s) PROVE TypeOK'
  <2>1. th[t].pc \in JobPCs
    BY <1>17 DEF CallRaises, At, JobPCs, Inside, PCs
  <2>2. {th[t].path, th[t].orig} \subseteq Paths /\ th[t].key \in Keys /\ jobs[th[t].key] \in Jobs
    BY <2>1, Held
  <2>3. ThreadsOK'
    BY <1>17, <1>a, <2>2, StepNames DEF CallRaises, At, ThreadsOK, Locals, OptPaths, PCs, Go, Idle
  <2>4. WorldOK'
    BY <1>17, <1>a, <2>2 DEF CallRaises, At, WorldOK, world, Fault, Spend
  <2> QED
    BY <1>17, <2>3, <2>4 DEF CallRaises, DiskOK, JobsOK, RowsOK, RemoteOK, MemoryOK, world, store, queue, memory
<1>18. ASSUME NEW s \in RemoteSteps, Deferred(t, s) PROVE TypeOK'
  <2>1. th[t].pc \in JobPCs
    BY <1>18 DEF Deferred, At, JobPCs, Inside, PCs
  <2>2. {th[t].path, th[t].orig} \subseteq Paths /\ th[t].key \in Keys /\ jobs[th[t].key] \in Jobs
    BY <2>1, Held
  <2>3. ThreadsOK'
    <3> DEFINE path == jobs[th[t].key].path
               started == th[t].started \/ s \in {"original", "previewUp"}
               new == [th[t] EXCEPT !.pc = "defer", !.step = s, !.src = path, !.started = started]
    <3>1. path \in Paths /\ started \in BOOLEAN /\ s \in Steps
      BY <2>2, StepNames DEF Jobs
    <3>2. new \in Locals
      <4> HIDE DEF path, started
      <4> QED
        BY <1>a, <3>1 DEF Locals, PCs, OptPaths
    <3>3. th' = [th EXCEPT ![t] = new]
      BY <1>18, <1>a DEF Deferred, ThreadsOK
    <3> HIDE DEF new
    <3> QED
      BY <3>2, <3>3 DEF ThreadsOK
  <2>4. RemoteOK'
    BY <1>18, <1>a, <2>2 DEF Deferred, At, RemoteOK, Told, Object, Objects, Locals, Paths
  <2>5. WorldOK'
    BY <1>18, <1>a, <2>2 DEF Deferred, At, WorldOK, world, Fault, Spend
  <2> QED
    BY <1>18, <2>3, <2>4, <2>5 DEF Deferred, DiskOK, JobsOK, RowsOK, MemoryOK, world, store, queue, memory
<1>19. CASE Record(t)
  <2>1. th[t].pc \in JobPCs
    BY <1>19 DEF Record, JobPCs, Inside, PCs
  <2>2. {th[t].path, th[t].orig} \subseteq Paths /\ th[t].key \in Keys /\ jobs[th[t].key] \in Jobs
    BY <2>1, Held
  <2>3. ThreadsOK'
    <3> DEFINE new == [th[t] EXCEPT !.pc = "work", !.step = "none", !.flags = @ \cup {th[t].step}]
    <3>1. new \in Locals
      BY <1>19, <1>a, <1>r DEF Record, Locals, PCs
    <3>2. th' = [th EXCEPT ![t] = new]
      BY <1>19, <1>a DEF Record, ThreadsOK
    <3> HIDE DEF new
    <3> QED
      BY <3>1, <3>2 DEF ThreadsOK
  <2>4. JobsOK'
    BY <1>19, <1>a, <2>2, StepNames, <1>r DEF Record, JobsOK, Jobs, store
  <2>5. MemoryOK'
    BY <1>19, <1>a, <2>2 DEF Record, MemoryOK, memory, queue
  <2> QED
    BY <1>19, <2>3, <2>4, <2>5 DEF Record, DiskOK, RowsOK, RemoteOK, WorldOK, world, store, queue, memory
<1>20. CASE BookingMatched(t)
  <2>1. th[t].pc \in JobPCs
    BY <1>20 DEF BookingMatched, At, JobPCs, Inside, PCs
  <2>2. {th[t].path, th[t].orig} \subseteq Paths /\ th[t].key \in Keys /\ jobs[th[t].key] \in Jobs
    BY <2>1, Held
  <2>3. ThreadsOK'
    BY <1>20, <1>a, <2>2, StepNames DEF BookingMatched, At, ThreadsOK, Locals, OptPaths, PCs, Go, Idle
  <2>4. JobsOK'
    <3> DEFINE flags == jobs[th[t].key].flags \cup {"booking"}
               tries == jobs[th[t].key].tries + 1
               new == [jobs[th[t].key] EXCEPT !.flags = flags, !.tries = tries, !.bookAt = "never"]
    <3>1. flags \in SUBSET Steps /\ tries \in Nat
      BY <2>2, StepNames DEF Jobs
    <3>2. new \in Jobs
      <4> HIDE DEF flags, tries
      <4> QED
        BY <2>2, <3>1 DEF Jobs
    <3>3. jobs' = [jobs EXCEPT ![th[t].key] = new]
      BY <1>20 DEF BookingMatched
    <3> HIDE DEF new
    <3> QED
      BY <2>2, <3>2, <3>3 DEF JobsOK
  <2>5. RemoteOK'
    BY <1>20, <1>a, <2>2 DEF BookingMatched, At, RemoteOK, Told, Object, Objects, Locals, Paths
  <2>6. WorldOK'
    BY <1>20, <1>a, <2>2 DEF BookingMatched, At, WorldOK, world, Fault, Spend
  <2> QED
    BY <1>20, <2>3, <2>4, <2>5, <2>6 DEF BookingMatched, DiskOK, RowsOK, MemoryOK, world, store, queue, memory
<1>21. CASE BookingUnmatched(t)
  <2>1. th[t].pc \in JobPCs
    BY <1>21 DEF BookingUnmatched, At, JobPCs, Inside, PCs
  <2>2. {th[t].path, th[t].orig} \subseteq Paths /\ th[t].key \in Keys /\ jobs[th[t].key] \in Jobs
    BY <2>1, Held
  <2>3. ThreadsOK'
    BY <1>21, <1>a, <2>2, StepNames DEF BookingUnmatched, At, ThreadsOK, Locals, OptPaths, PCs, Go, Idle
  <2>4. JobsOK'
    BY <1>21, <1>a, <2>2, StepNames DEF BookingUnmatched, At, JobsOK, Jobs, store
  <2> QED
    BY <1>21, <2>3, <2>4 DEF BookingUnmatched, DiskOK, RowsOK, RemoteOK, MemoryOK, WorldOK, world, store, queue, memory
<1>22. CASE BookingRaises(t)
  <2>1. th[t].pc \in JobPCs
    BY <1>22 DEF BookingRaises, At, JobPCs, Inside, PCs
  <2>2. {th[t].path, th[t].orig} \subseteq Paths /\ th[t].key \in Keys /\ jobs[th[t].key] \in Jobs
    BY <2>1, Held
  <2>3. ThreadsOK'
    BY <1>22, <1>a, <2>2, StepNames DEF BookingRaises, At, ThreadsOK, Locals, OptPaths, PCs, Go, Idle
  <2>4. WorldOK'
    BY <1>22, <1>a, <2>2 DEF BookingRaises, At, WorldOK, world, Fault, Spend
  <2> QED
    BY <1>22, <2>3, <2>4 DEF BookingRaises, DiskOK, JobsOK, RowsOK, RemoteOK, MemoryOK, world, store, queue, memory
<1>23. CASE DeferJob(t)
  <2>1. th[t].pc \in JobPCs
    BY <1>23 DEF DeferJob, JobPCs, Inside, PCs
  <2>2. {th[t].path, th[t].orig} \subseteq Paths /\ th[t].key \in Keys /\ jobs[th[t].key] \in Jobs
    BY <2>1, Held
  <2>3. ThreadsOK'
    BY <1>23, <1>a, <2>2, StepNames DEF DeferJob, ThreadsOK, Locals, OptPaths, PCs, Go, Idle
  <2>4. JobsOK'
    BY <1>23, <1>a, <2>2, StepNames DEF DeferJob, JobsOK, Jobs, store
  <2> QED
    BY <1>23, <2>3, <2>4 DEF DeferJob, DiskOK, RowsOK, RemoteOK, MemoryOK, WorldOK, world, store, queue, memory
<1>24. CASE DeferRow(t)
  <2>1. th[t].pc \in JobPCs
    BY <1>24 DEF DeferRow, JobPCs, Inside, PCs
  <2>2. {th[t].path, th[t].orig} \subseteq Paths /\ th[t].key \in Keys /\ jobs[th[t].key] \in Jobs
    BY <2>1, Held
  <2>3. ThreadsOK'
    BY <1>24, <1>a, <2>2, StepNames DEF DeferRow, ThreadsOK, Locals, OptPaths, PCs, Go, Idle
  <2>4. RowsOK'
    <3> DEFINE k == th[t].key
               new == [rows[k] EXCEPT !.queued = TRUE, !.path = th[t].src]
    <3>1. th[t].src \in Paths
      BY <1>24 DEF DeferRow, HoldsPaths
    <3>2. rows[k] \in Rows
      BY <2>2 DEF RowsOK
    <3>3. new \in Rows
      BY <3>1, <3>2 DEF Rows, OptPaths
    <3>4. rows' = [rows EXCEPT ![k] = new] /\ new.path \in Paths
      BY <1>24, <3>1, <3>2 DEF DeferRow, Rows
    <3> HIDE DEF new
    <3> QED
      BY <2>2, <3>3, <3>4 DEF RowsOK
  <2> QED
    BY <1>24, <2>3, <2>4 DEF DeferRow, DiskOK, JobsOK, RemoteOK, MemoryOK, WorldOK, world, store, queue, memory
<1>25. CASE Finalize(t)
  <2>1. th[t].pc \in JobPCs
    BY <1>25 DEF Finalize, At, JobPCs, Inside, PCs
  <2>2. {th[t].path, th[t].orig} \subseteq Paths /\ th[t].key \in Keys /\ jobs[th[t].key] \in Jobs
    BY <2>1, Held
  <2>3. ThreadsOK'
    BY <1>25, <1>a, <2>2, PathOps, StepNames DEF Finalize, At, Go, ThreadsOK, Locals, OptPaths, PCs, Go, Idle, Free
  <2>4. DiskOK'
    BY <1>25, <1>a, <2>2, PathOps DEF Finalize, At, Go, DiskOK, world, Free
  <2>5. JobsOK'
    BY <1>25, <1>a, <2>2, PathOps, StepNames DEF Finalize, At, Go, JobsOK, Jobs, store
  <2>6. WorldOK'
    BY <1>25, <1>a, <2>2 DEF Finalize, At, Go, WorldOK, world, Fault, Spend
  <2> QED
    BY <1>25, <2>3, <2>4, <2>5, <2>6 DEF Finalize, RowsOK, RemoteOK, MemoryOK, world, store, queue, memory
<1>26. CASE RecordFinal(t)
  <2>1. th[t].pc \in JobPCs
    BY <1>26 DEF RecordFinal, JobPCs, Inside, PCs
  <2>2. {th[t].path, th[t].orig} \subseteq Paths /\ th[t].key \in Keys /\ jobs[th[t].key] \in Jobs
    BY <2>1, Held
  <2>3. ThreadsOK'
    <3> DEFINE new == [th[t] EXCEPT !.pc = "final_del", !.flags = @ \cup {"final"}, !.src = None]
               lost == [th[t] EXCEPT !.pc = "exit", !.src = None]
    <3>1. new \in Locals /\ lost \in Locals
      BY <1>a, StepNames DEF Locals, PCs, OptPaths
    <3>2. th' = [th EXCEPT ![t] = new] \/ th' = [th EXCEPT ![t] = lost]
      BY <1>26, <1>a DEF RecordFinal, ThreadsOK
    <3> HIDE DEF new, lost
    <3> QED
      BY <3>1, <3>2 DEF ThreadsOK
  <2>4. JobsOK'
    BY <1>26, <1>a, <2>2, StepNames DEF RecordFinal, JobsOK, Jobs, store
  <2> QED
    BY <1>26, <2>3, <2>4 DEF RecordFinal, DiskOK, RowsOK, RemoteOK, MemoryOK, WorldOK, world, store, queue, memory
<1>27. CASE DeleteRow(t)
  <2>1. th[t].pc \in JobPCs
    BY <1>27 DEF DeleteRow, JobPCs, Inside, PCs
  <2>2. {th[t].path, th[t].orig} \subseteq Paths /\ th[t].key \in Keys /\ jobs[th[t].key] \in Jobs
    BY <2>1, Held
  <2>3. ThreadsOK'
    BY <1>27, <1>a, <2>2, StepNames DEF DeleteRow, ThreadsOK, Locals, OptPaths, PCs, Go, Idle
  <2>4. RowsOK'
    BY <1>27, <1>a, <2>2 DEF DeleteRow, RowsOK, Rows, NoRow, OptPaths
  <2> QED
    BY <1>27, <2>3, <2>4 DEF DeleteRow, DiskOK, JobsOK, RemoteOK, MemoryOK, WorldOK, world, store, queue, memory
<1>28. CASE NothingLeft(t)
  <2>1. th[t].pc \in JobPCs
    BY <1>28 DEF NothingLeft, JobPCs, Inside, PCs
  <2>2. {th[t].path, th[t].orig} \subseteq Paths /\ th[t].key \in Keys /\ jobs[th[t].key] \in Jobs
    BY <2>1, Held
  <2>3. ThreadsOK'
    BY <1>28, <1>a, <2>2, StepNames DEF NothingLeft, ThreadsOK, Locals, OptPaths, PCs, Go, Idle
  <2> QED
    BY <1>28, <2>3 DEF NothingLeft, DiskOK, JobsOK, RowsOK, RemoteOK, MemoryOK, WorldOK, world, store, queue, memory
<1>29. CASE MoveFailed(t)
  <2>1. th[t].pc \in JobPCs
    BY <1>29 DEF MoveFailed, JobPCs, Inside, PCs
  <2>2. {th[t].path, th[t].orig} \subseteq Paths /\ th[t].key \in Keys /\ jobs[th[t].key] \in Jobs
    BY <2>1, Held
  <2>3. ThreadsOK'
    BY <1>29, <1>a, <2>2, PathOps, StepNames DEF MoveFailed, ThreadsOK, Locals, OptPaths, PCs, Go, Idle, Free
  <2>4. DiskOK'
    BY <1>29, <1>a, <2>2, PathOps DEF MoveFailed, DiskOK, world, Free
  <2>5. WorldOK'
    BY <1>29, <1>a, <2>2 DEF MoveFailed, WorldOK, world, Fault, Spend
  <2> QED
    BY <1>29, <2>3, <2>4, <2>5 DEF MoveFailed, JobsOK, RowsOK, RemoteOK, MemoryOK, world, store, queue, memory
<1>30. CASE RecordFailed(t)
  <2>1. th[t].pc \in JobPCs
    BY <1>30 DEF RecordFailed, JobPCs, Inside, PCs
  <2>2. {th[t].path, th[t].orig} \subseteq Paths /\ th[t].key \in Keys /\ jobs[th[t].key] \in Jobs
    BY <2>1, Held
  <2>3. ThreadsOK'
    BY <1>30, <1>a, <2>2, StepNames DEF RecordFailed, ThreadsOK, Locals, OptPaths, PCs, Go, Idle
  <2>4. JobsOK'
    BY <1>30, <1>a, <2>2, StepNames DEF RecordFailed, JobsOK, Jobs, store
  <2> QED
    BY <1>30, <2>3, <2>4 DEF RecordFailed, DiskOK, RowsOK, RemoteOK, MemoryOK, WorldOK, world, store, queue, memory
<1>36. CASE MoveOrphan(t)
  <2>1. {th[t].path, th[t].orig} \subseteq Paths
    BY <1>36 DEF MoveOrphan, HoldsPaths
  <2>2. ThreadsOK'
    BY <1>36, <1>a DEF MoveOrphan, ThreadsOK, Locals, PCs, Go
  <2>3. DiskOK'
    BY <1>36, <1>a, <2>1, PathOps, FreeType DEF MoveOrphan, DiskOK, world
  <2>4. WorldOK'
    BY <1>36, <1>a DEF MoveOrphan, WorldOK, world, Fault, Spend
  <2> QED
    BY <1>36, <2>2, <2>3, <2>4 DEF MoveOrphan, JobsOK, RowsOK, RemoteOK, MemoryOK, world, store, queue, memory
<1>31. CASE Exit(t)
  <2>1. {th[t].path, th[t].orig} \subseteq Paths
    BY <1>31 DEF Exit, HoldsPaths
  <2>2. ThreadsOK'
    <3> DEFINE new == [Idle EXCEPT !.pc = "done", !.sub = th[t].sub]
    <3>1. new \in Locals
      BY <1>a DEF Idle, Locals, PCs, OptPaths
    <3>2. th' = [th EXCEPT ![t] = new]
      BY <1>31 DEF Exit
    <3> HIDE DEF new
    <3> QED
      BY <3>1, <3>2 DEF ThreadsOK
  <2>3. MemoryOK'
    BY <1>31, <1>a, <2>1 DEF Exit, MemoryOK, memory, queue
  <2> QED
    BY <1>31, <2>2, <2>3 DEF Exit, DiskOK, JobsOK, RowsOK, RemoteOK, WorldOK, world, store, queue, memory
<1>32. CASE Done(t)
  <2>1. ThreadsOK'
    BY <1>32, <1>a, StepNames DEF Done, ThreadsOK, Locals, OptPaths, PCs, Go, Idle
  <2>2. MemoryOK'
    BY <1>32, <1>a DEF Done, MemoryOK, memory, queue
  <2> QED
    BY <1>32, <2>1, <2>2 DEF Done, DiskOK, JobsOK, RowsOK, RemoteOK, WorldOK, world, store, queue, memory
<1> QED
  BY <1>1, <1>2, <1>3, <1>4, <1>5, <1>6, <1>7, <1>8, <1>9, <1>10, <1>11, <1>12, <1>13, <1>14, <1>15, <1>16, <1>17, <1>18, <1>19, <1>20, <1>21, <1>22, <1>23, <1>24, <1>25, <1>26, <1>27, <1>28, <1>29, <1>30, <1>31, <1>32, <1>33, <1>34, <1>35, <1>36 DEF Step

(* What a step of a thread does to what the others rely on: no job vanishes
   or loses a flag, nothing is unsaid, and every file stays, moves, or leaves
   a copy behind. *)
LEMMA Effects ==
    ASSUME IInv, NEW t \in Threads, Step(t)
    PROVE  StepEffects(t)
<1> USE DEF IInv, TypeOK, ThreadInv
<1>a. th \in [Threads -> Locals] /\ th[t] \in Locals
  BY DEF ThreadsOK
<1>1. CASE Ready(t)
  <2>1. {th[t].path, th[t].orig} \subseteq Paths
    BY <1>1 DEF Ready, HoldsPaths
  <2>2. JobsGrow
    BY <1>1 DEF Ready, JobsGrow, store
  <2>3. RemoteGrows
    BY <1>1 DEF Ready, RemoteGrows
  <2>4. DiskKeeps
    BY <1>1 DEF Ready, DiskKeeps
  <2>5. OthersSame(t)
    BY <1>1, <1>a DEF Ready, Go, OthersSame
  <2>6. UNCHANGED <<arrived, cmd>>
    BY <1>1 DEF Ready, world
  <2> QED
    BY <2>2, <2>3, <2>4, <2>5, <2>6 DEF StepEffects
<1>2. CASE MoveIn(t)
  <2>1. {th[t].path, th[t].orig} \subseteq Paths /\ th[t].key \in Keys
    BY <1>2 DEF MoveIn, HoldsPaths, HoldsKey
  <2>2. JobsGrow
    BY <1>2 DEF MoveIn, JobsGrow, store
  <2>3. RemoteGrows
    BY <1>2 DEF MoveIn, RemoteGrows
  <2>4. DiskKeeps
    BY <1>2, <2>1, MoveKeeps DEF MoveIn, DiskKeeps, DiskOK
  <2>5. OthersSame(t)
    BY <1>2, <1>a DEF MoveIn, Go, OthersSame
  <2>6. UNCHANGED <<arrived, cmd>>
    BY <1>2 DEF MoveIn, world
  <2> QED
    BY <2>2, <2>3, <2>4, <2>5, <2>6 DEF StepEffects
<1>3. CASE Reclaim(t)
  <2>1. {th[t].path, th[t].orig} \subseteq Paths /\ th[t].key \in Keys
    BY <1>3 DEF Reclaim, HoldsPaths, HoldsKey
  <2>2. JobsGrow
    BY <1>3 DEF Reclaim, JobsGrow, store
  <2>3. RemoteGrows
    BY <1>3 DEF Reclaim, RemoteGrows
  <2>4. DiskKeeps
    BY <1>3 DEF Reclaim, DiskKeeps
  <2>5. OthersSame(t)
    BY <1>3, <1>a DEF Reclaim, Go, OthersSame
  <2>6. UNCHANGED <<arrived, cmd>>
    BY <1>3 DEF Reclaim, world
  <2> QED
    BY <2>2, <2>3, <2>4, <2>5, <2>6 DEF StepEffects
<1>4. CASE Insert(t)
  <2>1. {th[t].path, th[t].orig} \subseteq Paths /\ th[t].key \in Keys
    BY <1>4 DEF Insert, HoldsPaths, HoldsKey
  <2>2. JobsGrow
    BY <1>4, <2>1 DEF Insert, JobsGrow, JobsOK, Jobs, NoJob, NewJob, store
  <2>3. RemoteGrows
    BY <1>4 DEF Insert, RemoteGrows
  <2>4. DiskKeeps
    BY <1>4 DEF Insert, DiskKeeps
  <2>5. OthersSame(t)
    BY <1>4, <1>a DEF Insert, Go, OthersSame
  <2>6. UNCHANGED <<arrived, cmd>>
    BY <1>4 DEF Insert, world
  <2> QED
    BY <2>2, <2>3, <2>4, <2>5, <2>6 DEF StepEffects
<1>5. CASE Resume(t)
  <2>1. JobsGrow
    BY <1>5 DEF Resume, JobsGrow, store
  <2>2. RemoteGrows
    BY <1>5 DEF Resume, RemoteGrows
  <2>3. DiskKeeps
    BY <1>5 DEF Resume, DiskKeeps
  <2>4. OthersSame(t)
    BY <1>5, <1>a DEF Resume, Go, OthersSame
  <2>5. UNCHANGED <<arrived, cmd>>
    BY <1>5 DEF Resume, world
  <2> QED
    BY <2>1, <2>2, <2>3, <2>4, <2>5 DEF StepEffects
<1>33. CASE Adopt(t)
  <2>1. {th[t].path, th[t].orig} \subseteq Paths /\ th[t].key \in Keys
    BY <1>33 DEF Adopt, HoldsPaths, HoldsKey
  <2>2. JobsGrow
    BY <1>33, <2>1 DEF Adopt, JobsGrow, JobsOK, Jobs, NoJob, NewJob, store
  <2>3. RemoteGrows
    BY <1>33 DEF Adopt, RemoteGrows
  <2>4. DiskKeeps
    BY <1>33 DEF Adopt, DiskKeeps
  <2>5. OthersSame(t)
    BY <1>33, <1>a DEF Adopt, Orphaned, Go, OthersSame
  <2>6. UNCHANGED <<arrived, cmd>>
    BY <1>33 DEF Adopt, world
  <2> QED
    BY <2>2, <2>3, <2>4, <2>5, <2>6 DEF StepEffects
<1>34. CASE Rebind(t)
  <2>1. th[t].pc \in JobPCs
    BY <1>34 DEF Rebind, JobPCs, Inside, PCs
  <2>2. {th[t].path, th[t].orig} \subseteq Paths /\ th[t].key \in Keys /\ jobs[th[t].key] \in Jobs
    BY <2>1, Held
  <2>3. JobsGrow
    BY <1>34, <2>2 DEF Rebind, JobsGrow, JobsOK, Jobs, NoJob, NewJob, store
  <2>4. RemoteGrows
    BY <1>34 DEF Rebind, RemoteGrows
  <2>5. DiskKeeps
    BY <1>34 DEF Rebind, DiskKeeps
  <2>6. OthersSame(t)
    BY <1>34, <1>a DEF Rebind, Orphaned, Go, OthersSame
  <2>7. UNCHANGED <<arrived, cmd>>
    BY <1>34 DEF Rebind, world
  <2> QED
    BY <2>3, <2>4, <2>5, <2>6, <2>7 DEF StepEffects
<1>6. CASE Reopen(t)
  <2>1. th[t].pc \in JobPCs
    BY <1>6 DEF Reopen, JobPCs, Inside, PCs
  <2>2. {th[t].path, th[t].orig} \subseteq Paths /\ th[t].key \in Keys /\ jobs[th[t].key] \in Jobs
    BY <2>1, Held
  <2>3. JobsGrow
    BY <1>6, <2>2 DEF Reopen, JobsGrow, JobsOK, Jobs, NoJob, NewJob, store
  <2>4. RemoteGrows
    BY <1>6 DEF Reopen, RemoteGrows
  <2>5. DiskKeeps
    BY <1>6 DEF Reopen, DiskKeeps
  <2>6. OthersSame(t)
    BY <1>6, <1>a DEF Reopen, Go, OthersSame
  <2>7. UNCHANGED <<arrived, cmd>>
    BY <1>6 DEF Reopen, world
  <2> QED
    BY <2>3, <2>4, <2>5, <2>6, <2>7 DEF StepEffects
<1>7. CASE Body(t)
  <2>1. JobsGrow
    BY <1>7 DEF Body, JobsGrow, store
  <2>2. RemoteGrows
    BY <1>7 DEF Body, RemoteGrows
  <2>3. DiskKeeps
    BY <1>7 DEF Body, DiskKeeps
  <2>4. OthersSame(t)
    BY <1>7, <1>a DEF Body, Go, OthersSame
  <2>5. UNCHANGED <<arrived, cmd>>
    BY <1>7 DEF Body, world
  <2> QED
    BY <2>1, <2>2, <2>3, <2>4, <2>5 DEF StepEffects
<1>35. CASE Gate(t)
  <2>1. JobsGrow
    BY <1>35 DEF Gate, JobsGrow, store
  <2>2. RemoteGrows
    BY <1>35 DEF Gate, RemoteGrows
  <2>3. DiskKeeps
    BY <1>35 DEF Gate, DiskKeeps
  <2>4. OthersSame(t)
    BY <1>35, <1>a DEF Gate, Go, OthersSame
  <2>5. UNCHANGED <<arrived, cmd>>
    BY <1>35 DEF Gate, world
  <2> QED
    BY <2>1, <2>2, <2>3, <2>4, <2>5 DEF StepEffects
<1>8. CASE RenameUtc(t)
  <2>1. th[t].pc \in JobPCs
    BY <1>8 DEF RenameUtc, JobPCs, Inside, PCs
  <2>2. {th[t].path, th[t].orig} \subseteq Paths /\ th[t].key \in Keys /\ jobs[th[t].key] \in Jobs
    BY <2>1, Held
  <2>3. JobsGrow
    BY <1>8 DEF RenameUtc, JobsGrow, store
  <2>4. RemoteGrows
    BY <1>8 DEF RenameUtc, RemoteGrows
  <2>5. DiskKeeps
    <3>1. CASE UNCHANGED disk
      BY <3>1 DEF DiskKeeps
    <3>2. CASE /\ th[t].path.name = "local"
               /\ disk' = (disk \ {th[t].path}) \cup {As(th[t].path, "utc")}
      BY <2>2, <3>2, MoveKeeps DEF DiskKeeps, DiskOK, Remuxed
    <3> QED
      BY <1>8, <3>1, <3>2 DEF RenameUtc
  <2>6. OthersSame(t)
    BY <1>8, <1>a DEF RenameUtc, Go, OthersSame
  <2>7. UNCHANGED <<arrived, cmd>>
    BY <1>8 DEF RenameUtc, world
  <2> QED
    BY <2>3, <2>4, <2>5, <2>6, <2>7 DEF StepEffects
<1>9. CASE RecordUtc(t)
  <2>1. th[t].pc \in JobPCs
    BY <1>9 DEF RecordUtc, JobPCs, Inside, PCs
  <2>2. {th[t].path, th[t].orig} \subseteq Paths /\ th[t].key \in Keys /\ jobs[th[t].key] \in Jobs
    BY <2>1, Held
  <2>3. JobsGrow
    BY <1>9, <2>2 DEF RecordUtc, JobsGrow, JobsOK, Jobs, NoJob, NewJob, store
  <2>4. RemoteGrows
    BY <1>9 DEF RecordUtc, RemoteGrows
  <2>5. DiskKeeps
    BY <1>9 DEF RecordUtc, DiskKeeps
  <2>6. OthersSame(t)
    BY <1>9, <1>a DEF RecordUtc, Go, OthersSame
  <2>7. UNCHANGED <<arrived, cmd>>
    BY <1>9 DEF RecordUtc, world
  <2> QED
    BY <2>3, <2>4, <2>5, <2>6, <2>7 DEF StepEffects
<1>10. CASE Remux(t)
  <2>1. th[t].pc \in JobPCs
    BY <1>10 DEF Remux, JobPCs, Inside, PCs
  <2>2. {th[t].path, th[t].orig} \subseteq Paths /\ th[t].key \in Keys /\ jobs[th[t].key] \in Jobs
    BY <2>1, Held
  <2>3. JobsGrow
    BY <1>10 DEF Remux, JobsGrow, store
  <2>4. RemoteGrows
    BY <1>10 DEF Remux, RemoteGrows
  <2>5. DiskKeeps
    BY <1>10, <2>2, MoveKeeps DEF Remux, DiskKeeps, DiskOK
  <2>6. OthersSame(t)
    BY <1>10, <1>a DEF Remux, Go, OthersSame
  <2>7. UNCHANGED <<arrived, cmd>>
    BY <1>10 DEF Remux, world
  <2> QED
    BY <2>3, <2>4, <2>5, <2>6, <2>7 DEF StepEffects
<1>11. CASE RecordRemux(t)
  <2>1. th[t].pc \in JobPCs
    BY <1>11 DEF RecordRemux, JobPCs, Inside, PCs
  <2>2. {th[t].path, th[t].orig} \subseteq Paths /\ th[t].key \in Keys /\ jobs[th[t].key] \in Jobs
    BY <2>1, Held
  <2>3. JobsGrow
    BY <1>11, <2>2 DEF RecordRemux, JobsGrow, JobsOK, Jobs, NoJob, NewJob, store
  <2>4. RemoteGrows
    BY <1>11 DEF RecordRemux, RemoteGrows
  <2>5. DiskKeeps
    BY <1>11 DEF RecordRemux, DiskKeeps
  <2>6. OthersSame(t)
    BY <1>11, <1>a DEF RecordRemux, Go, OthersSame
  <2>7. UNCHANGED <<arrived, cmd>>
    BY <1>11 DEF RecordRemux, world
  <2> QED
    BY <2>3, <2>4, <2>5, <2>6, <2>7 DEF StepEffects
<1>12. CASE RemoveSource(t)
  <2>1. th[t].pc \in JobPCs
    BY <1>12 DEF RemoveSource, JobPCs, Inside, PCs
  <2>2. {th[t].path, th[t].orig} \subseteq Paths /\ th[t].key \in Keys /\ jobs[th[t].key] \in Jobs
    BY <2>1, Held
  <2>3. JobsGrow
    BY <1>12 DEF RemoveSource, JobsGrow, store
  <2>4. RemoteGrows
    BY <1>12 DEF RemoveSource, RemoteGrows
  <2>5. DiskKeeps
    BY <1>12 DEF RemoveSource, DiskKeeps, HasCopy
  <2>6. OthersSame(t)
    BY <1>12, <1>a DEF RemoveSource, Go, OthersSame
  <2>7. UNCHANGED <<arrived, cmd>>
    BY <1>12 DEF RemoveSource, world
  <2> QED
    BY <2>3, <2>4, <2>5, <2>6, <2>7 DEF StepEffects
<1>13. CASE Preview(t)
  <2>1. th[t].pc \in JobPCs
    BY <1>13 DEF Preview, At, JobPCs, Inside, PCs
  <2>2. {th[t].path, th[t].orig} \subseteq Paths /\ th[t].key \in Keys /\ jobs[th[t].key] \in Jobs
    BY <2>1, Held
  <2>3. JobsGrow
    BY <1>13 DEF Preview, JobsGrow, store
  <2>4. RemoteGrows
    BY <1>13 DEF Preview, RemoteGrows
  <2>5. DiskKeeps
    BY <1>13 DEF Preview, DiskKeeps
  <2>6. OthersSame(t)
    BY <1>13, <1>a DEF Preview, At, Raise, Shielded, Go, OthersSame
  <2>7. UNCHANGED <<arrived, cmd>>
    BY <1>13 DEF Preview, world
  <2> QED
    BY <2>3, <2>4, <2>5, <2>6, <2>7 DEF StepEffects
<1>14. CASE MoveBad(t)
  <2>1. th[t].pc \in JobPCs
    BY <1>14 DEF MoveBad, JobPCs, Inside, PCs
  <2>2. {th[t].path, th[t].orig} \subseteq Paths /\ th[t].key \in Keys /\ jobs[th[t].key] \in Jobs
    BY <2>1, Held
  <2>3. JobsGrow
    BY <1>14 DEF MoveBad, JobsGrow, store
  <2>4. RemoteGrows
    BY <1>14 DEF MoveBad, RemoteGrows
  <2>5. DiskKeeps
    BY <1>14, <2>2, MoveKeeps DEF MoveBad, DiskKeeps, DiskOK
  <2>6. OthersSame(t)
    BY <1>14, <1>a DEF MoveBad, Go, OthersSame
  <2>7. UNCHANGED <<arrived, cmd>>
    BY <1>14 DEF MoveBad, world
  <2> QED
    BY <2>3, <2>4, <2>5, <2>6, <2>7 DEF StepEffects
<1>15. CASE RecordBad(t)
  <2>1. th[t].pc \in JobPCs
    BY <1>15 DEF RecordBad, JobPCs, Inside, PCs
  <2>2. {th[t].path, th[t].orig} \subseteq Paths /\ th[t].key \in Keys /\ jobs[th[t].key] \in Jobs
    BY <2>1, Held
  <2>3. JobsGrow
    BY <1>15, <2>2 DEF RecordBad, JobsGrow, JobsOK, Jobs, NoJob, NewJob, store
  <2>4. RemoteGrows
    BY <1>15 DEF RecordBad, RemoteGrows
  <2>5. DiskKeeps
    BY <1>15 DEF RecordBad, DiskKeeps
  <2>6. OthersSame(t)
    BY <1>15, <1>a DEF RecordBad, Go, OthersSame
  <2>7. UNCHANGED <<arrived, cmd>>
    BY <1>15 DEF RecordBad, world
  <2> QED
    BY <2>3, <2>4, <2>5, <2>6, <2>7 DEF StepEffects
<1>16. ASSUME NEW s \in {"original", "previewUp", "row"}, Call(t, s) PROVE StepEffects(t)
  <2>1. th[t].pc \in JobPCs
    BY <1>16 DEF Call, At, JobPCs, Inside, PCs
  <2>2. {th[t].path, th[t].orig} \subseteq Paths /\ th[t].key \in Keys /\ jobs[th[t].key] \in Jobs
    BY <2>1, Held
  <2>3. JobsGrow
    BY <1>16 DEF Call, JobsGrow, store
  <2>4. RemoteGrows
    BY <1>16, <2>2 DEF Call, Told, RemoteGrows, RemoteOK
  <2>5. DiskKeeps
    BY <1>16 DEF Call, DiskKeeps
  <2>6. OthersSame(t)
    BY <1>16, <1>a DEF Call, At, Go, OthersSame
  <2>7. UNCHANGED <<arrived, cmd>>
    BY <1>16 DEF Call, world
  <2> QED
    BY <2>3, <2>4, <2>5, <2>6, <2>7 DEF StepEffects
<1>17. ASSUME NEW s \in {"original", "previewUp", "row"}, CallRaises(t, s) PROVE StepEffects(t)
  <2>1. th[t].pc \in JobPCs
    BY <1>17 DEF CallRaises, At, JobPCs, Inside, PCs
  <2>2. {th[t].path, th[t].orig} \subseteq Paths /\ th[t].key \in Keys /\ jobs[th[t].key] \in Jobs
    BY <2>1, Held
  <2>3. JobsGrow
    BY <1>17 DEF CallRaises, JobsGrow, store
  <2>4. RemoteGrows
    BY <1>17 DEF CallRaises, RemoteGrows
  <2>5. DiskKeeps
    BY <1>17 DEF CallRaises, DiskKeeps
  <2>6. OthersSame(t)
    BY <1>17, <1>a DEF CallRaises, At, Go, OthersSame
  <2>7. UNCHANGED <<arrived, cmd>>
    BY <1>17 DEF CallRaises, world
  <2> QED
    BY <2>3, <2>4, <2>5, <2>6, <2>7 DEF StepEffects
<1>18. ASSUME NEW s \in RemoteSteps, Deferred(t, s) PROVE StepEffects(t)
  <2>1. th[t].pc \in JobPCs
    BY <1>18 DEF Deferred, At, JobPCs, Inside, PCs
  <2>2. {th[t].path, th[t].orig} \subseteq Paths /\ th[t].key \in Keys /\ jobs[th[t].key] \in Jobs
    BY <2>1, Held
  <2>3. JobsGrow
    BY <1>18 DEF Deferred, JobsGrow, store
  <2>4. RemoteGrows
    BY <1>18, <2>2 DEF Deferred, Told, RemoteGrows, RemoteOK
  <2>5. DiskKeeps
    BY <1>18 DEF Deferred, DiskKeeps
  <2>6. OthersSame(t)
    BY <1>18, <1>a DEF Deferred, At, Go, OthersSame
  <2>7. UNCHANGED <<arrived, cmd>>
    BY <1>18 DEF Deferred, world
  <2> QED
    BY <2>3, <2>4, <2>5, <2>6, <2>7 DEF StepEffects
<1>19. CASE Record(t)
  <2>1. th[t].pc \in JobPCs
    BY <1>19 DEF Record, JobPCs, Inside, PCs
  <2>2. {th[t].path, th[t].orig} \subseteq Paths /\ th[t].key \in Keys /\ jobs[th[t].key] \in Jobs
    BY <2>1, Held
  <2>3. JobsGrow
    BY <1>19, <2>2 DEF Record, JobsGrow, JobsOK, Jobs, NoJob, NewJob, store
  <2>4. RemoteGrows
    BY <1>19 DEF Record, RemoteGrows
  <2>5. DiskKeeps
    BY <1>19 DEF Record, DiskKeeps
  <2>6. OthersSame(t)
    BY <1>19, <1>a DEF Record, Go, OthersSame
  <2>7. UNCHANGED <<arrived, cmd>>
    BY <1>19 DEF Record, world
  <2> QED
    BY <2>3, <2>4, <2>5, <2>6, <2>7 DEF StepEffects
<1>20. CASE BookingMatched(t)
  <2>1. th[t].pc \in JobPCs
    BY <1>20 DEF BookingMatched, At, JobPCs, Inside, PCs
  <2>2. {th[t].path, th[t].orig} \subseteq Paths /\ th[t].key \in Keys /\ jobs[th[t].key] \in Jobs
    BY <2>1, Held
  <2>3. JobsGrow
    BY <1>20, <2>2 DEF BookingMatched, At, JobsGrow, JobsOK, Jobs, NoJob, NewJob, store
  <2>4. RemoteGrows
    BY <1>20, <2>2 DEF BookingMatched, Told, RemoteGrows, RemoteOK
  <2>5. DiskKeeps
    BY <1>20 DEF BookingMatched, DiskKeeps
  <2>6. OthersSame(t)
    BY <1>20, <1>a DEF BookingMatched, At, Go, OthersSame
  <2>7. UNCHANGED <<arrived, cmd>>
    BY <1>20 DEF BookingMatched, world
  <2> QED
    BY <2>3, <2>4, <2>5, <2>6, <2>7 DEF StepEffects
<1>21. CASE BookingUnmatched(t)
  <2>1. th[t].pc \in JobPCs
    BY <1>21 DEF BookingUnmatched, At, JobPCs, Inside, PCs
  <2>2. {th[t].path, th[t].orig} \subseteq Paths /\ th[t].key \in Keys /\ jobs[th[t].key] \in Jobs
    BY <2>1, Held
  <2>3. JobsGrow
    BY <1>21, <2>2 DEF BookingUnmatched, At, JobsGrow, JobsOK, Jobs, NoJob, NewJob, store
  <2>4. RemoteGrows
    BY <1>21 DEF BookingUnmatched, RemoteGrows
  <2>5. DiskKeeps
    BY <1>21 DEF BookingUnmatched, DiskKeeps
  <2>6. OthersSame(t)
    BY <1>21, <1>a DEF BookingUnmatched, At, Go, OthersSame
  <2>7. UNCHANGED <<arrived, cmd>>
    BY <1>21 DEF BookingUnmatched, world
  <2> QED
    BY <2>3, <2>4, <2>5, <2>6, <2>7 DEF StepEffects
<1>22. CASE BookingRaises(t)
  <2>1. th[t].pc \in JobPCs
    BY <1>22 DEF BookingRaises, At, JobPCs, Inside, PCs
  <2>2. {th[t].path, th[t].orig} \subseteq Paths /\ th[t].key \in Keys /\ jobs[th[t].key] \in Jobs
    BY <2>1, Held
  <2>3. JobsGrow
    BY <1>22 DEF BookingRaises, JobsGrow, store
  <2>4. RemoteGrows
    BY <1>22 DEF BookingRaises, RemoteGrows
  <2>5. DiskKeeps
    BY <1>22 DEF BookingRaises, DiskKeeps
  <2>6. OthersSame(t)
    BY <1>22, <1>a DEF BookingRaises, At, Go, OthersSame
  <2>7. UNCHANGED <<arrived, cmd>>
    BY <1>22 DEF BookingRaises, world
  <2> QED
    BY <2>3, <2>4, <2>5, <2>6, <2>7 DEF StepEffects
<1>23. CASE DeferJob(t)
  <2>1. th[t].pc \in JobPCs
    BY <1>23 DEF DeferJob, JobPCs, Inside, PCs
  <2>2. {th[t].path, th[t].orig} \subseteq Paths /\ th[t].key \in Keys /\ jobs[th[t].key] \in Jobs
    BY <2>1, Held
  <2>3. JobsGrow
    BY <1>23, <2>2 DEF DeferJob, JobsGrow, JobsOK, Jobs, NoJob, NewJob, store
  <2>4. RemoteGrows
    BY <1>23 DEF DeferJob, RemoteGrows
  <2>5. DiskKeeps
    BY <1>23 DEF DeferJob, DiskKeeps
  <2>6. OthersSame(t)
    BY <1>23, <1>a DEF DeferJob, Go, OthersSame
  <2>7. UNCHANGED <<arrived, cmd>>
    BY <1>23 DEF DeferJob, world
  <2> QED
    BY <2>3, <2>4, <2>5, <2>6, <2>7 DEF StepEffects
<1>24. CASE DeferRow(t)
  <2>1. th[t].pc \in JobPCs
    BY <1>24 DEF DeferRow, JobPCs, Inside, PCs
  <2>2. {th[t].path, th[t].orig} \subseteq Paths /\ th[t].key \in Keys /\ jobs[th[t].key] \in Jobs
    BY <2>1, Held
  <2>3. JobsGrow
    BY <1>24 DEF DeferRow, JobsGrow, store
  <2>4. RemoteGrows
    BY <1>24 DEF DeferRow, RemoteGrows
  <2>5. DiskKeeps
    BY <1>24 DEF DeferRow, DiskKeeps
  <2>6. OthersSame(t)
    BY <1>24, <1>a DEF DeferRow, Go, OthersSame
  <2>7. UNCHANGED <<arrived, cmd>>
    BY <1>24 DEF DeferRow, world
  <2> QED
    BY <2>3, <2>4, <2>5, <2>6, <2>7 DEF StepEffects
<1>25. CASE Finalize(t)
  <2>1. th[t].pc \in JobPCs
    BY <1>25 DEF Finalize, At, JobPCs, Inside, PCs
  <2>2. {th[t].path, th[t].orig} \subseteq Paths /\ th[t].key \in Keys /\ jobs[th[t].key] \in Jobs
    BY <2>1, Held
  <2>3. JobsGrow
    BY <1>25, <2>2 DEF Finalize, At, JobsGrow, JobsOK, Jobs, NoJob, NewJob, store
  <2>4. RemoteGrows
    BY <1>25 DEF Finalize, RemoteGrows
  <2>5. DiskKeeps
    BY <1>25, <2>2, MoveKeeps DEF Finalize, At, DiskKeeps, DiskOK
  <2>6. OthersSame(t)
    BY <1>25, <1>a DEF Finalize, At, Go, OthersSame
  <2>7. UNCHANGED <<arrived, cmd>>
    BY <1>25 DEF Finalize, world
  <2> QED
    BY <2>3, <2>4, <2>5, <2>6, <2>7 DEF StepEffects
<1>26. CASE RecordFinal(t)
  <2>1. th[t].pc \in JobPCs
    BY <1>26 DEF RecordFinal, JobPCs, Inside, PCs
  <2>2. {th[t].path, th[t].orig} \subseteq Paths /\ th[t].key \in Keys /\ jobs[th[t].key] \in Jobs
    BY <2>1, Held
  <2>3. JobsGrow
    BY <1>26, <2>2 DEF RecordFinal, JobsGrow, JobsOK, Jobs, NoJob, NewJob, store
  <2>4. RemoteGrows
    BY <1>26 DEF RecordFinal, RemoteGrows
  <2>5. DiskKeeps
    BY <1>26 DEF RecordFinal, DiskKeeps
  <2>6. OthersSame(t)
    BY <1>26, <1>a DEF RecordFinal, Go, OthersSame
  <2>7. UNCHANGED <<arrived, cmd>>
    BY <1>26 DEF RecordFinal, world
  <2> QED
    BY <2>3, <2>4, <2>5, <2>6, <2>7 DEF StepEffects
<1>27. CASE DeleteRow(t)
  <2>1. th[t].pc \in JobPCs
    BY <1>27 DEF DeleteRow, JobPCs, Inside, PCs
  <2>2. {th[t].path, th[t].orig} \subseteq Paths /\ th[t].key \in Keys /\ jobs[th[t].key] \in Jobs
    BY <2>1, Held
  <2>3. JobsGrow
    BY <1>27 DEF DeleteRow, JobsGrow, store
  <2>4. RemoteGrows
    BY <1>27 DEF DeleteRow, RemoteGrows
  <2>5. DiskKeeps
    BY <1>27 DEF DeleteRow, DiskKeeps
  <2>6. OthersSame(t)
    BY <1>27, <1>a DEF DeleteRow, Go, OthersSame
  <2>7. UNCHANGED <<arrived, cmd>>
    BY <1>27 DEF DeleteRow, world
  <2> QED
    BY <2>3, <2>4, <2>5, <2>6, <2>7 DEF StepEffects
<1>28. CASE NothingLeft(t)
  <2>1. th[t].pc \in JobPCs
    BY <1>28 DEF NothingLeft, JobPCs, Inside, PCs
  <2>2. {th[t].path, th[t].orig} \subseteq Paths /\ th[t].key \in Keys /\ jobs[th[t].key] \in Jobs
    BY <2>1, Held
  <2>3. JobsGrow
    BY <1>28 DEF NothingLeft, JobsGrow, store
  <2>4. RemoteGrows
    BY <1>28 DEF NothingLeft, RemoteGrows
  <2>5. DiskKeeps
    BY <1>28 DEF NothingLeft, DiskKeeps
  <2>6. OthersSame(t)
    BY <1>28, <1>a DEF NothingLeft, Go, OthersSame
  <2>7. UNCHANGED <<arrived, cmd>>
    BY <1>28 DEF NothingLeft, world
  <2> QED
    BY <2>3, <2>4, <2>5, <2>6, <2>7 DEF StepEffects
<1>29. CASE MoveFailed(t)
  <2>1. th[t].pc \in JobPCs
    BY <1>29 DEF MoveFailed, JobPCs, Inside, PCs
  <2>2. {th[t].path, th[t].orig} \subseteq Paths /\ th[t].key \in Keys /\ jobs[th[t].key] \in Jobs
    BY <2>1, Held
  <2>3. JobsGrow
    BY <1>29 DEF MoveFailed, JobsGrow, store
  <2>4. RemoteGrows
    BY <1>29 DEF MoveFailed, RemoteGrows
  <2>5. DiskKeeps
    BY <1>29, <2>2, MoveKeeps DEF MoveFailed, DiskKeeps, DiskOK
  <2>6. OthersSame(t)
    BY <1>29, <1>a DEF MoveFailed, Go, OthersSame
  <2>7. UNCHANGED <<arrived, cmd>>
    BY <1>29 DEF MoveFailed, world
  <2> QED
    BY <2>3, <2>4, <2>5, <2>6, <2>7 DEF StepEffects
<1>30. CASE RecordFailed(t)
  <2>1. th[t].pc \in JobPCs
    BY <1>30 DEF RecordFailed, JobPCs, Inside, PCs
  <2>2. {th[t].path, th[t].orig} \subseteq Paths /\ th[t].key \in Keys /\ jobs[th[t].key] \in Jobs
    BY <2>1, Held
  <2>3. JobsGrow
    BY <1>30, <2>2 DEF RecordFailed, JobsGrow, JobsOK, Jobs, NoJob, NewJob, store
  <2>4. RemoteGrows
    BY <1>30 DEF RecordFailed, RemoteGrows
  <2>5. DiskKeeps
    BY <1>30 DEF RecordFailed, DiskKeeps
  <2>6. OthersSame(t)
    BY <1>30, <1>a DEF RecordFailed, Go, OthersSame
  <2>7. UNCHANGED <<arrived, cmd>>
    BY <1>30 DEF RecordFailed, world
  <2> QED
    BY <2>3, <2>4, <2>5, <2>6, <2>7 DEF StepEffects
<1>36. CASE MoveOrphan(t)
  <2>1. {th[t].path, th[t].orig} \subseteq Paths
    BY <1>36 DEF MoveOrphan, HoldsPaths
  <2>2. JobsGrow
    BY <1>36 DEF MoveOrphan, JobsGrow, store
  <2>3. RemoteGrows
    BY <1>36 DEF MoveOrphan, RemoteGrows
  <2>4. DiskKeeps
    BY <1>36, <2>1, MoveKeeps DEF MoveOrphan, DiskKeeps, DiskOK
  <2>5. OthersSame(t)
    BY <1>36, <1>a DEF MoveOrphan, Go, OthersSame
  <2>6. UNCHANGED <<arrived, cmd>>
    BY <1>36 DEF MoveOrphan, world
  <2> QED
    BY <2>2, <2>3, <2>4, <2>5, <2>6 DEF StepEffects
<1>31. CASE Exit(t)
  <2>1. {th[t].path, th[t].orig} \subseteq Paths
    BY <1>31 DEF Exit, HoldsPaths
  <2>2. JobsGrow
    BY <1>31 DEF Exit, JobsGrow, store
  <2>3. RemoteGrows
    BY <1>31 DEF Exit, RemoteGrows
  <2>4. DiskKeeps
    BY <1>31 DEF Exit, DiskKeeps
  <2>5. OthersSame(t)
    BY <1>31, <1>a DEF Exit, Go, OthersSame
  <2>6. UNCHANGED <<arrived, cmd>>
    BY <1>31 DEF Exit, world
  <2> QED
    BY <2>2, <2>3, <2>4, <2>5, <2>6 DEF StepEffects
<1>32. CASE Done(t)
  <2>1. JobsGrow
    BY <1>32 DEF Done, JobsGrow, store
  <2>2. RemoteGrows
    BY <1>32 DEF Done, RemoteGrows
  <2>3. DiskKeeps
    BY <1>32 DEF Done, DiskKeeps
  <2>4. OthersSame(t)
    BY <1>32, <1>a DEF Done, Go, OthersSame
  <2>5. UNCHANGED <<arrived, cmd>>
    BY <1>32 DEF Done, world
  <2> QED
    BY <2>1, <2>2, <2>3, <2>4, <2>5 DEF StepEffects
<1> QED
  BY <1>1, <1>2, <1>3, <1>4, <1>5, <1>6, <1>7, <1>8, <1>9, <1>10, <1>11, <1>12, <1>13, <1>14, <1>15, <1>16, <1>17, <1>18, <1>19, <1>20, <1>21, <1>22, <1>23, <1>24, <1>25, <1>26, <1>27, <1>28, <1>29, <1>30, <1>31, <1>32, <1>33, <1>34, <1>35, <1>36 DEF Step

(* The job that ensure_job_for_processing_file finds exists. *)
LEMMA ResumeFinds ==
    ASSUME IInv, NEW t \in Threads, Resume(t)
    PROVE  /\ SamePaths(t) /\ th'[t].pc \in {"exit", "reopen", "body", "adopt", "rebind"}
           /\ th'[t].pc # "exit" => th'[t].key \in Keys
           /\ th'[t].pc \in {"reopen", "body", "rebind"} => jobs[th'[t].key].status # "none"
<1>1. th \in [Threads -> Locals] /\ th[t] \in Locals /\ th[t].path \in Paths
  BY DEF IInv, TypeOK, ThreadsOK, ThreadInv, HoldsPaths, Resume
<1>2. jobs \in [Keys -> {NoJob} \cup Jobs] /\ None \notin Paths
  BY PipelineAssumption DEF IInv, TypeOK, JobsOK
<1> DEFINE p == th[t].path
           key == KeyOf(p)
           status == jobs[key].status
           pc == CASE status = "none"      -> "adopt"
                   [] status = "completed" -> "exit"
                   [] OTHER                 -> "rebind"
<1>3. CASE \E j \in Keys : /\ jobs[j].path = p
                           /\ th' = [th EXCEPT ![t].key = j, ![t].pc = AfterEnsure(jobs[j].status)]
  <2>1. PICK j \in Keys : /\ jobs[j].path = p
                          /\ th' = [th EXCEPT ![t].key = j, ![t].pc = AfterEnsure(jobs[j].status)]
    BY <1>3
  <2>2. jobs[j].status # "none"
    BY <1>1, <1>2, <2>1 DEF NoJob, Jobs
  <2>3. th'[t] = [th[t] EXCEPT !.key = j, !.pc = AfterEnsure(jobs[j].status)]
    BY <1>1, <2>1
  <2> QED
    BY <1>1, <2>2, <2>3, EnsurePC DEF SamePaths, Locals
<1>4. CASE Go(t, "exit")
  BY <1>1, <1>4 DEF Go, SamePaths, Locals
<1>5. CASE th' = [th EXCEPT ![t].key = key, ![t].pc = pc]
  <2>1. key \in Keys
    BY <1>1, PathOps
  <2>2. pc \in {"adopt", "exit", "rebind"} /\ (pc = "rebind" => status # "none")
    OBVIOUS
  <2> HIDE DEF pc, key
  <2>3. th'[t] = [th[t] EXCEPT !.key = key, !.pc = pc]
    BY <1>1, <1>5
  <2> QED
    BY <1>1, <2>1, <2>2, <2>3 DEF SamePaths, Locals
<1> QED
  BY <1>3, <1>4, <1>5 DEF Resume

(* One job is replaced by one whose flags are backed. *)
LEMMA JobReplaced ==
    ASSUME IInv, BackedGrows, NEW k \in Keys, NEW new,
           jobs' = [jobs EXCEPT ![k] = new],
           new.flags \cap Published \subseteq backed[k],
           new.status = "completed" => Published \subseteq backed[k]
    PROVE  FlagsAreBacked' /\ CompletedIsBacked'
<1>1. \A j \in Keys : jobs'[j] = IF j = k THEN new ELSE jobs[j]
  BY DEF IInv, TypeOK, JobsOK
<1> QED
  BY <1>1 DEF IInv, FlagsAreBacked, CompletedIsBacked, BackedGrows

(* A thread that does not step keeps its part of the invariant. *)
LEMMA OthersKeep ==
    ASSUME IInv, NEW u \in Threads, th'[u] = th[u], JobsGrow, RemoteGrows, DiskKeeps
    PROVE  ThreadInv(u)'
<1>1. ThreadInv(u) /\ th'[u] = th[u] /\ JobsGrow /\ RemoteGrows /\ DiskKeeps
  BY DEF IInv
<1>2. HoldsPaths(u)'
  BY <1>1 DEF ThreadInv, HoldsPaths
<1>3. HoldsKey(u)'
  BY <1>1 DEF ThreadInv, HoldsKey, JobsGrow, JobPCs, Inside
<1>4. HasCopy(u)'
  BY <1>1 DEF ThreadInv, HasCopy, DiskKeeps
<1>5. HoldsFlags(u)'
  <2>1. th[u].pc \in JobPCs => th[u].key \in Keys
    BY <1>1 DEF ThreadInv, HoldsKey
  <2>2. th[u].pc \in {"record", "final_rec"} => th[u].pc \in JobPCs
    BY DEF JobPCs, Inside, PCs
  <2>3. BackedGrows
    BY <1>1, BackingGrows
  <2> QED
    BY <1>1, <2>1, <2>2, <2>3 DEF ThreadInv, HoldsFlags, BackedGrows
<1> QED
  BY <1>2, <1>3, <1>4, <1>5 DEF ThreadInv

(* The thread itself keeps its part of the invariant. *)
LEMMA ThreadKeeps ==
    ASSUME IInv, NEW t \in Threads, Step(t)
    PROVE  ThreadInv(t)'
<1>a. th \in [Threads -> Locals] /\ th[t] \in Locals
  BY DEF IInv, TypeOK, ThreadsOK
<1>b. HoldsPaths(t) /\ HoldsKey(t) /\ HasCopy(t) /\ HoldsFlags(t)
  BY DEF IInv, ThreadInv
<1>e. JobsGrow /\ BackedGrows
  BY Effects, BackingGrows DEF StepEffects
<1>f. FlagsAreBacked
  BY DEF IInv
<1>j. jobs \in [Keys -> {NoJob} \cup Jobs]
  BY DEF IInv, TypeOK, JobsOK
<1>1. CASE Ready(t)
  <2>1. {th[t].path, th[t].orig} \subseteq Paths
    BY <1>1, <1>b DEF Ready, HoldsPaths
  <2>2. /\ SamePaths(t) /\ th'[t].pc \in {"exit", "move"}
        /\ th'[t].pc = "move" => th'[t].key = KeyOf(th[t].path)
    BY <1>1, <1>a, <2>1 DEF Ready, Go, Locals, SamePaths, SameJob
  <2>3. HoldsPaths(t)'
    BY <2>2, <2>1, PathOps, FreeType DEF HoldsPaths, SamePaths
  <2>4. HoldsKey(t)'
    BY <2>2, <2>1, <1>b, <1>e, PathOps DEF HoldsKey, SameJob, JobsGrow, JobPCs, Inside, PCs
  <2>5. HasCopy(t)'
    BY <2>2, <2>1 DEF HasCopy
  <2>6. HoldsFlags(t)'
    BY <1>1, <2>2, <2>1, <1>b, <1>e DEF Ready, HoldsFlags, SameJob, BackedGrows, JobPCs, Inside, PCs, Published, store
  <2> QED
    BY <2>3, <2>4, <2>5, <2>6 DEF ThreadInv
<1>2. CASE MoveIn(t)
  <2>1. {th[t].path, th[t].orig} \subseteq Paths /\ th[t].key \in Keys
    BY <1>2, <1>b DEF MoveIn, HoldsPaths, HoldsKey
  <2>2. /\ th'[t].orig = th[t].orig /\ th'[t].key = th[t].key /\ th'[t].pc \in {"reclaim", "exit"}
        /\ th'[t].path \in {th[t].path, In(th[t].path, "processing")}
    BY <1>2, <1>a, <2>1 DEF MoveIn, Go, Locals, SamePaths, SameJob
  <2>3. HoldsPaths(t)'
    BY <2>2, <2>1, PathOps, FreeType DEF HoldsPaths, SamePaths
  <2>4. HoldsKey(t)'
    BY <2>2, <2>1, <1>b, <1>e, PathOps DEF HoldsKey, SameJob, JobsGrow, JobPCs, Inside, PCs
  <2>5. HasCopy(t)'
    BY <2>2, <2>1 DEF HasCopy
  <2>6. HoldsFlags(t)'
    BY <1>2, <2>2, <2>1, <1>b, <1>e DEF MoveIn, HoldsFlags, SameJob, BackedGrows, JobPCs, Inside, PCs, Published, store
  <2> QED
    BY <2>3, <2>4, <2>5, <2>6 DEF ThreadInv
<1>3. CASE Reclaim(t)
  <2>1. {th[t].path, th[t].orig} \subseteq Paths /\ th[t].key \in Keys
    BY <1>3, <1>b DEF Reclaim, HoldsPaths, HoldsKey
  <2>2. /\ th'[t].path = th[t].path /\ th'[t].key = th[t].key /\ th'[t].pc \in {"insert", "exit"}
        /\ th'[t].orig \in {th[t].path, th[t].orig}
    BY <1>3, <1>a, <2>1 DEF Reclaim, Go, Locals, SamePaths, SameJob
  <2>3. HoldsPaths(t)'
    BY <2>2, <2>1, PathOps, FreeType DEF HoldsPaths, SamePaths
  <2>4. HoldsKey(t)'
    BY <2>2, <2>1, <1>b, <1>e, PathOps DEF HoldsKey, SameJob, JobsGrow, JobPCs, Inside, PCs
  <2>5. HasCopy(t)'
    BY <2>2, <2>1 DEF HasCopy
  <2>6. HoldsFlags(t)'
    BY <1>3, <2>2, <2>1, <1>b, <1>e DEF Reclaim, HoldsFlags, SameJob, BackedGrows, JobPCs, Inside, PCs, Published, store
  <2> QED
    BY <2>3, <2>4, <2>5, <2>6 DEF ThreadInv
<1>4. CASE Insert(t)
  <2>1. {th[t].path, th[t].orig} \subseteq Paths /\ th[t].key \in Keys
    BY <1>4, <1>b DEF Insert, HoldsPaths, HoldsKey
  <2>2. /\ SamePaths(t) /\ th'[t].key = th[t].key /\ th'[t].pc \in {"body", "exit"}
    BY <1>4, <1>a, <2>1 DEF Insert, Go, Locals, SamePaths, SameJob, NewJob, NoJob
  <2>3. HoldsPaths(t)'
    BY <2>2, <2>1, PathOps, FreeType DEF HoldsPaths, SamePaths
  <2>4. th'[t].pc = "body" => jobs'[th[t].key].status # "none"
    <3>1. CASE jobs' = [jobs EXCEPT ![th[t].key] = NewJob(th[t].path)]
      BY <1>j, <2>1, <3>1, NewJobType
    <3>2. CASE Go(t, "exit")
      BY <1>a, <3>2 DEF Go, Locals
    <3> QED
      BY <1>4, <3>1, <3>2 DEF Insert
  <2>5. HoldsKey(t)'
    BY <2>2, <2>1, <2>4, <1>b, <1>e, PathOps DEF HoldsKey, SameJob, JobsGrow, JobPCs, Inside, PCs
  <2>6. HasCopy(t)'
    BY <2>2, <2>1, <2>4 DEF HasCopy
  <2>7. HoldsFlags(t)'
    BY <1>4, <2>2, <2>1, <2>4, <1>b, <1>e DEF Insert, HoldsFlags, SameJob, BackedGrows, JobPCs, Inside, PCs, Published, store
  <2> QED
    BY <2>3, <2>5, <2>6, <2>7 DEF ThreadInv
<1>5. CASE Resume(t)
  <2>1. {th[t].path, th[t].orig} \subseteq Paths
    BY <1>5, <1>b DEF Resume, HoldsPaths
  <2>2. /\ SamePaths(t) /\ th'[t].pc \in {"exit", "reopen", "body", "adopt", "rebind"}
        /\ th'[t].pc # "exit" => th'[t].key \in Keys
        /\ th'[t].pc \in {"reopen", "body", "rebind"} => jobs'[th'[t].key].status # "none"
    BY <1>5, ResumeFinds DEF Resume, store
  <2>3. HoldsPaths(t)'
    BY <2>1, <2>2 DEF HoldsPaths, SamePaths
  <2>4. HoldsKey(t)'
    BY <2>2 DEF HoldsKey, JobPCs, Inside, PCs
  <2>5. HasCopy(t)'
    BY <2>2 DEF HasCopy
  <2>6. HoldsFlags(t)'
    BY <2>2 DEF HoldsFlags, JobPCs, Inside, PCs
  <2> QED
    BY <2>3, <2>4, <2>5, <2>6 DEF ThreadInv
<1>33. CASE Adopt(t)
  <2>1. {th[t].path, th[t].orig} \subseteq Paths /\ th[t].key \in Keys
    BY <1>33, <1>b DEF Adopt, HoldsPaths, HoldsKey
  <2>2. /\ SamePaths(t) /\ th'[t].pc \in {"body", "exit", "rebind", "orphan"}
        /\ th'[t].pc \in {"body", "rebind"} => th'[t].key = th[t].key
    BY <1>33, <1>a, <2>1 DEF Adopt, Orphaned, Go, Locals, SamePaths
  <2>3. HoldsPaths(t)'
    BY <2>2, <2>1 DEF HoldsPaths, SamePaths
  <2>4. th'[t].pc \in {"body", "rebind"} => jobs'[th[t].key].status # "none"
    <3>1. CASE jobs' = [jobs EXCEPT ![th[t].key] = NewJob(th[t].path)]
      BY <1>j, <2>1, <3>1, NewJobType
    <3>2. CASE Orphaned(t)
      BY <1>a, <3>2 DEF Orphaned, Locals
    <3>3. CASE jobs[th[t].key].status # "none"
      BY <1>e, <2>1, <3>3 DEF JobsGrow
    <3> QED
      BY <1>33, <3>1, <3>2, <3>3 DEF Adopt
  <2>5. HoldsKey(t)'
    BY <2>2, <2>1, <2>4 DEF HoldsKey, JobPCs, Inside, PCs
  <2>6. HasCopy(t)'
    BY <2>2 DEF HasCopy
  <2>7. HoldsFlags(t)'
    BY <2>2 DEF HoldsFlags, JobPCs, Inside, PCs
  <2> QED
    BY <2>3, <2>5, <2>6, <2>7 DEF ThreadInv
<1>34. CASE Rebind(t)
  <2>1. th[t].pc \in JobPCs
    BY <1>34 DEF Rebind, JobPCs, Inside, PCs
  <2>2. {th[t].path, th[t].orig} \subseteq Paths /\ th[t].key \in Keys /\ jobs[th[t].key] \in Jobs
    BY <2>1, Held
  <2>3. /\ SamePaths(t) /\ th'[t].pc \in {"exit", "reopen", "body", "orphan"}
        /\ th'[t].pc \in {"reopen", "body"} => th'[t].key = th[t].key
    BY <1>34, <1>a, EnsurePC DEF Rebind, Orphaned, Go, Locals, SamePaths
  <2>4. jobs'[th[t].key].status # "none"
    BY <1>e, <2>2 DEF JobsGrow, Jobs
  <2>5. HoldsPaths(t)'
    BY <2>2, <2>3 DEF HoldsPaths, SamePaths
  <2>6. HoldsKey(t)'
    BY <2>2, <2>3, <2>4 DEF HoldsKey, JobPCs, Inside, PCs
  <2>7. HasCopy(t)'
    BY <2>3 DEF HasCopy
  <2>8. HoldsFlags(t)'
    BY <2>3 DEF HoldsFlags, JobPCs, Inside, PCs
  <2> QED
    BY <2>5, <2>6, <2>7, <2>8 DEF ThreadInv
<1>6. CASE Reopen(t)
  <2>1. th[t].pc \in JobPCs
    BY <1>6 DEF Reopen, JobPCs, Inside, PCs
  <2>2. {th[t].path, th[t].orig} \subseteq Paths /\ th[t].key \in Keys /\ jobs[th[t].key] \in Jobs
    BY <2>1, Held
  <2>3. HoldsPaths(t)'
    BY <1>6, <1>a, <1>b, <2>2, PathOps DEF Reopen, Go, Idle, HoldsPaths
  <2>4. HoldsKey(t)'
    BY <1>6, <1>a, <1>b, <2>2, <1>e, PathOps DEF Reopen, Go, Idle, HoldsKey, JobPCs, Inside, PCs, JobsGrow, NewJob, NoJob
  <2>5. HasCopy(t)'
    BY <1>6, <1>a, <1>b, <2>2 DEF Reopen, Go, Idle, HasCopy
  <2>6. HoldsFlags(t)'
    BY <1>6, <1>a, <1>b, <2>2, <1>e, <1>j DEF Reopen, Go, Idle, HoldsFlags, HoldsKey, JobPCs, Inside, PCs, BackedGrows, Published, Jobs
  <2> QED
    BY <2>3, <2>4, <2>5, <2>6 DEF ThreadInv
<1>7. CASE Body(t)
  <2>1. th[t].pc \in JobPCs
    BY <1>7 DEF Body, JobPCs, Inside, PCs
  <2>2. {th[t].path, th[t].orig} \subseteq Paths /\ th[t].key \in Keys /\ jobs[th[t].key] \in Jobs
    BY <2>1, Held
  <2>3. /\ SamePaths(t) /\ th'[t].key = th[t].key /\ th'[t].flags = jobs[th[t].key].flags
        /\ th'[t].pc = "gate" /\ th'[t].src = jobs[th[t].key].path
    BY <1>7, <1>a DEF Body, Locals, SamePaths
  <2>4. HoldsPaths(t)'
    BY <2>3, <2>2 DEF HoldsPaths, SamePaths, Jobs
  <2>5. HoldsKey(t)'
    BY <2>3, <2>2, <1>e DEF HoldsKey, JobsGrow, JobPCs, Inside, PCs, Jobs
  <2>6. HasCopy(t)'
    BY <2>3 DEF HasCopy
  <2>7. HoldsFlags(t)'
    BY <2>3, <2>2, <1>e, <1>f DEF FlagsAreBacked, HoldsFlags, BackedGrows, JobPCs, Inside, PCs, Published
  <2> QED
    BY <2>4, <2>5, <2>6, <2>7 DEF ThreadInv
<1>35. CASE Gate(t)
  <2>1. th[t].pc \in JobPCs
    BY <1>35 DEF Gate, JobPCs, Inside, PCs
  <2>2. {th[t].path, th[t].orig, th[t].src} \subseteq Paths /\ th[t].key \in Keys
        /\ jobs[th[t].key] \in Jobs
    BY <1>35, <1>b, <2>1, Held DEF Gate, HoldsPaths
  <2>3. /\ th'[t].orig = th[t].orig /\ SameJob(t)
        /\ th'[t].pc \in {"utc", "remux", "exit"} /\ th'[t].path \in {th[t].path, th[t].src}
    BY <1>35, <1>a DEF Gate, Locals, SameJob
  <2>4. HoldsPaths(t)'
    BY <2>3, <2>2 DEF HoldsPaths
  <2>5. HoldsKey(t)'
    BY <2>3, <2>2, <1>e DEF HoldsKey, SameJob, JobsGrow, JobPCs, Inside, PCs, Jobs
  <2>6. HasCopy(t)'
    BY <2>3 DEF HasCopy
  <2>7. th[t].flags \cap Published \subseteq backed[th[t].key]
    BY <1>35, <1>b DEF Gate, HoldsFlags, JobPCs, Inside, PCs
  <2>8. HoldsFlags(t)'
    BY <2>3, <2>2, <2>7, <1>e DEF HoldsFlags, SameJob, BackedGrows, JobPCs, Inside, PCs, Published
  <2> QED
    BY <2>4, <2>5, <2>6, <2>8 DEF ThreadInv
<1>8. CASE RenameUtc(t)
  <2>1. th[t].pc \in JobPCs
    BY <1>8 DEF RenameUtc, JobPCs, Inside, PCs
  <2>2. {th[t].path, th[t].orig} \subseteq Paths /\ th[t].key \in Keys /\ jobs[th[t].key] \in Jobs
    BY <2>1, Held
  <2>3. /\ th'[t].orig = th[t].orig /\ SameJob(t) /\ th'[t].pc \in {"utc_rec", "exit", "fail"}
        /\ th'[t].path \in {th[t].path, As(th[t].path, "utc")}
    BY <1>8, <1>a, <2>2 DEF RenameUtc, Go, Locals, SamePaths, SameJob
  <2>4. HoldsPaths(t)'
    BY <2>3, <2>2, PathOps, FreeType DEF HoldsPaths, SamePaths
  <2>5. HoldsKey(t)'
    BY <2>3, <2>2, <1>b, <1>e, PathOps DEF HoldsKey, SameJob, JobsGrow, JobPCs, Inside, PCs, Jobs
  <2>6. HasCopy(t)'
    BY <2>3, <2>2 DEF HasCopy
  <2>7. HoldsFlags(t)'
    BY <1>8, <2>3, <2>2, <1>b, <1>e DEF RenameUtc, HoldsFlags, SameJob, BackedGrows, JobPCs, Inside, PCs, Published, store
  <2> QED
    BY <2>4, <2>5, <2>6, <2>7 DEF ThreadInv
<1>9. CASE RecordUtc(t)
  <2>1. th[t].pc \in JobPCs
    BY <1>9 DEF RecordUtc, JobPCs, Inside, PCs
  <2>2. {th[t].path, th[t].orig} \subseteq Paths /\ th[t].key \in Keys /\ jobs[th[t].key] \in Jobs
    BY <2>1, Held
  <2>3. /\ SamePaths(t) /\ th'[t].key = th[t].key /\ th'[t].pc \in {"remux", "fail"}
        /\ th'[t].flags \in {th[t].flags, th[t].flags \cup {"renamed"}}
    BY <1>9, <1>a, <2>2 DEF RecordUtc, Go, Locals, SamePaths, SameJob
  <2>4. HoldsPaths(t)'
    BY <2>3, <2>2, PathOps, FreeType DEF HoldsPaths, SamePaths
  <2>5. HoldsKey(t)'
    BY <2>3, <2>2, <1>b, <1>e, PathOps DEF HoldsKey, SameJob, JobsGrow, JobPCs, Inside, PCs, Jobs
  <2>6. HasCopy(t)'
    BY <2>3, <2>2 DEF HasCopy
  <2>7. HoldsFlags(t)'
    BY <1>9, <2>3, <2>2, <1>b, <1>e DEF RecordUtc, HoldsFlags, SameJob, BackedGrows, JobPCs, Inside, PCs, Published, store
  <2> QED
    BY <2>4, <2>5, <2>6, <2>7 DEF ThreadInv
<1>10. CASE Remux(t)
  <2>1. th[t].pc \in JobPCs
    BY <1>10 DEF Remux, JobPCs, Inside, PCs
  <2>2. {th[t].path, th[t].orig} \subseteq Paths /\ th[t].key \in Keys /\ jobs[th[t].key] \in Jobs
    BY <2>1, Held
  <2>3. /\ th'[t].orig = th[t].orig /\ SameJob(t) /\ th'[t].pc \in {"work", "remux_rec", "fail"}
        /\ th'[t].path \in {th[t].path, Free(As(th[t].path, "mp4"), disk)}
        /\ th'[t].pc = "remux_rec" => /\ th'[t].src = th[t].path /\ th[t].path.name \notin Remuxed
                                       /\ Free(As(th[t].path, "mp4"), disk) \in disk'
    BY <1>10, <1>a, <2>2 DEF Remux, Go, Locals, SamePaths, SameJob
  <2>4. HoldsPaths(t)'
    BY <2>3, <2>2, PathOps, FreeType DEF HoldsPaths, SamePaths
  <2>5. HoldsKey(t)'
    BY <2>3, <2>2, <1>b, <1>e, PathOps DEF HoldsKey, SameJob, JobsGrow, JobPCs, Inside, PCs, Jobs
  <2>6. HasCopy(t)'
    BY <2>3, <2>2, MoveKeeps DEF HasCopy
  <2>7. HoldsFlags(t)'
    BY <1>10, <2>3, <2>2, <1>b, <1>e DEF Remux, HoldsFlags, SameJob, BackedGrows, JobPCs, Inside, PCs, Published, store
  <2> QED
    BY <2>4, <2>5, <2>6, <2>7 DEF ThreadInv
<1>11. CASE RecordRemux(t)
  <2>1. th[t].pc \in JobPCs
    BY <1>11 DEF RecordRemux, JobPCs, Inside, PCs
  <2>2. {th[t].path, th[t].orig} \subseteq Paths /\ th[t].key \in Keys /\ jobs[th[t].key] \in Jobs
    BY <2>1, Held
  <2>3. /\ SamePaths(t) /\ SameJob(t) /\ th'[t].src = th[t].src
        /\ th[t].pc = "remux_rec" /\ th'[t].pc \in {"remux_rm", "fail"}
    BY <1>11, <1>a DEF RecordRemux, Go, Locals, SamePaths, SameJob
  <2>4. disk' = disk
    BY <1>11 DEF RecordRemux
  <2>5. HoldsPaths(t)'
    BY <1>b, <2>2, <2>3 DEF HoldsPaths, SamePaths
  <2>6. HoldsKey(t)'
    BY <2>2, <2>3, <1>e DEF HoldsKey, SameJob, JobPCs, Inside, PCs, JobsGrow, Jobs
  <2>7. HasCopy(t)'
    BY <1>b, <2>3, <2>4 DEF HasCopy
  <2>8. HoldsFlags(t)'
    BY <1>b, <1>e, <2>2, <2>3 DEF HoldsFlags, SameJob, JobPCs, Inside, PCs, BackedGrows, Published
  <2> QED
    BY <2>5, <2>6, <2>7, <2>8 DEF ThreadInv
<1>12. CASE RemoveSource(t)
  <2>1. th[t].pc \in JobPCs
    BY <1>12 DEF RemoveSource, JobPCs, Inside, PCs
  <2>2. {th[t].path, th[t].orig} \subseteq Paths /\ th[t].key \in Keys /\ jobs[th[t].key] \in Jobs
    BY <2>1, Held
  <2>3. HoldsPaths(t)'
    BY <1>12, <1>a, <1>b, <2>2, PathOps DEF RemoveSource, Go, Idle, HoldsPaths, Free
  <2>4. HoldsKey(t)'
    BY <1>12, <1>a, <1>b, <2>2, <1>e, PathOps DEF RemoveSource, Go, Idle, HoldsKey, JobPCs, Inside, PCs, JobsGrow
  <2>5. HasCopy(t)'
    BY <1>12, <1>a, <1>b, <2>2 DEF RemoveSource, Go, Idle, HasCopy
  <2>6. HoldsFlags(t)'
    BY <1>12, <1>a, <1>b, <2>2, <1>e, <1>j DEF RemoveSource, Go, Idle, HoldsFlags, HoldsKey, JobPCs, Inside, PCs, BackedGrows, Published
  <2> QED
    BY <2>3, <2>4, <2>5, <2>6 DEF ThreadInv
<1>13. CASE Preview(t)
  <2>1. th[t].pc \in JobPCs
    BY <1>13 DEF Preview, At, JobPCs, Inside, PCs
  <2>2. {th[t].path, th[t].orig} \subseteq Paths /\ th[t].key \in Keys /\ jobs[th[t].key] \in Jobs
    BY <2>1, Held
  <2>3. /\ SamePaths(t) /\ SameJob(t) /\ th'[t].pc \in {"record", "exit", "bad", "fail"}
        /\ th'[t].pc = "record" => th'[t].step = "preview"
    BY <1>13, <1>a, <2>2 DEF Preview, At, Raise, Shielded, Go, Locals, SamePaths, SameJob
  <2>4. HoldsPaths(t)'
    BY <2>3, <2>2, PathOps, FreeType DEF HoldsPaths, SamePaths
  <2>5. HoldsKey(t)'
    BY <2>3, <2>2, <1>b, <1>e, PathOps, StepNames DEF HoldsKey, SameJob, JobsGrow, JobPCs, Inside, PCs, Jobs
  <2>6. HasCopy(t)'
    BY <2>3, <2>2 DEF HasCopy
  <2>7. HoldsFlags(t)'
    BY <1>13, <2>3, <2>2, <1>b, <1>e DEF Preview, At, HoldsFlags, SameJob, BackedGrows, JobPCs, Inside, PCs, Published, store
  <2> QED
    BY <2>4, <2>5, <2>6, <2>7 DEF ThreadInv
<1>14. CASE MoveBad(t)
  <2>1. th[t].pc \in JobPCs
    BY <1>14 DEF MoveBad, JobPCs, Inside, PCs
  <2>2. {th[t].path, th[t].orig} \subseteq Paths /\ th[t].key \in Keys /\ jobs[th[t].key] \in Jobs
    BY <2>1, Held
  <2>3. /\ SamePaths(t) /\ SameJob(t) /\ th'[t].pc \in {"bad_rec", "exit"}
    BY <1>14, <1>a, <2>2 DEF MoveBad, Go, Locals, SamePaths, SameJob
  <2>4. HoldsPaths(t)'
    BY <2>3, <2>2, PathOps, FreeType DEF HoldsPaths, SamePaths
  <2>5. HoldsKey(t)'
    BY <2>3, <2>2, <1>b, <1>e, PathOps DEF HoldsKey, SameJob, JobsGrow, JobPCs, Inside, PCs, Jobs
  <2>6. HasCopy(t)'
    BY <2>3, <2>2 DEF HasCopy
  <2>7. HoldsFlags(t)'
    BY <1>14, <2>3, <2>2, <1>b, <1>e DEF MoveBad, HoldsFlags, SameJob, BackedGrows, JobPCs, Inside, PCs, Published, store
  <2> QED
    BY <2>4, <2>5, <2>6, <2>7 DEF ThreadInv
<1>15. CASE RecordBad(t)
  <2>1. th[t].pc \in JobPCs
    BY <1>15 DEF RecordBad, JobPCs, Inside, PCs
  <2>2. {th[t].path, th[t].orig} \subseteq Paths /\ th[t].key \in Keys /\ jobs[th[t].key] \in Jobs
    BY <2>1, Held
  <2>3. HoldsPaths(t)'
    BY <1>15, <1>a, <1>b, <2>2, PathOps DEF RecordBad, Go, Idle, HoldsPaths
  <2>4. HoldsKey(t)'
    BY <1>15, <1>a, <1>b, <2>2, <1>e, PathOps DEF RecordBad, Go, Idle, HoldsKey, JobPCs, Inside, PCs, JobsGrow, NewJob, NoJob
  <2>5. HasCopy(t)'
    BY <1>15, <1>a, <1>b, <2>2 DEF RecordBad, Go, Idle, HasCopy
  <2>6. HoldsFlags(t)'
    BY <1>15, <1>a, <1>b, <2>2, <1>e, <1>j DEF RecordBad, Go, Idle, HoldsFlags, HoldsKey, JobPCs, Inside, PCs, BackedGrows, Published, Jobs
  <2> QED
    BY <2>3, <2>4, <2>5, <2>6 DEF ThreadInv
<1>16. ASSUME NEW s \in {"original", "previewUp", "row"}, Call(t, s) PROVE ThreadInv(t)'
  <2>1. th[t].pc \in JobPCs
    BY <1>16 DEF Call, At, JobPCs, Inside, PCs
  <2>2. {th[t].path, th[t].orig} \subseteq Paths /\ th[t].key \in Keys /\ jobs[th[t].key] \in Jobs
    BY <2>1, Held
  <2>3. /\ SamePaths(t) /\ SameJob(t) /\ th'[t].pc = "record" /\ th'[t].step = s
    BY <1>16, <1>a, <2>2 DEF Call, At, Go, Locals, SamePaths, SameJob
  <2>4. HoldsPaths(t)'
    BY <2>3, <2>2, PathOps, FreeType DEF HoldsPaths, SamePaths
  <2>5. s \in backed'[th[t].key]
    <3>1. remote' = [remote EXCEPT ![s] = @ \cup {Object(t)}] /\ s \in RemoteSteps
      BY <1>16, RemoteNames DEF Call, Told
    <3>2. Object(t) \in remote'[s]
      BY <3>1 DEF IInv, TypeOK, RemoteOK
    <3>3. Object(t).key = th[t].key
      BY DEF Object
    <3>4. ASSUME NEW k \in Keys, th[t].key = k PROVE s \in backed'[k]
      <4>1. s \in Published /\ Has(k, s)'
        BY <3>2, <3>3, <3>4 DEF Has, Published
      <4> QED
        BY <4>1, BackedNames
    <3> QED
      BY <2>2, <3>4
  <2>6. HoldsKey(t)'
    BY <2>3, <2>2, <2>5, <1>b, <1>e, PathOps, StepNames DEF HoldsKey, SameJob, JobsGrow, JobPCs, Inside, PCs, Jobs
  <2>7. HasCopy(t)'
    BY <2>3, <2>2, <2>5 DEF HasCopy
  <2>8. HoldsFlags(t)'
    BY <1>16, <2>3, <2>2, <2>5, <1>b, <1>e DEF Call, At, HoldsFlags, SameJob, BackedGrows, JobPCs, Inside, PCs, Published, store
  <2> QED
    BY <2>4, <2>6, <2>7, <2>8 DEF ThreadInv
<1>17. ASSUME NEW s \in {"original", "previewUp", "row"}, CallRaises(t, s) PROVE ThreadInv(t)'
  <2>1. th[t].pc \in JobPCs
    BY <1>17 DEF CallRaises, At, JobPCs, Inside, PCs
  <2>2. {th[t].path, th[t].orig} \subseteq Paths /\ th[t].key \in Keys /\ jobs[th[t].key] \in Jobs
    BY <2>1, Held
  <2>3. HoldsPaths(t)'
    BY <1>17, <1>a, <1>b, <2>2, PathOps DEF CallRaises, At, Go, Idle, HoldsPaths
  <2>4. HoldsKey(t)'
    BY <1>17, <1>a, <1>b, <2>2, <1>e, PathOps DEF CallRaises, At, Go, Idle, HoldsKey, JobPCs, Inside, PCs, JobsGrow
  <2>5. HasCopy(t)'
    BY <1>17, <1>a, <1>b, <2>2 DEF CallRaises, At, Go, Idle, HasCopy
  <2>6. HoldsFlags(t)'
    BY <1>17, <1>a, <1>b, <2>2, <1>e, <1>j DEF CallRaises, At, Go, Idle, HoldsFlags, HoldsKey, JobPCs, Inside, PCs, BackedGrows, Published
  <2> QED
    BY <2>3, <2>4, <2>5, <2>6 DEF ThreadInv
<1>18. ASSUME NEW s \in RemoteSteps, Deferred(t, s) PROVE ThreadInv(t)'
  <2>1. th[t].pc \in JobPCs
    BY <1>18 DEF Deferred, At, JobPCs, Inside, PCs
  <2>2. {th[t].path, th[t].orig} \subseteq Paths /\ th[t].key \in Keys /\ jobs[th[t].key] \in Jobs
    BY <2>1, Held
  <2>3. HoldsPaths(t)'
    BY <1>18, <1>a, <1>b, <2>2, PathOps DEF Deferred, At, Go, Idle, HoldsPaths, Jobs
  <2>4. HoldsKey(t)'
    BY <1>18, <1>a, <1>b, <2>2, <1>e, PathOps DEF Deferred, At, Go, Idle, HoldsKey, JobPCs, Inside, PCs, JobsGrow
  <2>5. HasCopy(t)'
    BY <1>18, <1>a, <1>b, <2>2 DEF Deferred, At, Go, Idle, HasCopy
  <2>6. HoldsFlags(t)'
    BY <1>18, <1>a, <1>b, <2>2, <1>e, <1>j DEF Deferred, At, Go, Idle, HoldsFlags, HoldsKey, JobPCs, Inside, PCs, BackedGrows, Published
  <2> QED
    BY <2>3, <2>4, <2>5, <2>6 DEF ThreadInv
<1>19. CASE Record(t)
  <2>1. th[t].pc \in JobPCs
    BY <1>19 DEF Record, JobPCs, Inside, PCs
  <2>2. {th[t].path, th[t].orig} \subseteq Paths /\ th[t].key \in Keys /\ jobs[th[t].key] \in Jobs
    BY <2>1, Held
  <2>3. HoldsPaths(t)'
    BY <1>19, <1>a, <1>b, <2>2, PathOps DEF Record, Go, Idle, HoldsPaths
  <2>4. HoldsKey(t)'
    BY <1>19, <1>a, <1>b, <2>2, <1>e, PathOps DEF Record, Go, Idle, HoldsKey, JobPCs, Inside, PCs, JobsGrow, NewJob, NoJob
  <2>5. HasCopy(t)'
    BY <1>19, <1>a, <1>b, <2>2 DEF Record, Go, Idle, HasCopy
  <2>6. HoldsFlags(t)'
    BY <1>19, <1>a, <1>b, <2>2, <1>e, <1>j DEF Record, Go, Idle, HoldsFlags, HoldsKey, JobPCs, Inside, PCs, BackedGrows, Published, Jobs
  <2> QED
    BY <2>3, <2>4, <2>5, <2>6 DEF ThreadInv
<1>20. CASE BookingMatched(t)
  <2>1. th[t].pc \in JobPCs
    BY <1>20 DEF BookingMatched, At, JobPCs, Inside, PCs
  <2>2. {th[t].path, th[t].orig} \subseteq Paths /\ th[t].key \in Keys /\ jobs[th[t].key] \in Jobs
    BY <2>1, Held
  <2>3. /\ SamePaths(t) /\ th'[t].key = th[t].key /\ th'[t].flags = th[t].flags \cup {"booking"}
        /\ th'[t].pc = "work"
    BY <1>20, <1>a, <2>2 DEF BookingMatched, At, Go, Locals, SamePaths, SameJob
  <2>4. HoldsPaths(t)'
    BY <2>3, <2>2, PathOps, FreeType DEF HoldsPaths, SamePaths
  <2>5. HoldsKey(t)'
    BY <2>3, <2>2, <1>b, <1>e, PathOps DEF HoldsKey, SameJob, JobsGrow, JobPCs, Inside, PCs, Jobs
  <2>6. HasCopy(t)'
    BY <2>3, <2>2 DEF HasCopy
  <2>7. HoldsFlags(t)'
    BY <1>20, <2>3, <2>2, <1>b, <1>e DEF BookingMatched, At, HoldsFlags, SameJob, BackedGrows, JobPCs, Inside, PCs, Published, store
  <2> QED
    BY <2>4, <2>5, <2>6, <2>7 DEF ThreadInv
<1>21. CASE BookingUnmatched(t)
  <2>1. th[t].pc \in JobPCs
    BY <1>21 DEF BookingUnmatched, At, JobPCs, Inside, PCs
  <2>2. {th[t].path, th[t].orig} \subseteq Paths /\ th[t].key \in Keys /\ jobs[th[t].key] \in Jobs
    BY <2>1, Held
  <2>3. /\ SamePaths(t) /\ th'[t].key = th[t].key /\ th'[t].pc \in {"exit", "work"}
        /\ th'[t].flags \in {th[t].flags, th[t].flags \cup {"booking"}}
    BY <1>21, <1>a, <2>2 DEF BookingUnmatched, At, Go, Locals, SamePaths, SameJob
  <2>4. HoldsPaths(t)'
    BY <2>3, <2>2, PathOps, FreeType DEF HoldsPaths, SamePaths
  <2>5. HoldsKey(t)'
    BY <2>3, <2>2, <1>b, <1>e, PathOps DEF HoldsKey, SameJob, JobsGrow, JobPCs, Inside, PCs, Jobs
  <2>6. HasCopy(t)'
    BY <2>3, <2>2 DEF HasCopy
  <2>7. HoldsFlags(t)'
    BY <1>21, <2>3, <2>2, <1>b, <1>e DEF BookingUnmatched, At, HoldsFlags, SameJob, BackedGrows, JobPCs, Inside, PCs, Published, store
  <2> QED
    BY <2>4, <2>5, <2>6, <2>7 DEF ThreadInv
<1>22. CASE BookingRaises(t)
  <2>1. th[t].pc \in JobPCs
    BY <1>22 DEF BookingRaises, At, JobPCs, Inside, PCs
  <2>2. {th[t].path, th[t].orig} \subseteq Paths /\ th[t].key \in Keys /\ jobs[th[t].key] \in Jobs
    BY <2>1, Held
  <2>3. HoldsPaths(t)'
    BY <1>22, <1>a, <1>b, <2>2, PathOps DEF BookingRaises, At, Go, Idle, HoldsPaths
  <2>4. HoldsKey(t)'
    BY <1>22, <1>a, <1>b, <2>2, <1>e, PathOps DEF BookingRaises, At, Go, Idle, HoldsKey, JobPCs, Inside, PCs, JobsGrow
  <2>5. HasCopy(t)'
    BY <1>22, <1>a, <1>b, <2>2 DEF BookingRaises, At, Go, Idle, HasCopy
  <2>6. HoldsFlags(t)'
    BY <1>22, <1>a, <1>b, <2>2, <1>e, <1>j DEF BookingRaises, At, Go, Idle, HoldsFlags, HoldsKey, JobPCs, Inside, PCs, BackedGrows, Published
  <2> QED
    BY <2>3, <2>4, <2>5, <2>6 DEF ThreadInv
<1>23. CASE DeferJob(t)
  <2>1. th[t].pc \in JobPCs
    BY <1>23 DEF DeferJob, JobPCs, Inside, PCs
  <2>2. {th[t].path, th[t].orig} \subseteq Paths /\ th[t].key \in Keys /\ jobs[th[t].key] \in Jobs
    BY <2>1, Held
  <2>3. HoldsPaths(t)'
    BY <1>23, <1>a, <1>b, <2>2, PathOps DEF DeferJob, Go, Idle, HoldsPaths
  <2>4. HoldsKey(t)'
    BY <1>23, <1>a, <1>b, <2>2, <1>e, PathOps DEF DeferJob, Go, Idle, HoldsKey, JobPCs, Inside, PCs, JobsGrow, NewJob, NoJob
  <2>5. HasCopy(t)'
    BY <1>23, <1>a, <1>b, <2>2 DEF DeferJob, Go, Idle, HasCopy
  <2>6. HoldsFlags(t)'
    BY <1>23, <1>a, <1>b, <2>2, <1>e, <1>j DEF DeferJob, Go, Idle, HoldsFlags, HoldsKey, JobPCs, Inside, PCs, BackedGrows, Published, Jobs
  <2> QED
    BY <2>3, <2>4, <2>5, <2>6 DEF ThreadInv
<1>24. CASE DeferRow(t)
  <2>1. th[t].pc \in JobPCs
    BY <1>24 DEF DeferRow, JobPCs, Inside, PCs
  <2>2. {th[t].path, th[t].orig} \subseteq Paths /\ th[t].key \in Keys /\ jobs[th[t].key] \in Jobs
    BY <2>1, Held
  <2>3. HoldsPaths(t)'
    BY <1>24, <1>a, <1>b, <2>2, PathOps DEF DeferRow, Go, Idle, HoldsPaths
  <2>4. HoldsKey(t)'
    BY <1>24, <1>a, <1>b, <2>2, <1>e, PathOps DEF DeferRow, Go, Idle, HoldsKey, JobPCs, Inside, PCs, JobsGrow
  <2>5. HasCopy(t)'
    BY <1>24, <1>a, <1>b, <2>2 DEF DeferRow, Go, Idle, HasCopy
  <2>6. HoldsFlags(t)'
    BY <1>24, <1>a, <1>b, <2>2, <1>e, <1>j DEF DeferRow, Go, Idle, HoldsFlags, HoldsKey, JobPCs, Inside, PCs, BackedGrows, Published
  <2> QED
    BY <2>3, <2>4, <2>5, <2>6 DEF ThreadInv
<1>25. CASE Finalize(t)
  <2>1. th[t].pc \in JobPCs
    BY <1>25 DEF Finalize, At, JobPCs, Inside, PCs
  <2>2. {th[t].path, th[t].orig} \subseteq Paths /\ th[t].key \in Keys /\ jobs[th[t].key] \in Jobs
    BY <2>1, Held
  <2>3. /\ SamePaths(t) /\ SameJob(t) /\ th'[t].pc \in {"final_rec", "exit"}
        /\ th'[t].pc = "final_rec" =>
             th'[t].src \in {In(th[t].path, "processed"), Free(In(th[t].path, "processed"), disk)}
        /\ Published \subseteq th[t].flags
    BY <1>25, <1>a, <2>2 DEF Finalize, At, Go, Locals, SamePaths, SameJob, Before, Steps, LocalSteps, RemoteSteps, Published
  <2>4. HoldsPaths(t)'
    BY <2>3, <2>2, PathOps, FreeType DEF HoldsPaths, SamePaths
  <2>5. HoldsKey(t)'
    BY <2>3, <2>2, <1>b, <1>e, PathOps DEF HoldsKey, SameJob, JobsGrow, JobPCs, Inside, PCs, Jobs
  <2>6. HasCopy(t)'
    BY <2>3, <2>2 DEF HasCopy
  <2>7. HoldsFlags(t)'
    BY <1>25, <2>3, <2>2, <1>b, <1>e DEF Finalize, At, HoldsFlags, SameJob, BackedGrows, JobPCs, Inside, PCs, Published, store
  <2> QED
    BY <2>4, <2>5, <2>6, <2>7 DEF ThreadInv
<1>26. CASE RecordFinal(t)
  <2>1. th[t].pc \in JobPCs
    BY <1>26 DEF RecordFinal, JobPCs, Inside, PCs
  <2>2. {th[t].path, th[t].orig} \subseteq Paths /\ th[t].key \in Keys /\ jobs[th[t].key] \in Jobs
    BY <2>1, Held
  <2>3. /\ SamePaths(t) /\ th'[t].key = th[t].key /\ th'[t].pc \in {"final_del", "exit"}
        /\ th'[t].flags \in {th[t].flags, th[t].flags \cup {"final"}}
    BY <1>26, <1>a, <2>2 DEF RecordFinal, Go, Locals, SamePaths, SameJob
  <2>4. HoldsPaths(t)'
    BY <2>3, <2>2, PathOps, FreeType DEF HoldsPaths, SamePaths
  <2>5. HoldsKey(t)'
    BY <2>3, <2>2, <1>b, <1>e, PathOps DEF HoldsKey, SameJob, JobsGrow, JobPCs, Inside, PCs, Jobs
  <2>6. HasCopy(t)'
    BY <2>3, <2>2 DEF HasCopy
  <2>7. HoldsFlags(t)'
    BY <1>26, <2>3, <2>2, <1>b, <1>e DEF RecordFinal, HoldsFlags, SameJob, BackedGrows, JobPCs, Inside, PCs, Published, store
  <2> QED
    BY <2>4, <2>5, <2>6, <2>7 DEF ThreadInv
<1>27. CASE DeleteRow(t)
  <2>1. th[t].pc \in JobPCs
    BY <1>27 DEF DeleteRow, JobPCs, Inside, PCs
  <2>2. {th[t].path, th[t].orig} \subseteq Paths /\ th[t].key \in Keys /\ jobs[th[t].key] \in Jobs
    BY <2>1, Held
  <2>3. HoldsPaths(t)'
    BY <1>27, <1>a, <1>b, <2>2, PathOps DEF DeleteRow, Go, Idle, HoldsPaths
  <2>4. HoldsKey(t)'
    BY <1>27, <1>a, <1>b, <2>2, <1>e, PathOps DEF DeleteRow, Go, Idle, HoldsKey, JobPCs, Inside, PCs, JobsGrow
  <2>5. HasCopy(t)'
    BY <1>27, <1>a, <1>b, <2>2 DEF DeleteRow, Go, Idle, HasCopy
  <2>6. HoldsFlags(t)'
    BY <1>27, <1>a, <1>b, <2>2, <1>e, <1>j DEF DeleteRow, Go, Idle, HoldsFlags, HoldsKey, JobPCs, Inside, PCs, BackedGrows, Published
  <2> QED
    BY <2>3, <2>4, <2>5, <2>6 DEF ThreadInv
<1>28. CASE NothingLeft(t)
  <2>1. th[t].pc \in JobPCs
    BY <1>28 DEF NothingLeft, JobPCs, Inside, PCs
  <2>2. {th[t].path, th[t].orig} \subseteq Paths /\ th[t].key \in Keys /\ jobs[th[t].key] \in Jobs
    BY <2>1, Held
  <2>3. HoldsPaths(t)'
    BY <1>28, <1>a, <1>b, <2>2, PathOps DEF NothingLeft, Go, Idle, HoldsPaths
  <2>4. HoldsKey(t)'
    BY <1>28, <1>a, <1>b, <2>2, <1>e, PathOps DEF NothingLeft, Go, Idle, HoldsKey, JobPCs, Inside, PCs, JobsGrow
  <2>5. HasCopy(t)'
    BY <1>28, <1>a, <1>b, <2>2 DEF NothingLeft, Go, Idle, HasCopy
  <2>6. HoldsFlags(t)'
    BY <1>28, <1>a, <1>b, <2>2, <1>e, <1>j DEF NothingLeft, Go, Idle, HoldsFlags, HoldsKey, JobPCs, Inside, PCs, BackedGrows, Published
  <2> QED
    BY <2>3, <2>4, <2>5, <2>6 DEF ThreadInv
<1>29. CASE MoveFailed(t)
  <2>1. th[t].pc \in JobPCs
    BY <1>29 DEF MoveFailed, JobPCs, Inside, PCs
  <2>2. {th[t].path, th[t].orig} \subseteq Paths /\ th[t].key \in Keys /\ jobs[th[t].key] \in Jobs
    BY <2>1, Held
  <2>3. /\ SamePaths(t) /\ SameJob(t) /\ th'[t].pc \in {"fail_rec", "exit"}
        /\ th'[t].pc = "fail_rec" => th'[t].src = Free(In(th[t].path, "failed"), disk)
    BY <1>29, <1>a, <2>2 DEF MoveFailed, Go, Locals, SamePaths, SameJob
  <2>4. HoldsPaths(t)'
    BY <2>3, <2>2, PathOps, FreeType DEF HoldsPaths, SamePaths
  <2>5. HoldsKey(t)'
    BY <2>3, <2>2, <1>b, <1>e, PathOps DEF HoldsKey, SameJob, JobsGrow, JobPCs, Inside, PCs, Jobs
  <2>6. HasCopy(t)'
    BY <2>3, <2>2 DEF HasCopy
  <2>7. HoldsFlags(t)'
    BY <1>29, <2>3, <2>2, <1>b, <1>e DEF MoveFailed, HoldsFlags, SameJob, BackedGrows, JobPCs, Inside, PCs, Published, store
  <2> QED
    BY <2>4, <2>5, <2>6, <2>7 DEF ThreadInv
<1>30. CASE RecordFailed(t)
  <2>1. th[t].pc \in JobPCs
    BY <1>30 DEF RecordFailed, JobPCs, Inside, PCs
  <2>2. {th[t].path, th[t].orig} \subseteq Paths /\ th[t].key \in Keys /\ jobs[th[t].key] \in Jobs
    BY <2>1, Held
  <2>3. HoldsPaths(t)'
    BY <1>30, <1>a, <1>b, <2>2, PathOps DEF RecordFailed, Go, Idle, HoldsPaths
  <2>4. HoldsKey(t)'
    BY <1>30, <1>a, <1>b, <2>2, <1>e, PathOps DEF RecordFailed, Go, Idle, HoldsKey, JobPCs, Inside, PCs, JobsGrow, NewJob, NoJob
  <2>5. HasCopy(t)'
    BY <1>30, <1>a, <1>b, <2>2 DEF RecordFailed, Go, Idle, HasCopy
  <2>6. HoldsFlags(t)'
    BY <1>30, <1>a, <1>b, <2>2, <1>e, <1>j DEF RecordFailed, Go, Idle, HoldsFlags, HoldsKey, JobPCs, Inside, PCs, BackedGrows, Published, Jobs
  <2> QED
    BY <2>3, <2>4, <2>5, <2>6 DEF ThreadInv
<1>36. CASE MoveOrphan(t)
  <2>1. {th[t].path, th[t].orig} \subseteq Paths
    BY <1>36, <1>b DEF MoveOrphan, HoldsPaths
  <2>2. SamePaths(t) /\ th'[t].pc = "exit"
    BY <1>36, <1>a DEF MoveOrphan, Go, Locals, SamePaths
  <2>3. HoldsPaths(t)'
    BY <2>1, <2>2 DEF HoldsPaths, SamePaths
  <2>4. HoldsKey(t)'
    BY <2>2 DEF HoldsKey, JobPCs, Inside, PCs
  <2>5. HasCopy(t)'
    BY <2>2 DEF HasCopy
  <2>6. HoldsFlags(t)'
    BY <2>2 DEF HoldsFlags, JobPCs, Inside, PCs
  <2> QED
    BY <2>3, <2>4, <2>5, <2>6 DEF ThreadInv
<1>31. CASE Exit(t)
  <2>1. {th[t].path, th[t].orig} \subseteq Paths
    BY <1>31, <1>b DEF Exit, HoldsPaths
  <2>2. HoldsPaths(t)'
    BY <1>31, <1>a, <1>b, <2>1, PathOps DEF Exit, Go, Idle, HoldsPaths
  <2>3. HoldsKey(t)'
    BY <1>31, <1>a, <1>b, <2>1, <1>e, PathOps DEF Exit, Go, Idle, HoldsKey, JobPCs, Inside, PCs, JobsGrow
  <2>4. HasCopy(t)'
    BY <1>31, <1>a, <1>b, <2>1 DEF Exit, Go, Idle, HasCopy
  <2>5. HoldsFlags(t)'
    BY <1>31, <1>a, <1>b, <2>1, <1>e, <1>j DEF Exit, Go, Idle, HoldsFlags, HoldsKey, JobPCs, Inside, PCs, BackedGrows, Published
  <2> QED
    BY <2>2, <2>3, <2>4, <2>5 DEF ThreadInv
<1>32. CASE Done(t)
  <2>1. HoldsPaths(t)'
    BY <1>32, <1>a, <1>b, PathOps DEF Done, Go, Idle, HoldsPaths
  <2>2. HoldsKey(t)'
    BY <1>32, <1>a, <1>b, <1>e, PathOps DEF Done, Go, Idle, HoldsKey, JobPCs, Inside, PCs, JobsGrow
  <2>3. HasCopy(t)'
    BY <1>32, <1>a, <1>b DEF Done, Go, Idle, HasCopy
  <2>4. HoldsFlags(t)'
    BY <1>32, <1>a, <1>b, <1>e, <1>j DEF Done, Go, Idle, HoldsFlags, HoldsKey, JobPCs, Inside, PCs, BackedGrows, Published
  <2> QED
    BY <2>1, <2>2, <2>3, <2>4 DEF ThreadInv
<1> QED
  BY <1>1, <1>2, <1>3, <1>4, <1>5, <1>6, <1>7, <1>8, <1>9, <1>10, <1>11, <1>12, <1>13, <1>14, <1>15, <1>16, <1>17, <1>18, <1>19, <1>20, <1>21, <1>22, <1>23, <1>24, <1>25, <1>26, <1>27, <1>28, <1>29, <1>30, <1>31, <1>32, <1>33, <1>34, <1>35, <1>36 DEF Step

(* The job store and the folders keep theirs. *)
LEMMA StoreKeeps ==
    ASSUME IInv, NEW t \in Threads, Step(t)
    PROVE  RowHasJob' /\ FlagsAreBacked' /\ CompletedIsBacked' /\ CmdIsBacked' /\ NeverLost'
<1>b. HoldsPaths(t) /\ HoldsKey(t) /\ HoldsFlags(t)
  BY DEF IInv, ThreadInv
<1>e. JobsGrow /\ BackedGrows /\ DiskKeeps /\ UNCHANGED <<arrived, cmd>>
  BY Effects, BackingGrows DEF StepEffects
<1>i. /\ RowHasJob /\ FlagsAreBacked /\ CompletedIsBacked /\ NeverLost
      /\ jobs \in [Keys -> {NoJob} \cup Jobs] /\ rows \in [Keys -> Rows]
  BY DEF IInv, TypeOK, JobsOK, RowsOK
<1>n. NeverLost'
  BY <1>e, <1>i DEF NeverLost, DiskKeeps
<1>g. FlagsAreBacked' /\ CompletedIsBacked' /\ RowHasJob'
  <2>u. ASSUME UNCHANGED jobs PROVE FlagsAreBacked' /\ CompletedIsBacked'
    BY <2>u, <1>e, <1>i DEF FlagsAreBacked, CompletedIsBacked, BackedGrows
  <2>r. ASSUME UNCHANGED rows PROVE RowHasJob'
    BY <2>r, <1>e, <1>i DEF RowHasJob, JobsGrow
  <2>1. CASE Ready(t)
    BY <2>1, <2>u, <2>r DEF Ready, store
  <2>2. CASE MoveIn(t)
    BY <2>2, <2>u, <2>r DEF MoveIn, store
  <2>3. CASE Reclaim(t)
    BY <2>3, <2>u, <2>r DEF Reclaim, store
  <2>4. CASE Insert(t)
    <3>2. th[t].path \in Paths /\ KeyOf(th[t].path) \in Keys
      BY <2>4, <1>b, PathOps DEF Insert, HoldsPaths, HoldsKey
    <3>3. CASE UNCHANGED jobs
      BY <2>4, <2>u, <2>r, <3>3 DEF Insert
    <3>4. CASE jobs' = [jobs EXCEPT ![th[t].key] = NewJob(th[t].path)]
      <4>1. th[t].key \in Keys
        BY <2>4, <1>b DEF Insert, HoldsKey
      <4> QED
        BY <2>4, <2>r, <1>e, <3>2, <3>4, <4>1, JobReplaced, NewJobType DEF Insert
    <3> QED
      BY <2>4, <3>3, <3>4 DEF Insert
  <2>5. CASE Resume(t)
    BY <2>5, <2>u, <2>r DEF Resume, store
  <2>33. CASE Adopt(t)
    <3>2. th[t].path \in Paths /\ KeyOf(th[t].path) \in Keys
      BY <2>33, <1>b, PathOps DEF Adopt, HoldsPaths, HoldsKey
    <3>3. CASE UNCHANGED jobs
      BY <2>33, <2>u, <2>r, <3>3 DEF Adopt
    <3>4. CASE jobs' = [jobs EXCEPT ![th[t].key] = NewJob(th[t].path)]
      <4>1. th[t].key \in Keys
        BY <2>33, <1>b DEF Adopt, HoldsKey
      <4> QED
        BY <2>33, <2>r, <1>e, <3>2, <3>4, <4>1, JobReplaced, NewJobType DEF Adopt
    <3> QED
      BY <2>33, <3>3, <3>4 DEF Adopt
  <2>34. CASE Rebind(t)
    <3>1. th[t].pc \in JobPCs
      BY <2>34 DEF Rebind, JobPCs, Inside, PCs
    <3>2. th[t].key \in Keys /\ jobs[th[t].key] \in Jobs
      BY <3>1, Held
    <3>3. FlagsAreBacked'
      BY <2>34, <1>b, <1>e, <1>i, <3>2 DEF Rebind, HoldsFlags, HoldsKey, FlagsAreBacked, BackedGrows, Published, Jobs, NewJob, NoJob
    <3>4. CompletedIsBacked'
      BY <2>34, <1>b, <1>e, <1>i, <3>2 DEF Rebind, HoldsFlags, HoldsKey, CompletedIsBacked, BackedGrows, Jobs, NewJob, NoJob
    <3> QED
      BY <2>34, <2>r, <3>3, <3>4 DEF Rebind
  <2>6. CASE Reopen(t)
    <3>1. th[t].pc \in JobPCs
      BY <2>6 DEF Reopen, JobPCs, Inside, PCs
    <3>2. th[t].key \in Keys /\ jobs[th[t].key] \in Jobs
      BY <3>1, Held
    <3>3. FlagsAreBacked'
      BY <2>6, <1>b, <1>e, <1>i, <3>2 DEF Reopen, HoldsFlags, HoldsKey, FlagsAreBacked, BackedGrows, Published, Jobs, NewJob, NoJob
    <3>4. CompletedIsBacked'
      BY <2>6, <1>b, <1>e, <1>i, <3>2 DEF Reopen, HoldsFlags, HoldsKey, CompletedIsBacked, BackedGrows, Jobs, NewJob, NoJob
    <3> QED
      BY <2>6, <2>r, <3>3, <3>4 DEF Reopen
  <2>7. CASE Body(t)
    BY <2>7, <2>u, <2>r DEF Body, store
  <2>35. CASE Gate(t)
    BY <2>35, <2>u, <2>r DEF Gate, store
  <2>8. CASE RenameUtc(t)
    BY <2>8, <2>u, <2>r DEF RenameUtc, store
  <2>9. CASE RecordUtc(t)
    <3>1. th[t].pc \in JobPCs
      BY <2>9 DEF RecordUtc, JobPCs, Inside, PCs
    <3>2. th[t].key \in Keys /\ jobs[th[t].key] \in Jobs
      BY <3>1, Held
    <3>3. FlagsAreBacked'
      BY <2>9, <1>b, <1>e, <1>i, <3>2 DEF RecordUtc, HoldsFlags, HoldsKey, FlagsAreBacked, BackedGrows, Published, Jobs, NewJob, NoJob
    <3>4. CompletedIsBacked'
      BY <2>9, <1>b, <1>e, <1>i, <3>2 DEF RecordUtc, HoldsFlags, HoldsKey, CompletedIsBacked, BackedGrows, Jobs, NewJob, NoJob
    <3> QED
      BY <2>9, <2>r, <3>3, <3>4 DEF RecordUtc
  <2>10. CASE Remux(t)
    BY <2>10, <2>u, <2>r DEF Remux, store
  <2>11. CASE RecordRemux(t)
    <3>1. th[t].pc \in JobPCs
      BY <2>11 DEF RecordRemux, JobPCs, Inside, PCs
    <3>2. th[t].key \in Keys /\ jobs[th[t].key] \in Jobs
      BY <3>1, Held
    <3>3. FlagsAreBacked'
      BY <2>11, <1>b, <1>e, <1>i, <3>2 DEF RecordRemux, HoldsFlags, HoldsKey, FlagsAreBacked, BackedGrows, Published, Jobs, NewJob, NoJob
    <3>4. CompletedIsBacked'
      BY <2>11, <1>b, <1>e, <1>i, <3>2 DEF RecordRemux, HoldsFlags, HoldsKey, CompletedIsBacked, BackedGrows, Jobs, NewJob, NoJob
    <3> QED
      BY <2>11, <2>r, <3>3, <3>4 DEF RecordRemux
  <2>12. CASE RemoveSource(t)
    BY <2>12, <2>u, <2>r DEF RemoveSource, store
  <2>13. CASE Preview(t)
    BY <2>13, <2>u, <2>r DEF Preview, store
  <2>14. CASE MoveBad(t)
    BY <2>14, <2>u, <2>r DEF MoveBad, store
  <2>15. CASE RecordBad(t)
    <3>1. th[t].pc \in JobPCs
      BY <2>15 DEF RecordBad, JobPCs, Inside, PCs
    <3>2. th[t].key \in Keys /\ jobs[th[t].key] \in Jobs
      BY <3>1, Held
    <3>3. FlagsAreBacked'
      BY <2>15, <1>b, <1>e, <1>i, <3>2 DEF RecordBad, HoldsFlags, HoldsKey, FlagsAreBacked, BackedGrows, Published, Jobs, NewJob, NoJob
    <3>4. CompletedIsBacked'
      BY <2>15, <1>b, <1>e, <1>i, <3>2 DEF RecordBad, HoldsFlags, HoldsKey, CompletedIsBacked, BackedGrows, Jobs, NewJob, NoJob
    <3> QED
      BY <2>15, <2>r, <3>3, <3>4 DEF RecordBad
  <2>16. ASSUME NEW s \in {"original", "previewUp", "row"}, Call(t, s) PROVE FlagsAreBacked' /\ CompletedIsBacked' /\ RowHasJob'
    BY <2>16, <2>u, <2>r DEF Call, store
  <2>17. ASSUME NEW s \in {"original", "previewUp", "row"}, CallRaises(t, s) PROVE FlagsAreBacked' /\ CompletedIsBacked' /\ RowHasJob'
    BY <2>17, <2>u, <2>r DEF CallRaises, store
  <2>18. ASSUME NEW s \in RemoteSteps, Deferred(t, s) PROVE FlagsAreBacked' /\ CompletedIsBacked' /\ RowHasJob'
    BY <2>18, <2>u, <2>r DEF Deferred, store
  <2>19. CASE Record(t)
    <3>1. th[t].pc \in JobPCs
      BY <2>19 DEF Record, JobPCs, Inside, PCs
    <3>2. th[t].key \in Keys /\ jobs[th[t].key] \in Jobs
      BY <3>1, Held
    <3>3. FlagsAreBacked'
      BY <2>19, <1>b, <1>e, <1>i, <3>2 DEF Record, HoldsFlags, HoldsKey, FlagsAreBacked, BackedGrows, Published, Jobs, NewJob, NoJob
    <3>4. CompletedIsBacked'
      BY <2>19, <1>b, <1>e, <1>i, <3>2 DEF Record, HoldsFlags, HoldsKey, CompletedIsBacked, BackedGrows, Jobs, NewJob, NoJob
    <3> QED
      BY <2>19, <2>r, <3>3, <3>4 DEF Record
  <2>20. CASE BookingMatched(t)
    <3>1. th[t].pc \in JobPCs
      BY <2>20 DEF BookingMatched, At, JobPCs, Inside, PCs
    <3>2. th[t].key \in Keys /\ jobs[th[t].key] \in Jobs
      BY <3>1, Held
    <3>3. FlagsAreBacked'
      BY <2>20, <1>b, <1>e, <1>i, <3>2 DEF BookingMatched, At, HoldsFlags, HoldsKey, FlagsAreBacked, BackedGrows, Published, Jobs, NewJob, NoJob
    <3>4. CompletedIsBacked'
      BY <2>20, <1>b, <1>e, <1>i, <3>2 DEF BookingMatched, At, HoldsFlags, HoldsKey, CompletedIsBacked, BackedGrows, Jobs, NewJob, NoJob
    <3> QED
      BY <2>20, <2>r, <3>3, <3>4 DEF BookingMatched
  <2>21. CASE BookingUnmatched(t)
    <3>1. th[t].pc \in JobPCs
      BY <2>21 DEF BookingUnmatched, At, JobPCs, Inside, PCs
    <3>2. th[t].key \in Keys /\ jobs[th[t].key] \in Jobs
      BY <3>1, Held
    <3>3. FlagsAreBacked'
      BY <2>21, <1>b, <1>e, <1>i, <3>2 DEF BookingUnmatched, At, HoldsFlags, HoldsKey, FlagsAreBacked, BackedGrows, Published, Jobs, NewJob, NoJob
    <3>4. CompletedIsBacked'
      BY <2>21, <1>b, <1>e, <1>i, <3>2 DEF BookingUnmatched, At, HoldsFlags, HoldsKey, CompletedIsBacked, BackedGrows, Jobs, NewJob, NoJob
    <3> QED
      BY <2>21, <2>r, <3>3, <3>4 DEF BookingUnmatched
  <2>22. CASE BookingRaises(t)
    BY <2>22, <2>u, <2>r DEF BookingRaises, store
  <2>23. CASE DeferJob(t)
    <3>1. th[t].pc \in JobPCs
      BY <2>23 DEF DeferJob, JobPCs, Inside, PCs
    <3>2. th[t].key \in Keys /\ jobs[th[t].key] \in Jobs
      BY <3>1, Held
    <3>3. FlagsAreBacked'
      BY <2>23, <1>b, <1>e, <1>i, <3>2 DEF DeferJob, HoldsFlags, HoldsKey, FlagsAreBacked, BackedGrows, Published, Jobs, NewJob, NoJob
    <3>4. CompletedIsBacked'
      BY <2>23, <1>b, <1>e, <1>i, <3>2 DEF DeferJob, HoldsFlags, HoldsKey, CompletedIsBacked, BackedGrows, Jobs, NewJob, NoJob
    <3> QED
      BY <2>23, <2>r, <3>3, <3>4 DEF DeferJob
  <2>24. CASE DeferRow(t)
    <3>1. th[t].pc \in JobPCs
      BY <2>24 DEF DeferRow, JobPCs, Inside, PCs
    <3>2. RowHasJob'
      BY <2>24, <3>1, <1>b, <1>e, <1>i DEF DeferRow, HoldsKey, RowHasJob, JobsGrow, NoRow, Rows
    <3> QED
      BY <2>24, <2>u, <3>2 DEF DeferRow
  <2>25. CASE Finalize(t)
    <3>1. th[t].pc \in JobPCs
      BY <2>25 DEF Finalize, At, JobPCs, Inside, PCs
    <3>2. th[t].key \in Keys /\ jobs[th[t].key] \in Jobs
      BY <3>1, Held
    <3>3. FlagsAreBacked'
      BY <2>25, <1>b, <1>e, <1>i, <3>2 DEF Finalize, At, HoldsFlags, HoldsKey, FlagsAreBacked, BackedGrows, Published, Jobs, NewJob, NoJob
    <3>4. CompletedIsBacked'
      BY <2>25, <1>b, <1>e, <1>i, <3>2 DEF Finalize, At, HoldsFlags, HoldsKey, CompletedIsBacked, BackedGrows, Jobs, NewJob, NoJob
    <3> QED
      BY <2>25, <2>r, <3>3, <3>4 DEF Finalize
  <2>26. CASE RecordFinal(t)
    <3>1. th[t].pc \in JobPCs
      BY <2>26 DEF RecordFinal, JobPCs, Inside, PCs
    <3>2. th[t].key \in Keys /\ jobs[th[t].key] \in Jobs
      BY <3>1, Held
    <3>3. FlagsAreBacked'
      BY <2>26, <1>b, <1>e, <1>i, <3>2 DEF RecordFinal, HoldsFlags, HoldsKey, FlagsAreBacked, BackedGrows, Published, Jobs, NewJob, NoJob
    <3>4. CompletedIsBacked'
      BY <2>26, <1>b, <1>e, <1>i, <3>2 DEF RecordFinal, HoldsFlags, HoldsKey, CompletedIsBacked, BackedGrows, Jobs, NewJob, NoJob
    <3> QED
      BY <2>26, <2>r, <3>3, <3>4 DEF RecordFinal
  <2>27. CASE DeleteRow(t)
    <3>1. th[t].pc \in JobPCs
      BY <2>27 DEF DeleteRow, JobPCs, Inside, PCs
    <3>2. RowHasJob'
      BY <2>27, <3>1, <1>b, <1>e, <1>i DEF DeleteRow, HoldsKey, RowHasJob, JobsGrow, NoRow, Rows
    <3> QED
      BY <2>27, <2>u, <3>2 DEF DeleteRow
  <2>28. CASE NothingLeft(t)
    BY <2>28, <2>u, <2>r DEF NothingLeft, store
  <2>29. CASE MoveFailed(t)
    BY <2>29, <2>u, <2>r DEF MoveFailed, store
  <2>30. CASE RecordFailed(t)
    <3>1. th[t].pc \in JobPCs
      BY <2>30 DEF RecordFailed, JobPCs, Inside, PCs
    <3>2. th[t].key \in Keys /\ jobs[th[t].key] \in Jobs
      BY <3>1, Held
    <3>3. FlagsAreBacked'
      BY <2>30, <1>b, <1>e, <1>i, <3>2 DEF RecordFailed, HoldsFlags, HoldsKey, FlagsAreBacked, BackedGrows, Published, Jobs, NewJob, NoJob
    <3>4. CompletedIsBacked'
      BY <2>30, <1>b, <1>e, <1>i, <3>2 DEF RecordFailed, HoldsFlags, HoldsKey, CompletedIsBacked, BackedGrows, Jobs, NewJob, NoJob
    <3> QED
      BY <2>30, <2>r, <3>3, <3>4 DEF RecordFailed
  <2>36. CASE MoveOrphan(t)
    BY <2>36, <2>u, <2>r DEF MoveOrphan, store
  <2>31. CASE Exit(t)
    BY <2>31, <2>u, <2>r DEF Exit, store
  <2>32. CASE Done(t)
    BY <2>32, <2>u, <2>r DEF Done, store
  <2> QED
    BY <2>1, <2>2, <2>3, <2>4, <2>5, <2>6, <2>7, <2>8, <2>9, <2>10, <2>11, <2>12, <2>13, <2>14, <2>15, <2>16, <2>17, <2>18, <2>19, <2>20, <2>21, <2>22, <2>23, <2>24, <2>25, <2>26, <2>27, <2>28, <2>29, <2>30, <2>31, <2>32, <2>33, <2>34, <2>35, <2>36 DEF Step
<1>c. CmdIsBacked'
  BY <1>e, CmdKeeps
<1> QED
  BY <1>n, <1>g, <1>c


LEMMA StepKeeps ==
    ASSUME IInv, NEW t \in Threads, Step(t)
    PROVE  IInv'
<1>1. \A u \in Threads \ {t} : ThreadInv(u)'
  BY Effects, OthersKeep DEF StepEffects, OthersSame
<1> QED
  BY <1>1, TypeStep, ThreadKeeps, StoreKeeps DEF IInv

(***************************************************************************)
(* The other actions keep the invariant                                    *)
(***************************************************************************)

(* A thread outside process_clip has nothing to hold. *)
LEMMA AtRest ==
    ASSUME NEW t \in Threads, th'[t].pc \in {"idle", "done"}
    PROVE  ThreadInv(t)'
BY DEF ThreadInv, HoldsPaths, HoldsKey, HasCopy, HoldsFlags, JobPCs, Inside

(* A step that leaves the store, the remote side and the arrivals alone, and
   moves files at most, keeps what is not about the threads. *)
LEMMA Quiet ==
    ASSUME IInv, UNCHANGED <<jobs, rows, remote, arrived, cmd>>, DiskKeeps
    PROVE  /\ JobsGrow /\ RemoteGrows
           /\ RowHasJob' /\ FlagsAreBacked' /\ CompletedIsBacked' /\ CmdIsBacked' /\ NeverLost'
<1>1. JobsGrow /\ RemoteGrows
  BY DEF JobsGrow, RemoteGrows
<1>2. BackedGrows
  BY <1>1, BackingGrows
<1>3. RowHasJob' /\ FlagsAreBacked' /\ CompletedIsBacked'
  BY <1>2 DEF IInv, RowHasJob, FlagsAreBacked, CompletedIsBacked, BackedGrows
<1>4. CmdIsBacked'
  BY <1>1, <1>2, CmdKeeps
<1>5. NeverLost'
  BY DEF IInv, NeverLost, DiskKeeps
<1> QED
  BY <1>1, <1>3, <1>4, <1>5

LEMMA EnterKeeps ==
    ASSUME IInv, NEW t \in Threads, NEW p \in Paths, Enter(t, p)
    PROVE  ThreadsOK' /\ claims' \subseteq Paths /\ ThreadInv(t)' /\ OthersSame(t)
<1> DEFINE in == [Idle EXCEPT !.pc = IF p.dir = "incoming" THEN "ready" ELSE "resume",
                              !.sub = p, !.orig = p, !.path = p]
           out == [Idle EXCEPT !.pc = "done", !.sub = p]
<1>1. th \in [Threads -> Locals] /\ claims \subseteq Paths
  BY DEF IInv, TypeOK, ThreadsOK, MemoryOK
<1>2. in \in Locals /\ out \in Locals
  BY DEF Idle, Locals, PCs, OptPaths
<1>3. in.pc \in {"ready", "resume"} /\ in.path = p /\ in.orig = p /\ out.pc = "done"
  BY DEF Idle
<1>4. CASE claims' = claims \cup {p} /\ th' = [th EXCEPT ![t] = in]
  <2>1. th'[t] = in /\ OthersSame(t)
    BY <1>1, <1>4 DEF OthersSame
  <2>2. ThreadsOK' /\ claims' \subseteq Paths
    BY <1>1, <1>2, <1>4 DEF ThreadsOK
  <2>3. ThreadInv(t)'
    <3> HIDE DEF in
    <3> QED
      BY <1>3, <2>1 DEF ThreadInv, HoldsPaths, HoldsKey, HasCopy, HoldsFlags, JobPCs, Inside
  <2> QED
    BY <2>1, <2>2, <2>3
<1>5. CASE UNCHANGED claims /\ th' = [th EXCEPT ![t] = out]
  <2>1. th'[t] = out /\ OthersSame(t)
    BY <1>1, <1>5 DEF OthersSame
  <2>2. ThreadsOK' /\ claims' \subseteq Paths
    BY <1>1, <1>2, <1>5 DEF ThreadsOK
  <2> QED
    BY <1>3, <2>1, <2>2, AtRest
<1> QED
  BY <1>4, <1>5 DEF Enter

(* Actions that change neither the threads nor the store. *)
LEMMA OutsideKeeps ==
    ASSUME IInv, UNCHANGED <<th, jobs, rows, remote, arrived, cmd>>, DiskKeeps,
           DiskOK', MemoryOK', WorldOK'
    PROVE  IInv'
<1>1. TypeOK'
  BY DEF IInv, TypeOK, JobsOK, RowsOK, RemoteOK, ThreadsOK
<1>2. \A u \in Threads : ThreadInv(u)'
  BY Quiet, OthersKeep
<1> QED
  BY <1>1, <1>2, Quiet DEF IInv

(* Files may come and be renamed, but the paths that exist stay. *)
LEMMA DiskGrows == ASSUME disk \subseteq disk' PROVE DiskKeeps
BY DEF DiskKeeps

LEMMA TakeKeeps ==
    ASSUME IInv, NEW t \in Threads, NEW p \in queued, Take(t, p)
    PROVE  IInv'
<1>1. p \in Paths
  BY DEF IInv, TypeOK, MemoryOK
<1>2. ThreadsOK' /\ claims' \subseteq Paths /\ ThreadInv(t)' /\ OthersSame(t)
  BY <1>1, EnterKeeps DEF Take
<1>3. UNCHANGED <<disk, arrived, writing, online, phase, cmd, jobs, rows, remote, pending, soft, cooling, budget>>
      /\ queued' = queued \ {p}
  BY DEF Take, world, store
<1>4. TypeOK'
  BY <1>2, <1>3 DEF IInv, TypeOK, DiskOK, JobsOK, RowsOK, RemoteOK, MemoryOK, WorldOK
<1>5. DiskKeeps
  BY <1>3, DiskGrows
<1>6. \A u \in Threads : ThreadInv(u)'
  BY <1>2, <1>3, <1>5, Quiet, OthersKeep DEF OthersSame
<1> QED
  BY <1>3, <1>4, <1>5, <1>6, Quiet DEF IInv

LEMMA DrainPickKeeps ==
    ASSUME IInv, NEW k \in Keys, DrainPick(k)
    PROVE  IInv'
<1> DEFINE new == [Idle EXCEPT !.pc = "begin", !.key = k, !.sub = rows[k].path]
<1>1. rows[k].path \in Paths /\ jobs[k].status # "none" /\ Drain \in Threads
  BY DEF IInv, TypeOK, RowsOK, RowHasJob, DrainPick, Threads
<1>2. new \in Locals /\ new.pc = "begin" /\ new.key = k /\ new.sub = rows[k].path
  BY <1>1 DEF Idle, Locals, PCs, OptPaths
<1>3. th' = [th EXCEPT ![Drain] = new]
  BY DEF DrainPick
<1>4. UNCHANGED <<disk, arrived, writing, online, phase, cmd, jobs, rows, remote,
                  claims, queued, pending, soft, cooling, budget>>
  BY DEF DrainPick, world, store, memory
<1> HIDE DEF new
<1>5. ThreadsOK' /\ th'[Drain] = new /\ OthersSame(Drain)
  BY <1>1, <1>2, <1>3 DEF IInv, TypeOK, ThreadsOK, OthersSame
<1>6. TypeOK'
  BY <1>4, <1>5 DEF IInv, TypeOK, DiskOK, JobsOK, RowsOK, RemoteOK, MemoryOK, WorldOK
<1>7. DiskKeeps
  BY <1>4, DiskGrows
<1>8. ThreadInv(Drain)'
  BY <1>1, <1>2, <1>4, <1>5
     DEF ThreadInv, HoldsPaths, HoldsKey, HasCopy, HoldsFlags, JobPCs, Inside
<1>9. \A u \in Threads : ThreadInv(u)'
  BY <1>4, <1>5, <1>7, <1>8, Quiet, OthersKeep DEF OthersSame
<1> QED
  BY <1>4, <1>6, <1>7, <1>9, Quiet DEF IInv

(* The store after a step that replaces one job by one that keeps what the
   invariant needs: its existence, and the flags of what was published. *)
LEMMA JobKeeps ==
    ASSUME IInv, NEW k \in Keys, NEW new \in Jobs, jobs' = [jobs EXCEPT ![k] = new],
           jobs[k].status # "none", UNCHANGED <<remote, arrived, disk>>,
           new.flags \cap Published \subseteq backed[k],
           new.status = "completed" => jobs[k].status = "completed",
           \A j \in Keys : rows'[j].queued => rows[j].queued
    PROVE  /\ JobsOK' /\ JobsGrow /\ BackedGrows /\ RemoteGrows /\ DiskKeeps /\ NeverLost'
           /\ RowHasJob' /\ FlagsAreBacked' /\ CompletedIsBacked'
<1>1. jobs \in [Keys -> {NoJob} \cup Jobs]
  BY DEF IInv, TypeOK, JobsOK
<1>2. jobs'[k] = new /\ \A j \in Keys \ {k} : jobs'[j] = jobs[j]
  BY <1>1
<1>3. JobsOK'
  BY <1>1 DEF JobsOK
<1>4. new.status # "none"
  BY DEF Jobs
<1>5. JobsGrow /\ RemoteGrows /\ DiskKeeps
  BY <1>2, <1>4, DiskGrows DEF JobsGrow, RemoteGrows
<1>6. BackedGrows
  BY <1>5, BackingGrows
<1>7. RowHasJob'
  BY <1>2, <1>4 DEF IInv, RowHasJob
<1>8. FlagsAreBacked' /\ CompletedIsBacked'
  BY <1>2, <1>6 DEF IInv, FlagsAreBacked, CompletedIsBacked, BackedGrows
<1>9. NeverLost'
  BY DEF IInv, NeverLost
<1> QED
  BY <1>3, <1>5, <1>6, <1>7, <1>8, <1>9

LEMMA DrainBeginKeeps ==
    ASSUME IInv, DrainBegin
    PROVE  IInv'
<1> DEFINE k == th[Drain].key
<1>1. Drain \in Threads /\ th[Drain].pc = "begin"
  BY DEF Threads, DrainBegin
<1>2. k \in Keys /\ th[Drain].sub \in Paths /\ jobs[k].status # "none"
  BY <1>1 DEF IInv, ThreadInv, HoldsPaths, HoldsKey
<1>3. UNCHANGED <<disk, arrived, writing, online, phase, cmd, remote, queued, pending, soft, cooling, budget>>
  BY DEF DrainBegin, world, queue
<1>4. th \in [Threads -> Locals] /\ rows \in [Keys -> Rows] /\ claims \subseteq Paths
  BY DEF IInv, TypeOK, ThreadsOK, RowsOK, MemoryOK
<1>5. DiskKeeps /\ RemoteGrows /\ BackedGrows
  BY <1>3, DiskGrows, BackingGrows DEF RemoteGrows
<1>6. Idle \in Locals /\ Idle.pc = "idle"
  BY DEF Idle, Locals, PCs, OptPaths
<1>7. ASSUME JobsOK', RowsOK', ThreadsOK', claims' \subseteq Paths, ThreadInv(Drain)',
             OthersSame(Drain), JobsGrow, RowHasJob', FlagsAreBacked', CompletedIsBacked'
      PROVE  IInv'
  <2>1. TypeOK'
    BY <1>3, <1>7 DEF IInv, TypeOK, DiskOK, RemoteOK, MemoryOK, WorldOK
  <2>2. \A u \in Threads : ThreadInv(u)'
    BY <1>5, <1>7, OthersKeep DEF OthersSame
  <2>3. NeverLost' /\ CmdIsBacked'
    BY <1>3, <1>5, <1>7, CmdKeeps DEF IInv, NeverLost
  <2> QED
    BY <1>7, <2>1, <2>2, <2>3 DEF IInv
<1>8. ASSUME th' = [th EXCEPT ![Drain] = Idle], UNCHANGED claims
      PROVE  ThreadsOK' /\ claims' \subseteq Paths /\ ThreadInv(Drain)' /\ OthersSame(Drain)
  <2>1. th'[Drain] = Idle /\ OthersSame(Drain)
    BY <1>1, <1>4, <1>8 DEF OthersSame
  <2>2. ThreadsOK' /\ claims' \subseteq Paths
    BY <1>4, <1>6, <1>8 DEF ThreadsOK
  <2> QED
    BY <1>1, <1>6, <2>1, <2>2, AtRest
<1>a. CASE th' = [th EXCEPT ![Drain] = Idle] /\ UNCHANGED <<jobs, rows, claims>>
  <2>1. JobsOK' /\ RowsOK'
    BY <1>a DEF IInv, TypeOK, JobsOK, RowsOK
  <2> QED
    BY <1>3, <1>5, <1>7, <1>8, <1>a, <2>1, Quiet
<1>b. CASE /\ rows' = [rows EXCEPT ![k] = NoRow]
           /\ jobs' = [jobs EXCEPT ![k].status = "failed"]
           /\ th' = [th EXCEPT ![Drain] = Idle] /\ UNCHANGED claims
  <2> DEFINE new == [jobs[k] EXCEPT !.status = "failed"]
  <2>1. jobs[k] \in Jobs
    BY <1>2 DEF IInv, TypeOK, JobsOK, NoJob
  <2>2. new \in Jobs /\ new.flags = jobs[k].flags /\ new.status = "failed"
    BY <2>1 DEF Jobs
  <2>3. jobs' = [jobs EXCEPT ![k] = new]
    BY <1>b
  <2> HIDE DEF new
  <2>4. RowsOK' /\ \A j \in Keys : rows'[j].queued => rows[j].queued
    <3>1. NoRow \in Rows /\ NoRow.queued = FALSE
      BY DEF NoRow, Rows, OptPaths
    <3>2. rows'[k] = NoRow /\ \A j \in Keys \ {k} : rows'[j] = rows[j]
      BY <1>2, <1>4, <1>b
    <3> QED
      BY <1>b, <1>4, <3>1, <3>2 DEF IInv, TypeOK, RowsOK
  <2>5. new.flags \cap Published \subseteq backed[k]
    BY <1>2, <2>2 DEF IInv, FlagsAreBacked
  <2>6. /\ JobsOK' /\ JobsGrow /\ RowHasJob' /\ FlagsAreBacked' /\ CompletedIsBacked'
    BY <1>2, <1>3, <2>2, <2>3, <2>4, <2>5, JobKeeps
  <2> QED
    BY <1>7, <1>8, <1>b, <2>4, <2>6
<1>c. CASE /\ rows[k].queued
           /\ rows' = [rows EXCEPT ![k].drained = IF MaxDrain = 0 THEN 0 ELSE @ + 1]
           /\ Enter(Drain, th[Drain].sub)
           /\ UNCHANGED jobs
  <2>1. ThreadsOK' /\ claims' \subseteq Paths /\ ThreadInv(Drain)' /\ OthersSame(Drain)
    BY <1>1, <1>2, <1>c, EnterKeeps
  <2>2. RowsOK' /\ \A j \in Keys : rows'[j].queued = rows[j].queued
    <3> DEFINE new == [rows[k] EXCEPT !.drained = IF MaxDrain = 0 THEN 0 ELSE @ + 1]
    <3>1. new \in Rows /\ new.queued = rows[k].queued /\ new.path = rows[k].path
      BY <1>2, <1>4 DEF Rows
    <3>2. rows' = [rows EXCEPT ![k] = new]
      BY <1>c
    <3> HIDE DEF new
    <3>3. rows'[k] = new /\ \A j \in Keys \ {k} : rows'[j] = rows[j]
      BY <1>2, <1>4, <3>2
    <3> QED
      BY <1>2, <1>4, <3>1, <3>2, <3>3 DEF IInv, TypeOK, RowsOK
  <2>3. JobsOK' /\ JobsGrow
    BY <1>c DEF IInv, TypeOK, JobsOK, JobsGrow
  <2>4. RowHasJob'
    BY <1>c, <2>2 DEF IInv, RowHasJob
  <2>5. FlagsAreBacked' /\ CompletedIsBacked'
    BY <1>5, <1>c DEF IInv, FlagsAreBacked, CompletedIsBacked, BackedGrows
  <2> QED
    BY <1>7, <2>1, <2>2, <2>3, <2>4, <2>5
<1> QED
  BY <1>a, <1>b, <1>c DEF DrainBegin, store

(* The clock and the operator: the two actions from outside that change a job. *)
LEMMA JobUpdateKeeps ==
    ASSUME IInv, NEW k \in Keys, NEW new \in Jobs, jobs' = [jobs EXCEPT ![k] = new],
           jobs[k].status # "none", UNCHANGED <<disk, arrived, writing, rows, remote, memory, th>>,
           new.flags \cap Published \subseteq backed[k],
           new.status = "completed" => jobs[k].status = "completed",
           cmd' \in {cmd, NoCmd}, WorldOK'
    PROVE  IInv'
<1>1. UNCHANGED <<disk, arrived, writing, rows, remote, claims, queued, pending, soft, cooling, th>>
  BY DEF memory
<1>2. /\ JobsOK' /\ JobsGrow /\ BackedGrows /\ RemoteGrows /\ DiskKeeps /\ NeverLost'
      /\ RowHasJob' /\ FlagsAreBacked' /\ CompletedIsBacked'
  <2>1. \A j \in Keys : rows'[j].queued => rows[j].queued
    BY <1>1
  <2> QED
    BY <1>1, <2>1, JobKeeps
<1>3. TypeOK'
  BY <1>1, <1>2 DEF IInv, TypeOK, DiskOK, RowsOK, RemoteOK, MemoryOK, ThreadsOK
<1>4. \A u \in Threads : ThreadInv(u)'
  BY <1>1, <1>2, OthersKeep
<1>5. CmdIsBacked'
  BY <1>2, CmdKeeps
<1> QED
  BY <1>2, <1>3, <1>4, <1>5 DEF IInv

LEMMA BookingFallsDueKeeps ==
    ASSUME IInv, NEW k \in Keys, BookingFallsDue(k)
    PROVE  IInv'
<1> DEFINE new == [jobs[k] EXCEPT !.bookAt = "due"]
<1>1. jobs[k] \in Jobs /\ jobs[k].status # "none"
  BY DEF IInv, TypeOK, JobsOK, BookingFallsDue, NoJob, Jobs
<1>2. new \in Jobs /\ new.flags = jobs[k].flags /\ new.status = jobs[k].status
  BY <1>1 DEF Jobs
<1>3. jobs' = [jobs EXCEPT ![k] = new]
  BY DEF BookingFallsDue
<1> HIDE DEF new
<1>4. WorldOK' /\ UNCHANGED <<arrived, writing, cmd>>
  BY DEF IInv, TypeOK, WorldOK, BookingFallsDue, world
<1>5. new.flags \cap Published \subseteq backed[k]
  BY <1>2 DEF IInv, FlagsAreBacked
<1> QED
  BY <1>1, <1>2, <1>3, <1>4, <1>5, JobUpdateKeeps DEF BookingFallsDue

LEMMA RetryReadsKeeps ==
    ASSUME IInv, NEW k \in Keys, RetryReads(k)
    PROVE  IInv'
<1> DEFINE new == [key |-> k, flags |-> jobs[k].flags]
<1>1. jobs[k] \in Jobs /\ jobs[k].status # "none"
  BY DEF IInv, TypeOK, JobsOK, RetryReads, NoJob
<1>2. cmd' = new /\ UNCHANGED <<disk, arrived, writing, online, phase, jobs, rows, remote, claims,
                                queued, pending, soft, cooling, th, budget>>
  BY DEF RetryReads, store, memory
<1>3. new \in [key : Keys, flags : SUBSET Steps] /\ new.key = k /\ new.flags = jobs[k].flags
  BY <1>1 DEF Jobs
<1> HIDE DEF new
<1>4. TypeOK'
  BY <1>2, <1>3
     DEF IInv, TypeOK, DiskOK, JobsOK, RowsOK, RemoteOK, MemoryOK, ThreadsOK, WorldOK
<1>5. JobsGrow /\ RemoteGrows /\ DiskKeeps
  BY <1>2, DiskGrows DEF JobsGrow, RemoteGrows
<1>6. BackedGrows
  BY <1>5, BackingGrows
<1>7. CmdIsBacked'
  BY <1>1, <1>2, <1>3, <1>6 DEF IInv, FlagsAreBacked, CmdIsBacked, BackedGrows
<1>8. RowHasJob' /\ FlagsAreBacked' /\ CompletedIsBacked' /\ NeverLost'
  BY <1>2, <1>6 DEF IInv, RowHasJob, FlagsAreBacked, CompletedIsBacked, BackedGrows, NeverLost
<1>9. \A u \in Threads : ThreadInv(u)'
  BY <1>2, <1>5, OthersKeep
<1> QED
  BY <1>4, <1>7, <1>8, <1>9 DEF IInv

LEMMA RetryBookingKeeps ==
    ASSUME IInv, RetryBooking
    PROVE  IInv'
<1> DEFINE k == cmd.key
           new == [jobs[k] EXCEPT !.flags = cmd.flags \ {"booking"}, !.status = "processing",
                                  !.bookAt = "due"]
<1>1. k \in Keys /\ cmd.flags \subseteq Steps /\ cmd.flags \cap Published \subseteq backed[k]
      /\ jobs[k].status # "none"
  BY DEF IInv, TypeOK, WorldOK, CmdIsBacked, RetryBooking
<1>2. jobs[k] \in Jobs
  BY <1>1 DEF IInv, TypeOK, JobsOK, NoJob
<1>3. new \in Jobs /\ new.flags = cmd.flags \ {"booking"} /\ new.status = "processing"
  BY <1>1, <1>2 DEF Jobs
<1>4. jobs' = [jobs EXCEPT ![k] = new]
  BY DEF RetryBooking
<1>5. UNCHANGED <<disk, arrived, writing, rows, remote, memory, th>> /\ cmd' = NoCmd
  BY DEF RetryBooking
<1>6. WorldOK'
  BY DEF IInv, TypeOK, WorldOK, RetryBooking, Spend
<1> HIDE DEF new, k
<1>7. new.flags \cap Published \subseteq backed[k]
  BY <1>1, <1>3
<1> QED
  BY <1>1, <1>3, <1>4, <1>5, <1>6, <1>7, JobUpdateKeeps

LEMMA AppearKeeps ==
    ASSUME IInv, NEW f \in Files, Appear(f)
    PROVE  IInv'
<1>1. Watched(f) \in Paths /\ Watched(f).file = f
  BY DEF Watched, Paths
<1>2. /\ UNCHANGED <<jobs, rows, remote, claims, soft, cooling, online, phase, th, cmd, budget>>
      /\ arrived' = arrived \cup {f} /\ disk' = disk \cup {Watched(f)}
      /\ writing' \subseteq writing \cup {f}
      /\ queued' \subseteq queued \cup {Watched(f)} /\ pending' \subseteq pending \cup {Watched(f)}
  BY DEF Appear, store, queue, Submit
<1>3. TypeOK'
  BY <1>1, <1>2
     DEF IInv, TypeOK, DiskOK, JobsOK, RowsOK, RemoteOK, MemoryOK, ThreadsOK, WorldOK
<1>4. DiskKeeps
  BY <1>2, DiskGrows
<1>5. JobsGrow /\ RemoteGrows
  BY <1>2 DEF JobsGrow, RemoteGrows
<1>6. \A u \in Threads : ThreadInv(u)'
  BY <1>2, <1>4, <1>5, OthersKeep
<1>7. NeverLost'
  BY <1>1, <1>2 DEF IInv, NeverLost
<1>8. BackedGrows
  BY <1>5, BackingGrows
<1>9. RowHasJob' /\ FlagsAreBacked' /\ CompletedIsBacked' /\ CmdIsBacked'
  BY <1>2, <1>5, <1>8, CmdKeeps DEF IInv, RowHasJob, FlagsAreBacked, CompletedIsBacked, BackedGrows
<1> QED
  BY <1>3, <1>6, <1>7, <1>9 DEF IInv

(* Spending from the budget keeps its type. *)
LEMMA SpendType ==
    ASSUME WorldOK, NEW bound, Spend("outages", bound)
    PROVE  budget' \in [crashes : Nat, faults : Nat, outages : Nat, cmds : Nat]
BY DEF Spend, WorldOK

(* The actions that only put paths in the queue, or end an outage, a cooldown
   or a recording. *)
LEMMA QuietActions ==
    ASSUME IInv,
           \/ \E k \in Keys : BookingPoll(k)
           \/ \E f \in Files : Finish(f)
           \/ \E p \in cooling : CooldownEnds(p)
           \/ GoesOffline \/ ComesOnline \/ Scan
    PROVE  IInv'
<1> USE DEF IInv, TypeOK
<1>1. UNCHANGED <<th, jobs, rows, remote, arrived, disk, cmd>>
  BY DEF BookingPoll, Finish, CooldownEnds, GoesOffline, ComesOnline, Scan, world, store
<1>2. DiskKeeps
  BY <1>1, DiskGrows
<1>3. ASSUME NEW ps \in SUBSET Paths, Submit(ps)
      PROVE  queued' \subseteq Paths /\ pending' \subseteq Paths
  BY <1>3 DEF Submit, MemoryOK
<1>4. MemoryOK'
  <2>1. ASSUME NEW k \in Keys, BookingPoll(k) PROVE MemoryOK'
    <3>1. {jobs[k].path} \in SUBSET Paths
      BY <2>1 DEF BookingPoll, JobsOK, Jobs, NoJob
    <3> QED
      BY <1>3, <2>1, <3>1 DEF BookingPoll, MemoryOK
  <2>2. ASSUME NEW f \in Files, Finish(f) PROVE MemoryOK'
    <3>1. {Watched(f)} \in SUBSET Paths
      BY DEF Watched, Paths
    <3> QED
      BY <1>3, <2>2, <3>1 DEF Finish, MemoryOK, queue
  <2>3. ASSUME NEW p \in cooling, CooldownEnds(p) PROVE MemoryOK'
    BY <2>3 DEF CooldownEnds, MemoryOK, queue
  <2>4. CASE GoesOffline \/ ComesOnline
    BY <2>4 DEF GoesOffline, ComesOnline, MemoryOK, memory
  <2>5. CASE Scan
    <3>1. {p \in disk : p.dir \in {"incoming", "processing"}} \in SUBSET Paths
      BY DEF DiskOK
    <3> QED
      BY <1>3, <2>5, <3>1 DEF Scan, MemoryOK
  <2> QED
    BY <2>1, <2>2, <2>3, <2>4, <2>5
<1>5. DiskOK'
  BY <1>1 DEF DiskOK, BookingPoll, Finish, CooldownEnds, GoesOffline, ComesOnline, Scan, world
<1>6. WorldOK'
  <2>1. CASE GoesOffline
    BY <2>1, SpendType DEF WorldOK, GoesOffline
  <2>2. CASE ComesOnline
    BY <2>2 DEF WorldOK, ComesOnline, store, memory
  <2>3. CASE Scan
    BY <2>3 DEF WorldOK, Scan, store
  <2>4. CASE \/ \E k \in Keys : BookingPoll(k)
             \/ \E f \in Files : Finish(f)
             \/ \E p \in cooling : CooldownEnds(p)
    BY <2>4 DEF WorldOK, BookingPoll, Finish, CooldownEnds, world
  <2> QED
    BY <2>1, <2>2, <2>3, <2>4
<1> QED
  BY <1>1, <1>2, <1>4, <1>5, <1>6, OutsideKeeps

LEMMA CrashKeeps ==
    ASSUME IInv, Crash
    PROVE  IInv'
<1>1. UNCHANGED <<disk, arrived, writing, online, jobs, rows, remote, cmd>>
  BY DEF Crash, store
<1>2. Idle \in Locals /\ Idle.pc = "idle"
  BY DEF Idle, Locals, PCs, OptPaths
<1>3. ThreadsOK' /\ \A t \in Threads : th'[t] = Idle
  BY <1>2 DEF Crash, ThreadsOK
<1>4. MemoryOK'
  BY DEF Crash, MemoryOK
<1>5. WorldOK'
  BY DEF IInv, TypeOK, WorldOK, Crash, Spend
<1>6. TypeOK'
  BY <1>1, <1>3, <1>4, <1>5 DEF IInv, TypeOK, DiskOK, JobsOK, RowsOK, RemoteOK
<1>7. \A t \in Threads : ThreadInv(t)'
  BY <1>2, <1>3, AtRest
<1>8. DiskKeeps
  BY <1>1, DiskGrows
<1> QED
  BY <1>1, <1>6, <1>7, <1>8, Quiet DEF IInv

(* Flagging jobs as stale takes neither a job nor a flag away. *)
LEMMA RestartKeeps ==
    ASSUME IInv, Restart
    PROVE  IInv'
<1>1. UNCHANGED <<disk, arrived, writing, online, rows, remote, claims, queued, pending,
                  soft, cooling, th, cmd, budget>> /\ phase' = "booting"
  BY DEF Restart, memory
<1>2. PICK stale \in SUBSET {k \in Keys : jobs[k].status = "processing"} :
         jobs' = [k \in Keys |-> IF k \in stale THEN [jobs[k] EXCEPT !.status = "stale"]
                                 ELSE jobs[k]]
  BY DEF Restart
<1>3. jobs \in [Keys -> {NoJob} \cup Jobs]
  BY DEF IInv, TypeOK, JobsOK
<1>4. ASSUME NEW k \in Keys
      PROVE  /\ jobs'[k] \in {NoJob} \cup Jobs /\ jobs'[k].flags = jobs[k].flags
             /\ jobs[k].status # "none" => jobs'[k].status # "none"
             /\ jobs'[k].status = "completed" => jobs[k].status = "completed"
  <2>1. CASE k \in stale
    <3>1. jobs'[k] = [jobs[k] EXCEPT !.status = "stale"] /\ jobs[k].status = "processing"
      BY <1>2, <2>1
    <3>2. jobs[k] \in Jobs
      BY <1>3, <3>1 DEF NoJob
    <3> QED
      BY <3>1, <3>2 DEF Jobs
  <2>2. CASE k \notin stale
    BY <1>2, <1>3, <2>2
  <2> QED
    BY <2>1, <2>2
<1>5. JobsOK'
  <2>1. jobs' = [k \in Keys |-> jobs'[k]]
    BY <1>2
  <2> QED
    BY <1>4, <2>1 DEF JobsOK
<1>6. JobsGrow /\ RemoteGrows /\ DiskKeeps
  BY <1>1, <1>4, DiskGrows DEF JobsGrow, RemoteGrows
<1>7. TypeOK'
  BY <1>1, <1>5 DEF IInv, TypeOK, DiskOK, RowsOK, RemoteOK, MemoryOK, ThreadsOK, WorldOK
<1>8. \A u \in Threads : ThreadInv(u)'
  BY <1>1, <1>6, OthersKeep
<1>9. NeverLost' /\ RowHasJob'
  BY <1>1, <1>4 DEF IInv, NeverLost, RowHasJob
<1>10. BackedGrows
  BY <1>6, BackingGrows
<1>11. FlagsAreBacked' /\ CompletedIsBacked' /\ CmdIsBacked'
  BY <1>1, <1>4, <1>6, <1>10, CmdKeeps DEF IInv, FlagsAreBacked, CompletedIsBacked, BackedGrows
<1> QED
  BY <1>7, <1>8, <1>9, <1>11 DEF IInv

(***************************************************************************)
(* The order in which the services are told                                *)
(***************************************************************************)

(* The services are told by steps that have come to the step in question. *)
LEMMA TellsAt ==
    ASSUME NEW t \in Threads, Step(t)
    PROVE  \/ UNCHANGED remote
           \/ \E s \in RemoteSteps : At(t, s) /\ Told(t, s)
<1>1. CASE Ready(t) \/ MoveIn(t) \/ Reclaim(t) \/ Insert(t) \/ Resume(t) \/ Adopt(t) \/ Rebind(t)
           \/ Reopen(t) \/ Body(t) \/ Gate(t) \/ RenameUtc(t) \/ RecordUtc(t)
  BY <1>1 DEF Ready, MoveIn, Reclaim, Insert, Resume, Adopt, Rebind, Reopen, Body, Gate,
     RenameUtc, RecordUtc
<1>2. CASE Remux(t) \/ RecordRemux(t) \/ RemoveSource(t) \/ Preview(t) \/ MoveBad(t)
           \/ RecordBad(t) \/ Record(t) \/ BookingUnmatched(t) \/ BookingRaises(t)
           \/ DeferJob(t) \/ DeferRow(t)
  BY <1>2 DEF Remux, RecordRemux, RemoveSource, Preview, MoveBad, RecordBad, Record,
     BookingUnmatched, BookingRaises, DeferJob, DeferRow
<1>3. CASE Finalize(t) \/ RecordFinal(t) \/ DeleteRow(t) \/ NothingLeft(t) \/ MoveFailed(t)
           \/ RecordFailed(t) \/ MoveOrphan(t) \/ Exit(t) \/ Done(t)
  BY <1>3 DEF Finalize, RecordFinal, DeleteRow, NothingLeft, MoveFailed, RecordFailed, MoveOrphan,
     Exit, Done
<1>4. \A s \in RemoteSteps : CallRaises(t, s) => UNCHANGED remote
  BY DEF CallRaises
<1>5. \A s \in RemoteSteps : Call(t, s) \/ Deferred(t, s) =>
          At(t, s) /\ (Told(t, s) \/ UNCHANGED remote)
  BY DEF Call, Deferred
<1>6. BookingMatched(t) => At(t, "booking") /\ (Told(t, "booking") \/ UNCHANGED remote)
  BY DEF BookingMatched
<1>7. {"original", "previewUp", "row"} \subseteq RemoteSteps /\ "booking" \in RemoteSteps
  BY DEF RemoteSteps
<1> QED
  BY <1>1, <1>2, <1>3, <1>4, <1>5, <1>6, <1>7 DEF Step

(* The flags a thread has behind it when it calls are backed. *)
LEMMA CallsInOrder ==
    ASSUME IInv, NEW t \in Threads, NEW s \in RemoteSteps, At(t, s), Told(t, s)
    PROVE  /\ \A r \in Ledger!After[s] : Has(th[t].key, r)
           /\ remote' = [remote EXCEPT ![s] = @ \cup {Object(t)}] /\ Object(t).key = th[t].key
<1>1. th[t].pc = "work" /\ Before(s, th[t].path.file) \subseteq th[t].flags
  BY DEF At
<1>2. th[t].pc \in JobPCs \ {"reopen", "rebind", "body"} /\ th[t].pc \in JobPCs
  BY <1>1 DEF JobPCs, Inside, PCs
<1>3. th[t].key \in Keys /\ th[t].flags \cap Published \subseteq backed[th[t].key]
  BY <1>2 DEF IInv, ThreadInv, HoldsKey, HoldsFlags
<1>4. Ledger!After[s] \subseteq Published \cap Before(s, th[t].path.file)
  BY DEF Ledger!After, Published, Before, RemoteSteps
<1>5. \A r \in Ledger!After[s] : Has(th[t].key, r)
  BY <1>1, <1>3, <1>4 DEF backed
<1> QED
  BY <1>5 DEF Told, Object

LEMMA OrderKept ==
    ASSUME IInv, ToldInOrder, [Next]_vars
    PROVE  ToldInOrder'
<1>1. CASE UNCHANGED remote
  BY <1>1 DEF ToldInOrder
<1>2. ASSUME NEW t \in Threads, NEW s \in RemoteSteps, At(t, s), Told(t, s) PROVE ToldInOrder'
  <2>1. /\ \A r \in Ledger!After[s] : Has(th[t].key, r)
        /\ remote' = [remote EXCEPT ![s] = @ \cup {Object(t)}] /\ Object(t).key = th[t].key
    BY <1>2, CallsInOrder
  <2>2. /\ remote'[s] = remote[s] \cup {Object(t)}
        /\ \A r \in RemoteSteps : remote[r] \subseteq remote'[r] /\ (r # s => remote'[r] = remote[r])
    BY <2>1 DEF IInv, TypeOK, RemoteOK
  <2>3. \A r \in RemoteSteps : Ledger!After[r] \subseteq RemoteSteps
    BY DEF Ledger!After, RemoteSteps
  <2>4. ASSUME NEW r \in RemoteSteps, NEW o \in remote'[r], NEW q \in Ledger!After[r]
        PROVE  \E u \in remote'[q] : u.key = o.key
    <3>1. CASE o \in remote[r]
      BY <2>2, <2>3, <2>4, <3>1 DEF ToldInOrder
    <3>2. CASE o \notin remote[r]
      <4>1. r = s /\ o.key = th[t].key
        BY <2>1, <2>2, <2>4, <3>2
      <4>2. PICK u \in remote[q] : u.key = o.key
        BY <2>1, <2>4, <4>1 DEF Has
      <4> QED
        BY <2>2, <2>3, <2>4, <4>2
    <3> QED
      BY <3>1, <3>2
  <2> QED
    BY <2>4 DEF ToldInOrder
<1>3. ASSUME ~ \E t \in Threads : Step(t) PROVE UNCHANGED remote
  BY <1>3 DEF Next, vars, Take, DrainBegin, DrainPick, BookingFallsDue, BookingPoll, RetryReads,
     RetryBooking, Appear, Finish, CooldownEnds, GoesOffline, ComesOnline, Crash, Restart, Scan
<1> QED
  BY <1>1, <1>2, <1>3, TellsAt

(***************************************************************************)
(* The theorems                                                            *)
(***************************************************************************)

LEMMA InitHolds == Init => IInv
<1> SUFFICES ASSUME Init PROVE IInv
  OBVIOUS
<1> USE DEF Init
<1>1. Idle \in Locals /\ Idle.pc = "idle" /\ NoRow \in Rows /\ NoRow.queued = FALSE
      /\ NoJob.status = "none" /\ NoJob.flags = {}
  BY DEF Idle, Locals, PCs, OptPaths, NoRow, Rows, NoJob
<1>2. DiskOK /\ JobsOK /\ RowsOK
  BY <1>1 DEF DiskOK, JobsOK, RowsOK
<1>3. RemoteOK /\ MemoryOK /\ ThreadsOK
  BY <1>1 DEF RemoteOK, MemoryOK, ThreadsOK
<1>4. WorldOK
  BY DEF WorldOK
<1>5. NeverLost /\ RowHasJob /\ FlagsAreBacked /\ CompletedIsBacked /\ CmdIsBacked
  BY <1>1 DEF NeverLost, RowHasJob, FlagsAreBacked, CompletedIsBacked, CmdIsBacked
<1>6. \A t \in Threads : ThreadInv(t)
  BY <1>1 DEF ThreadInv, HoldsPaths, HoldsKey, HasCopy, HoldsFlags, JobPCs, Inside
<1> QED
  BY <1>2, <1>3, <1>4, <1>5, <1>6 DEF IInv, TypeOK

LEMMA NextKeeps == IInv /\ [Next]_vars => IInv'
<1> SUFFICES ASSUME IInv, [Next]_vars PROVE IInv'
  OBVIOUS
<1>1. ASSUME NEW t \in Threads, Step(t) PROVE IInv'
  BY <1>1, StepKeeps
<1>2. ASSUME NEW t \in Threads, NEW p \in queued, Take(t, p) PROVE IInv'
  BY <1>2, TakeKeeps
<1>3. CASE DrainBegin
  BY <1>3, DrainBeginKeeps
<1>4. ASSUME NEW k \in Keys, DrainPick(k) PROVE IInv'
  BY <1>4, DrainPickKeeps
<1>5. ASSUME NEW k \in Keys, BookingFallsDue(k) PROVE IInv'
  BY <1>5, BookingFallsDueKeeps
<1>6. CASE RetryBooking
  BY <1>6, RetryBookingKeeps
<1>12. ASSUME NEW k \in Keys, RetryReads(k) PROVE IInv'
  BY <1>12, RetryReadsKeeps
<1>7. ASSUME NEW f \in Files, Appear(f) PROVE IInv'
  BY <1>7, AppearKeeps
<1>8. CASE \/ \E k \in Keys : BookingPoll(k)
           \/ \E f \in Files : Finish(f)
           \/ \E p \in cooling : CooldownEnds(p)
           \/ GoesOffline \/ ComesOnline \/ Scan
  BY <1>8, QuietActions
<1>9. CASE Crash
  BY <1>9, CrashKeeps
<1>10. CASE Restart
  BY <1>10, RestartKeeps
<1>11. CASE UNCHANGED vars
  <2>1. UNCHANGED <<th, jobs, rows, remote, arrived, disk, writing, claims, queued, pending,
                    soft, cooling, online, phase, cmd, budget>>
    BY <1>11 DEF vars
  <2>2. DiskOK' /\ MemoryOK' /\ WorldOK'
    BY <2>1 DEF IInv, TypeOK, DiskOK, MemoryOK, WorldOK
  <2> QED
    BY <2>1, <2>2, DiskGrows, OutsideKeeps
<1> QED
  BY <1>1, <1>2, <1>3, <1>4, <1>5, <1>6, <1>7, <1>8, <1>9, <1>10, <1>11, <1>12 DEF Next

(* The invariant: what every thread holds is backed by the store, the remote
   side and the disk, in every reachable state. *)
THEOREM Invariant == Spec => []IInv
BY InitHolds, NextKeeps, PTL DEF Spec

(* Every variable of the pipeline keeps its type, whatever the threads do to
   it: in particular every job and every open queue row names a path. *)
THEOREM TypeCorrect == Spec => []TypeOK
<1>1. IInv => TypeOK
  BY DEF IInv
<1> QED
  BY <1>1, Invariant, PTL

(* No interleaving of the threads, and no crash, deletes the last copy of a
   recording: process_clip and the remux only unlink what they have a copy of. *)
THEOREM NoRecordingLost == Spec => []NeverLost
<1>1. IInv => NeverLost
  BY DEF IInv
<1> QED
  BY <1>1, Invariant, PTL

(* A job is only ever recorded as completed when its original and its preview
   were uploaded and its row was written, for that job: _defer_remote_sync,
   resumed and repeated work included. *)
THEOREM Publication == Spec => []CompletedIsPublished
<1>1. IInv => CompletedIsPublished
  BY BackedNames DEF IInv, CompletedIsBacked, CompletedIsPublished, Published, Has
<1> QED
  BY <1>1, Invariant, PTL

(* S3, the database and the booking API hear of a clip in this order: both
   objects, the row, the booking.  It holds of every recording, remuxed ones
   and twins included, for any number of threads, crashes and lost flags. *)
THEOREM InOrder == Spec => []ToldInOrder
<1>1. Init => ToldInOrder
  BY DEF Init, ToldInOrder
<1>2. IInv /\ ToldInOrder /\ [Next]_vars => ToldInOrder'
  BY OrderKept
<1> QED
  BY <1>1, <1>2, Invariant, PTL DEF Spec
=============================================================================
