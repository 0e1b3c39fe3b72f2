---------------------------- MODULE ClipPipeline ----------------------------
(***************************************************************************)
(* The worker's clip pipeline: worker/processor.py (process_clip), with    *)
(* the job store (job_store.py), the watcher and queue (watcher.py) and    *)
(* the threads main.py runs it on: the workers, which take paths from the  *)
(* queue, and the drain, which retries deferred remote work.               *)
(*                                                                         *)
(* A step of a thread is the code between two points where another thread, *)
(* or a crash, can be seen: one SQLite transaction, one move of a file,    *)
(* one critical section on the set of claimed paths, one remote call.      *)
(***************************************************************************)
EXTENDS Integers, Sequences, FiniteSets

CONSTANTS
    Files,          \* the recordings that may arrive
    Contents,       \* what a content fingerprint can tell apart
    ContentOf,      \* the content of each recording
    MkvFiles,       \* recordings that are remuxed to mp4
    GrowingFiles,   \* recordings still being written when they appear
    LargeFiles,     \* at or above LONG_CLIP_BYTES_THRESHOLD
    DeferPreview,   \* LARGE_PREVIEW_MODE = defer_after_original
    Workers,        \* the worker threads
    Drain,          \* the remote sync drain thread
    None,           \* no path, no key
    MaxSoft,        \* FFMPEG_DECODE_MAX_SOFT_FAILS
    MaxBooking,     \* UNMATCHED_BOOKING_MAX_ATTEMPTS
    MaxDrain,       \* REMOTE_SYNC_MAX_TOTAL_ATTEMPTS (0: no limit)
    MayExpire,      \* whether REMOTE_SYNC_MAX_AGE_SECONDS may pass
    FlagStale,      \* STALE_JOB_POLICY = flag
    MaxCrashes,     \* bound: restarts of the worker process
    MaxFaults,      \* bound: failures of ffmpeg, of a move, of a remote call
    MaxOutages,     \* bound: times the network goes away
    MaxRetryCmds    \* bound: uses of jobs_cli.py retry-booking

Threads == Workers \cup {Drain}

(* A path: whose recording, in which folder, under which basename.  The
   remuxed copies are "mp4" and, when that name is taken, "mp4_2". *)
Remuxed == {"mp4", "mp4_2"}
Paths == [file : Files, dir : {"incoming", "processing", "processed", "failed"},
          name : {"local", "utc"} \cup Remuxed]
In(p, dir) == [p EXCEPT !.dir = dir]
As(p, name) == [p EXCEPT !.name = name]

(* unique_destination: the basename p has, unless the folder already holds
   it.  Only copies of one recording can collide. *)
Free(p, there) == IF p \in there THEN As(p, "mp4_2") ELSE p

(* Remuxing changes the bytes, so the copy has a fingerprint of its own. *)
Keys == [content : Contents, remuxed : BOOLEAN]
KeyOf(p) == [content |-> ContentOf[p.file], remuxed |-> p.name \in Remuxed]

ASSUME PipelineAssumption ==
    /\ MkvFiles \cup GrowingFiles \cup LargeFiles \subseteq Files
    /\ ContentOf \in [Files -> Contents]
    /\ Drain \notin Workers
    /\ None \notin Paths /\ None \notin Keys
    /\ {DeferPreview, MayExpire, FlagStale} \subseteq BOOLEAN
    /\ {MaxSoft, MaxBooking} \subseteq Nat \ {0}
    /\ {MaxDrain, MaxCrashes, MaxFaults, MaxOutages, MaxRetryCmds} \subseteq Nat

LocalSteps == {"renamed", "preview", "final"}
RemoteSteps == {"original", "previewUp", "row", "booking"}
Steps == LocalSteps \cup RemoteSteps

(* Mutant: finalize forgets the upload of the preview. *)
Before_FinalEarly(s, f) ==
    LET deferred == DeferPreview /\ f \in LargeFiles
    IN  CASE s = "preview"   -> {"renamed"} \cup (IF deferred THEN {"original"} ELSE {})
          [] s = "original"  -> {"renamed"} \cup (IF deferred THEN {} ELSE {"preview"})
          [] s = "previewUp" -> {"renamed", "preview", "original"}
          [] s = "row"       -> {"renamed", "preview", "original"}
          [] s = "booking"   -> {"renamed", "preview", "original", "row"}
          [] s = "final"     -> {"renamed", "preview", "original", "row", "booking"}
          [] OTHER           -> {}

(* Mutant: the row is written without waiting for the original. *)
Before_RowFirst(s, f) ==
    CASE s = "preview"   -> {"renamed"}
      [] s = "original"  -> {"renamed", "preview"}
      [] s = "previewUp" -> {"renamed", "preview", "original"}
      [] s = "row"       -> {"renamed", "preview"}
      [] s = "booking"   -> {"renamed", "preview", "original", "previewUp", "row"}
      [] s = "final"     -> Steps \ {"final"}
      [] OTHER           -> {}

(* The steps the code has behind it when it comes to step s of file f. *)
Before(s, f) ==
    LET deferred == DeferPreview /\ f \in LargeFiles
    IN  CASE s = "preview"   -> {"renamed"} \cup (IF deferred THEN {"original"} ELSE {})
          [] s = "original"  -> {"renamed"} \cup (IF deferred THEN {} ELSE {"preview"})
          [] s = "previewUp" -> {"renamed", "preview", "original"}
          [] s = "row"       -> {"renamed", "preview", "original", "previewUp"}
          [] s = "booking"   -> {"renamed", "preview", "original", "previewUp", "row"}
          [] s = "final"     -> Steps \ {"final"}
          [] OTHER           -> {}

NoJob == [status |-> "none", flags |-> {}, path |-> None, tries |-> 0, bookAt |-> "never"]
NoRow == [queued |-> FALSE, path |-> None, drained |-> 0]
NoCmd == [key |-> None, flags |-> {}]
NewJob(p) == [NoJob EXCEPT !.status = "processing", !.path = p]

PCs == {"idle", "ready", "move", "reclaim", "insert", "resume", "adopt", "rebind", "reopen",
        "body", "gate", "utc", "utc_rec", "remux", "remux_rec", "remux_rm", "work", "record",
        "defer", "defer_row", "bad", "bad_rec", "fail", "fail_rec", "orphan",
        "final_rec", "final_del", "begin", "exit", "done"}

Idle == [pc |-> "idle", sub |-> None, orig |-> None, path |-> None, src |-> None,
         key |-> None, flags |-> {}, step |-> "none", started |-> FALSE, slot |-> FALSE]

VARIABLES
    disk,       \* the paths that exist
    arrived,    \* recordings that have appeared in the incoming folder
    writing,    \* recordings still being written or locked
    jobs,       \* clip_jobs, by idempotency key
    rows,       \* remote_sync_queue, by the key of the row's job
    remote,     \* what S3, Supabase and the booking API have been told, by step
    claims,     \* _ACTIVE_PATHS
    queued,     \* paths waiting in ClipJobQueue._queue
    pending,    \* ClipJobQueue._pending
    soft,       \* _FFMPEG_SOFT_FAILS
    cooling,    \* _RECENT_FAILURES within the cooldown
    online,     \* ConnectivityMonitor.state is not OFFLINE
    phase,      \* the worker process: up, down, or booting (threads run, scans to come)
    th,         \* the threads: program counter and locals of process_clip
    cmd,        \* the retry-booking command under way: its clip, and the flags it read
    budget      \* crashes, faults, outages and retry commands so far

store == <<jobs, rows>>
queue == <<queued, pending>>
memory == <<claims, queued, pending, soft, cooling>>
world == <<arrived, writing, online, phase, cmd>>
vars == <<disk, arrived, writing, jobs, rows, remote, claims, queued, pending, soft,
          cooling, online, phase, th, cmd, budget>>

Init ==
    /\ disk = {} /\ arrived = {} /\ writing = {}
    /\ jobs = [k \in Keys |-> NoJob]
    /\ rows = [k \in Keys |-> NoRow]
    /\ remote = [s \in RemoteSteps |-> {}]
    /\ claims = {} /\ queued = {} /\ pending = {} /\ cooling = {}
    /\ soft = [p \in Paths |-> 0]
    /\ online = TRUE /\ phase = "booting" /\ cmd = NoCmd
    /\ th = [t \in Threads |-> Idle]
    /\ budget = [crashes |-> 0, faults |-> 0, outages |-> 0, cmds |-> 0]

Spend(what, bound) == budget[what] < bound /\ budget' = [budget EXCEPT ![what] = @ + 1]
Fault == Spend("faults", MaxFaults)
Go(t, pc) == th' = [th EXCEPT ![t].pc = pc]

(* processing_path is UNIQUE: a transaction that gives job k the path of
   another job raises, and changes nothing. *)
Taken(p, k) == \E j \in Keys \ {k} : jobs[j].path = p

(***************************************************************************)
(* Arrival: files, file events, the queue                                  *)
(***************************************************************************)

(* _maybe_submit and ClipJobQueue.submit: a path that is claimed or pending
   is dropped, and nothing remembers that it was. *)
Submit(ps) ==
    LET new == {p \in ps : p \notin claims /\ p \notin pending}
    IN  queued' = queued \cup new /\ pending' = pending \cup new

Watched(f) == [file |-> f, dir |-> "incoming", name |-> "local"]

(* A recording appears; the observer, when it runs, reports it. *)
Appear(f) ==
    /\ f \notin arrived
    /\ arrived' = arrived \cup {f}
    /\ disk' = disk \cup {Watched(f)}
    /\ writing' = IF f \in GrowingFiles THEN writing \cup {f} ELSE writing
    /\ IF phase = "down" THEN UNCHANGED queue ELSE Submit({Watched(f)})
    /\ UNCHANGED <<store, remote, claims, soft, cooling, online, phase, th, cmd, budget>>

(* The last write to a recording, and the last event about it. *)
Finish(f) ==
    /\ f \in writing
    /\ writing' = writing \ {f}
    /\ IF phase # "down" /\ Watched(f) \in disk THEN Submit({Watched(f)}) ELSE UNCHANGED queue
    /\ UNCHANGED <<disk, arrived, store, remote, claims, soft, cooling, online, phase, th, cmd, budget>>

(* ConnectivityMonitor reports the outage, and that it is over. *)
GoesOffline ==
    /\ online /\ Spend("outages", MaxOutages)
    /\ online' = FALSE
    /\ UNCHANGED <<disk, arrived, writing, store, remote, memory, phase, th, cmd>>

ComesOnline ==
    /\ ~online
    /\ online' = TRUE
    /\ UNCHANGED <<disk, arrived, writing, store, remote, memory, phase, th, cmd, budget>>

CooldownEnds(p) ==
    /\ p \in cooling
    /\ cooling' = cooling \ {p}
    /\ UNCHANGED <<disk, world, store, remote, claims, queue, soft, th, budget>>

(***************************************************************************)
(* The threads: how a path reaches process_clip, and how it leaves         *)
(***************************************************************************)

(* Mutant: process_clip does not look whether the path is in flight. *)
Enter_NotSingleFlight(t, p) ==
    IF p \in disk /\ p.dir \in {"incoming", "processing"}
    THEN /\ claims' = claims \cup {p}
         /\ th' = [th EXCEPT ![t] = [Idle EXCEPT !.pc = IF p.dir = "incoming" THEN "ready" ELSE "resume",
                                                 !.sub = p, !.orig = p, !.path = p]]
    ELSE /\ UNCHANGED claims
         /\ th' = [th EXCEPT ![t] = [Idle EXCEPT !.pc = "done", !.sub = p]]

(* Mutant: a path that is skipped is not marked done. *)
Enter_SkipForgets(t, p) ==
    IF p \in disk /\ p.dir \in {"incoming", "processing"} /\ p \notin claims
    THEN /\ claims' = claims \cup {p}
         /\ th' = [th EXCEPT ![t] = [Idle EXCEPT !.pc = IF p.dir = "incoming" THEN "ready" ELSE "resume",
                                                 !.sub = p, !.orig = p, !.path = p]]
    ELSE UNCHANGED <<claims, th>>

(* The entry checks of process_clip: the file exists, lies in one of the two
   folders, and is not in flight; then the path is claimed. *)
Enter(t, p) ==
    IF p \in disk /\ p.dir \in {"incoming", "processing"} /\ p \notin claims
    THEN /\ claims' = claims \cup {p}
         /\ th' = [th EXCEPT ![t] = [Idle EXCEPT !.pc = IF p.dir = "incoming" THEN "ready" ELSE "resume",
                                                 !.sub = p, !.orig = p, !.path = p]]
    ELSE /\ UNCHANGED claims
         /\ th' = [th EXCEPT ![t] = [Idle EXCEPT !.pc = "done", !.sub = p]]

(* worker_loop takes a path from the queue. *)
Take(t, p) ==
    /\ t \in Workers /\ th[t].pc = "idle" /\ phase # "down"
    /\ p \in queued /\ queued' = queued \ {p} /\ Enter(t, p)
    /\ UNCHANGED <<disk, world, store, remote, pending, soft, cooling, budget>>

(* The finally block of process_clip: it releases both of its paths, whether
   or not this thread is the one that claimed them. *)
Exit(t) ==
    /\ th[t].pc = "exit"
    /\ claims' = claims \ {th[t].orig, th[t].path}
    /\ th' = [th EXCEPT ![t] = [Idle EXCEPT !.pc = "done", !.sub = th[t].sub]]
    /\ UNCHANGED <<disk, world, store, remote, queue, soft, cooling, budget>>

(* mark_done; the drain has nothing to mark. *)
Done(t) ==
    /\ th[t].pc = "done"
    /\ pending' = IF t \in Workers THEN pending \ {th[t].sub} ELSE pending
    /\ th' = [th EXCEPT ![t] = Idle]
    /\ UNCHANGED <<disk, world, store, remote, claims, queued, soft, cooling, budget>>

(* The drain loop finds a due row whose file exists ... *)
DrainPick(k) ==
    /\ th[Drain].pc = "idle" /\ phase # "down" /\ online
    /\ rows[k].queued /\ rows[k].path \in disk
    /\ th' = [th EXCEPT ![Drain] = [Idle EXCEPT !.pc = "begin", !.key = k, !.sub = rows[k].path]]
    /\ UNCHANGED <<disk, world, store, remote, memory, budget>>

(* ... and then try_begin_remote_sync_drain reserves an attempt, or gives the
   job up: the row is deleted and the job failed, whatever its status is now. *)
DrainBegin ==
    /\ th[Drain].pc = "begin"
    /\ LET k == th[Drain].key
           spent == rows[k].queued /\ MaxDrain > 0 /\ rows[k].drained >= MaxDrain
       IN  \/ /\ ~rows[k].queued
              /\ th' = [th EXCEPT ![Drain] = Idle]
              /\ UNCHANGED <<store, claims>>
           \/ /\ rows[k].queued /\ (spent \/ MayExpire)
              /\ rows' = [rows EXCEPT ![k] = NoRow]
              /\ jobs' = [jobs EXCEPT ![k].status = "failed"]
              /\ th' = [th EXCEPT ![Drain] = Idle]
              /\ UNCHANGED claims
           \/ /\ rows[k].queued /\ ~spent
              /\ rows' = [rows EXCEPT ![k].drained = IF MaxDrain = 0 THEN 0 ELSE @ + 1]
              /\ Enter(Drain, th[Drain].sub)
              /\ UNCHANGED jobs
    /\ UNCHANGED <<disk, world, remote, queue, soft, cooling, budget>>

(* The wall clock reaches booking_next_attempt_at. *)
BookingFallsDue(k) ==
    /\ jobs[k].bookAt = "waiting"
    /\ jobs' = [jobs EXCEPT ![k].bookAt = "due"]
    /\ UNCHANGED <<disk, world, rows, remote, memory, th, budget>>

(* _booking_retry_poll over iter_booking_retry_paths. *)
BookingPoll(k) ==
    /\ phase # "down"
    /\ jobs[k].status \in {"processing", "pending_remote_sync"}
    /\ "row" \in jobs[k].flags /\ "booking" \notin jobs[k].flags
    /\ jobs[k].bookAt = "due" /\ jobs[k].path \in disk
    /\ Submit({jobs[k].path})
    /\ queued' # queued
    /\ UNCHANGED <<disk, world, store, remote, claims, soft, cooling, th, budget>>

(***************************************************************************)
(* process_clip, from the incoming folder to a job                         *)
(***************************************************************************)

(* Cooldown, readiness gate and stability wait, then the fingerprint and the
   job it already belongs to.  "Leave for retry" marks a recent failure. *)
Ready(t) ==
    /\ th[t].pc = "ready"
    /\ LET p == th[t].path
           k == KeyOf(p)
       IN  IF p \in cooling \/ p \notin disk
           THEN Go(t, "exit") /\ UNCHANGED cooling
           ELSE IF p.file \in writing
           THEN Go(t, "exit") /\ cooling' = cooling \cup {p}
           ELSE /\ th' = [th EXCEPT ![t].key = k,
                             ![t].pc = IF jobs[k].status \in {"completed", "processing"}
                                       THEN "exit" ELSE "move"]
                /\ UNCHANGED cooling
    /\ UNCHANGED <<disk, world, store, remote, claims, queue, soft, budget>>

(* The rename that claims the file for the processing folder. *)
MoveIn(t) ==
    /\ th[t].pc = "move"
    /\ LET p == th[t].path
           q == In(p, "processing")
       IN  \/ /\ p \in disk
              /\ disk' = (disk \ {p}) \cup {q}
              /\ th' = [th EXCEPT ![t].pc = "reclaim", ![t].path = q]
              /\ UNCHANGED budget
           \/ /\ IF p \in disk THEN Fault ELSE UNCHANGED budget
              /\ Go(t, "exit")
              /\ UNCHANGED disk
    /\ UNCHANGED <<world, store, remote, memory>>

(* The claim moves to the new path, unless someone else got there first. *)
Reclaim(t) ==
    /\ th[t].pc = "reclaim"
    /\ LET q == th[t].path
       IN  IF q \in claims \ {th[t].orig}
           THEN claims' = claims \ {th[t].orig} /\ Go(t, "exit")
           ELSE /\ claims' = (claims \ {th[t].orig}) \cup {q}
                /\ th' = [th EXCEPT ![t].pc = "insert", ![t].orig = q]
    /\ UNCHANGED <<disk, world, store, remote, queue, soft, cooling, budget>>

(* insert_after_claim; a collision leaves the file where it is. *)
Insert(t) ==
    /\ th[t].pc = "insert"
    /\ LET k == th[t].key
       IN  IF jobs[k].status = "none" /\ ~Taken(th[t].path, k)
           THEN jobs' = [jobs EXCEPT ![k] = NewJob(th[t].path)] /\ Go(t, "body")
           ELSE UNCHANGED jobs /\ Go(t, "exit")
    /\ UNCHANGED <<disk, world, rows, remote, memory, budget>>

(***************************************************************************)
(* process_clip, from the processing folder to a job                       *)
(***************************************************************************)

(* The pc after ensure_job_for_processing_file returned a job. *)
AfterEnsure(status) ==
    CASE status \in {"completed", "failed"}          -> "exit"
      [] status \in {"pending_remote_sync", "stale"} -> "reopen"
      [] OTHER                                        -> "body"

(* ensure_job_for_processing_file looks for the job by path, then for one with
   the fingerprint of the file ... *)
Resume(t) ==
    /\ th[t].pc = "resume"
    /\ LET p == th[t].path
           byPath == {k \in Keys : jobs[k].path = p}
           status == jobs[KeyOf(p)].status
       IN  \/ \E j \in byPath :
                 th' = [th EXCEPT ![t].key = j, ![t].pc = AfterEnsure(jobs[j].status)]
           \/ byPath = {} /\ p \notin disk /\ Go(t, "exit")
           \/ /\ byPath = {} /\ p \in disk
              /\ th' = [th EXCEPT ![t].key = KeyOf(p),
                           ![t].pc = CASE status = "none"      -> "adopt"
                                       [] status = "completed" -> "exit"
                                       [] OTHER                 -> "rebind"]
    /\ UNCHANGED <<disk, world, store, remote, memory, budget>>

(* When it raises, process_clip has a file and no job. *)
Orphaned(t) == th' = [th EXCEPT ![t].pc = "orphan", ![t].key = None]

(* ... inserts a recovery job when there is none, still ... *)
Adopt(t) ==
    /\ th[t].pc = "adopt"
    /\ LET k == th[t].key
           taken == Taken(th[t].path, k)
       IN  \/ /\ jobs[k].status = "none" /\ ~taken
              /\ jobs' = [jobs EXCEPT ![k] = NewJob(th[t].path)]
              /\ Go(t, "body")
           \/ /\ jobs[k].status = "none" /\ taken
              /\ Orphaned(t) /\ UNCHANGED jobs
           \/ /\ jobs[k].status # "none"
              /\ Go(t, IF jobs[k].status = "completed" THEN "exit" ELSE "rebind")
              /\ UNCHANGED jobs
    /\ UNCHANGED <<disk, world, rows, remote, memory, budget>>

(* ... or binds the job it found to this path. *)
Rebind(t) ==
    /\ th[t].pc = "rebind"
    /\ IF Taken(th[t].path, th[t].key)
       THEN Orphaned(t) /\ UNCHANGED jobs
       ELSE /\ jobs' = [jobs EXCEPT ![th[t].key].path = th[t].path]
            /\ Go(t, AfterEnsure(jobs[th[t].key].status))
    /\ UNCHANGED <<disk, world, rows, remote, memory, budget>>

(* A deferred or stale job is processed again. *)
Reopen(t) ==
    /\ th[t].pc = "reopen"
    /\ jobs' = [jobs EXCEPT ![th[t].key].status = "processing"]
    /\ Go(t, "body")
    /\ UNCHANGED <<disk, world, rows, remote, memory, budget>>

(***************************************************************************)
(* process_clip, the body                                                  *)
(***************************************************************************)

(* The job is read once: its flags and its path are used from here on ... *)
Body(t) ==
    /\ th[t].pc = "body"
    /\ LET job == jobs[th[t].key]
       IN  th' = [th EXCEPT ![t].pc = "gate", ![t].flags = job.flags, ![t].src = job.path]
    /\ UNCHANGED <<disk, world, store, remote, memory, budget>>

(* ... although a large clip first waits for the long-clip semaphore. *)
Gate(t) ==
    /\ th[t].pc = "gate"
    /\ LET large == th[t].path.file \in LargeFiles
           renamed == "renamed" \in th[t].flags
           path == IF renamed THEN th[t].src ELSE th[t].path
       IN  /\ large => \A u \in Threads : ~th[u].slot
           /\ th' = [th EXCEPT ![t].slot = large, ![t].path = path, ![t].src = None,
                        ![t].pc = IF ~renamed THEN "utc"
                                  ELSE IF path \in disk THEN "remux" ELSE "exit"]
    /\ UNCHANGED <<disk, world, store, remote, memory, budget>>

(* rename_clip_to_utc_filename; the destination is claimed before the move. *)
RenameUtc(t) ==
    /\ th[t].pc = "utc"
    /\ LET p == th[t].path
           q == As(p, "utc")
       IN  \/ /\ p.name # "local"
              /\ Go(t, "utc_rec") /\ UNCHANGED <<disk, claims, budget>>
           \/ /\ p.name = "local" /\ p \in disk
              /\ disk' = (disk \ {p}) \cup {q}
              /\ claims' = claims \cup {q}
              /\ th' = [th EXCEPT ![t].pc = "utc_rec", ![t].path = q]
              /\ UNCHANGED budget
           \/ /\ p.name = "local" /\ p \notin disk
              /\ Go(t, "exit") /\ UNCHANGED <<disk, claims, budget>>
           \/ /\ p.name = "local" /\ p \in disk
              /\ Fault
              /\ Go(t, "fail") /\ UNCHANGED <<disk, claims>>
    /\ UNCHANGED <<world, store, remote, queue, soft, cooling>>

RecordUtc(t) ==
    /\ th[t].pc = "utc_rec"
    /\ IF Taken(th[t].path, th[t].key)
       THEN Go(t, "fail") /\ UNCHANGED jobs
       ELSE /\ jobs' = [jobs EXCEPT ![th[t].key].flags = @ \cup {"renamed"},
                                    ![th[t].key].path = th[t].path]
            /\ th' = [th EXCEPT ![t].pc = "remux", ![t].flags = @ \cup {"renamed"}]
    /\ UNCHANGED <<disk, world, rows, remote, memory, budget>>

(* Mutant: every clip is remuxed, whatever its container. *)
Remux_Always(t) ==
    /\ th[t].pc = "remux"
    /\ LET p == th[t].path
           q == Free(As(p, "mp4"), disk)
       IN  IF p.name \in Remuxed
           THEN Go(t, "work") /\ UNCHANGED disk
           ELSE /\ p \in disk
                /\ disk' = disk \cup {q}
                /\ th' = [th EXCEPT ![t].pc = "remux_rec", ![t].src = p, ![t].path = q]
    /\ UNCHANGED <<world, store, remote, memory, budget>>

(* Mutant: a failed remux unlinks its input, not its output. *)
Remux_UnlinksInput(t) ==
    /\ th[t].pc = "remux" /\ th[t].path \in disk
    /\ th[t].path.file \in MkvFiles /\ th[t].path.name \notin Remuxed
    /\ Fault
    /\ disk' = disk \ {th[t].path}
    /\ Go(t, "fail")
    /\ UNCHANGED <<world, store, remote, memory>>

(* remux_to_mp4_with_retries into a fresh name, which nothing claims. *)
Remux(t) ==
    /\ th[t].pc = "remux"
    /\ LET p == th[t].path
           needed == p.file \in MkvFiles /\ p.name \notin Remuxed
       IN  \/ /\ ~needed
              /\ Go(t, "work") /\ UNCHANGED <<disk, budget>>
           \/ /\ needed /\ p \in disk
              /\ LET q == Free(As(p, "mp4"), disk)
                 IN  /\ disk' = disk \cup {q}
                     /\ th' = [th EXCEPT ![t].pc = "remux_rec", ![t].src = p, ![t].path = q]
              /\ UNCHANGED budget
           \/ /\ needed
              /\ IF p \in disk THEN Fault ELSE UNCHANGED budget
              /\ Go(t, "fail") /\ UNCHANGED disk
    /\ UNCHANGED <<world, store, remote, memory>>

RecordRemux(t) ==
    /\ th[t].pc = "remux_rec"
    /\ IF Taken(th[t].path, th[t].key)
       THEN Go(t, "fail") /\ UNCHANGED jobs
       ELSE jobs' = [jobs EXCEPT ![th[t].key].path = th[t].path] /\ Go(t, "remux_rm")
    /\ UNCHANGED <<disk, world, rows, remote, memory, budget>>

(* unlink of the source, which may fail and is then only logged. *)
RemoveSource(t) ==
    /\ th[t].pc = "remux_rm"
    /\ \/ disk' = disk \ {th[t].src} /\ UNCHANGED budget
       \/ Fault /\ UNCHANGED disk
    /\ th' = [th EXCEPT ![t].pc = "work", ![t].src = None]
    /\ UNCHANGED <<world, store, remote, memory>>

(* The thread has come to step s: it is the first one its flags lack. *)
At(t, s) ==
    /\ th[t].pc = "work"
    /\ s \notin th[t].flags
    /\ Before(s, th[t].path.file) \subseteq th[t].flags

(* pipeline_upload_started or pipeline_db_persisted: a generic exception then
   leaves the file and the job alone. *)
Shielded(t) == th[t].started \/ "row" \in th[t].flags
Raise(t) == Go(t, IF Shielded(t) THEN "exit" ELSE "fail")

(* ffmpeg makes the preview, fails to decode, or fails otherwise.  Soft decode
   failures are counted in memory, by path; below the limit the thread just
   returns, and the job stays in processing. *)
Preview(t) ==
    /\ At(t, "preview")
    /\ LET p == th[t].path
           n == soft[p] + 1
       IN  \/ /\ p \in disk
              /\ th' = [th EXCEPT ![t].pc = "record", ![t].step = "preview"]
              /\ UNCHANGED <<soft, budget>>
           \/ /\ Fault
              /\ soft' = [soft EXCEPT ![p] = IF n < MaxSoft THEN n ELSE 0]
              /\ Go(t, IF n < MaxSoft THEN "exit" ELSE "bad")
           \/ /\ IF p \in disk THEN Fault ELSE UNCHANGED budget
              /\ Raise(t) /\ UNCHANGED soft
    /\ UNCHANGED <<disk, world, store, remote, claims, queue, cooling>>

(* After too many soft failures: to the failed folder, then the job.  The
   claim must still be held; a locked file stays, as does one that is gone. *)
MoveBad(t) ==
    /\ th[t].pc = "bad"
    /\ LET p == th[t].path
       IN  \/ /\ p \in disk /\ th[t].orig \in claims
              /\ disk' = (disk \ {p}) \cup {Free(In(p, "failed"), disk)}
              /\ Go(t, "bad_rec")
              /\ UNCHANGED budget
           \/ /\ IF p \in disk /\ th[t].orig \in claims THEN Fault ELSE UNCHANGED budget
              /\ Go(t, "exit")
              /\ UNCHANGED disk
    /\ UNCHANGED <<world, store, remote, memory>>

RecordBad(t) ==
    /\ th[t].pc = "bad_rec"
    /\ jobs' = [jobs EXCEPT ![th[t].key].status = "failed"]
    /\ Go(t, "exit")
    /\ UNCHANGED <<disk, world, rows, remote, memory, budget>>

(* What a remote call leaves behind, under the object name of the file as it
   is called now, and the job it was made for. *)
Object(t) == [key |-> th[t].key, file |-> th[t].path.file, name |-> th[t].path.name]
Told(t, s) == remote' = [remote EXCEPT ![s] = @ \cup {Object(t)}]

(* A remote step is deferred when offline, or when its call fails transiently
   (having taken effect or not).  The job is read here, for its path. *)
Deferred(t, s) ==
    /\ At(t, s)
    /\ \/ ~online /\ UNCHANGED <<remote, budget>>
       \/ online /\ Fault /\ (Told(t, s) \/ UNCHANGED remote)
    /\ th' = [th EXCEPT ![t].pc = "defer", ![t].step = s, ![t].src = jobs[th[t].key].path,
                        ![t].started = @ \/ s \in {"original", "previewUp"}]
    /\ UNCHANGED <<disk, world, store, memory>>

(* An upload, or the upsert of the clips row, goes through ... *)
Call(t, s) ==
    /\ At(t, s) /\ online
    /\ s = "original" => th[t].path \in disk
    /\ Told(t, s)
    /\ th' = [th EXCEPT ![t].pc = "record", ![t].step = s, ![t].started = TRUE]
    /\ UNCHANGED <<disk, world, store, memory, budget>>

(* ... or ends in an exception that is not transient: with refused credentials
   the thread returns at once, otherwise the generic handler decides. *)
CallRaises(t, s) ==
    /\ At(t, s) /\ online
    /\ IF s = "original" /\ th[t].path \notin disk THEN UNCHANGED budget ELSE Fault
    /\ LET started == th[t].started \/ s \in {"original", "previewUp"}
       IN  \E pc \in {"exit", IF started THEN "exit" ELSE "fail"} :
              th' = [th EXCEPT ![t].started = started, ![t].pc = pc]
    /\ UNCHANGED <<disk, world, store, remote, memory>>

(* The flag of the finished step is merged into the job. *)
Record(t) ==
    /\ th[t].pc = "record"
    /\ LET s == th[t].step
       IN  /\ jobs' = [jobs EXCEPT ![th[t].key].flags = @ \cup {s}]
           /\ th' = [th EXCEPT ![t].pc = "work", ![t].step = "none", ![t].flags = @ \cup {s}]
           /\ soft' = IF s = "preview" THEN [soft EXCEPT ![th[t].path] = 0] ELSE soft
    /\ UNCHANGED <<disk, world, rows, remote, claims, queue, cooling, budget>>

(* A booking is found and attached to the clip; when attaching it raises, that
   is only logged.  The flag follows either way, in the same step: whatever
   happens between the two is overwritten, so it might as well come before. *)
BookingMatched(t) ==
    /\ At(t, "booking") /\ online
    /\ \/ Told(t, "booking") /\ UNCHANGED budget
       \/ Fault /\ UNCHANGED remote
    /\ jobs' = [jobs EXCEPT ![th[t].key].flags = @ \cup {"booking"},
                            ![th[t].key].tries = @ + 1, ![th[t].key].bookAt = "never"]
    /\ th' = [th EXCEPT ![t].flags = @ \cup {"booking"}]
    /\ UNCHANGED <<disk, world, rows, memory>>

(* No booking (yet): the next attempt is scheduled, or the step is given up. *)
BookingUnmatched(t) ==
    /\ At(t, "booking") /\ online
    /\ LET job == jobs[th[t].key]
       IN  IF job.tries + 1 < MaxBooking
           THEN /\ jobs' = [jobs EXCEPT ![th[t].key].tries = @ + 1,
                                        ![th[t].key].bookAt = "waiting"]
                /\ Go(t, "exit")
           ELSE /\ jobs' = [jobs EXCEPT ![th[t].key].flags = @ \cup {"booking"},
                                        ![th[t].key].tries = @ + 1,
                                        ![th[t].key].bookAt = "never"]
                /\ th' = [th EXCEPT ![t].flags = @ \cup {"booking"}]
    /\ UNCHANGED <<disk, world, rows, remote, memory, budget>>

(* The planner refuses the credentials, or the lookup raises: by now the clip
   is in the database, so the thread just returns. *)
BookingRaises(t) ==
    /\ At(t, "booking") /\ online /\ Fault
    /\ Go(t, "exit")
    /\ UNCHANGED <<disk, world, store, remote, memory>>

(* _defer_remote_sync: the job, and in a second transaction the queue row. *)
DeferJob(t) ==
    /\ th[t].pc = "defer"
    /\ jobs' = [jobs EXCEPT ![th[t].key].status = "pending_remote_sync"]
    /\ Go(t, "defer_row")
    /\ UNCHANGED <<disk, world, rows, remote, memory, budget>>

(* Mutant: the row is written with the path process_clip was called with. *)
DeferRow_OldPath(t) ==
    /\ th[t].pc = "defer_row"
    /\ rows' = [rows EXCEPT ![th[t].key].queued = TRUE, ![th[t].key].path = th[t].orig]
    /\ th' = [th EXCEPT ![t].pc = "exit", ![t].step = "none", ![t].src = None]
    /\ UNCHANGED <<disk, world, jobs, remote, memory, budget>>

DeferRow(t) ==
    /\ th[t].pc = "defer_row"
    /\ rows' = [rows EXCEPT ![th[t].key].queued = TRUE, ![th[t].key].path = th[t].src]
    /\ th' = [th EXCEPT ![t].pc = "exit", ![t].step = "none", ![t].src = None]
    /\ UNCHANGED <<disk, world, jobs, remote, memory, budget>>

(* The move to the processed folder.  When the source is gone, another thread
   may have made the same move (to a destination chosen before): then the job
   is completed all the same, otherwise it is failed. *)
Finalize(t) ==
    /\ At(t, "final")
    /\ LET p == th[t].path
           q == IF p \in disk THEN Free(In(p, "processed"), disk) ELSE In(p, "processed")
           moved == th' = [th EXCEPT ![t].pc = "final_rec", ![t].src = q]
       IN  \/ /\ p \in disk
              /\ disk' = (disk \ {p}) \cup {q}
              /\ moved
              /\ UNCHANGED <<jobs, budget>>
           \/ /\ p \in disk /\ Fault
              /\ Go(t, "exit")
              /\ UNCHANGED <<disk, jobs>>
           \/ /\ p \notin disk /\ q \in disk
              /\ moved
              /\ UNCHANGED <<disk, jobs, budget>>
           \/ /\ p \notin disk
              /\ jobs' = [jobs EXCEPT ![th[t].key].status = "failed"]
              /\ Go(t, "exit")
              /\ UNCHANGED <<disk, budget>>
    /\ UNCHANGED <<world, rows, remote, memory>>

RecordFinal(t) ==
    /\ th[t].pc = "final_rec"
    /\ IF Taken(th[t].src, th[t].key)
       THEN th' = [th EXCEPT ![t].pc = "exit", ![t].src = None] /\ UNCHANGED jobs
       ELSE /\ jobs' = [jobs EXCEPT ![th[t].key].flags = @ \cup {"final"},
                                    ![th[t].key].status = "completed",
                                    ![th[t].key].path = th[t].src]
            /\ th' = [th EXCEPT ![t].pc = "final_del", ![t].flags = @ \cup {"final"},
                                ![t].src = None]
    /\ UNCHANGED <<disk, world, rows, remote, memory, budget>>

DeleteRow(t) ==
    /\ th[t].pc = "final_del"
    /\ rows' = [rows EXCEPT ![th[t].key] = NoRow]
    /\ Go(t, "exit")
    /\ UNCHANGED <<disk, world, jobs, remote, memory, budget>>

(* Every step is behind: a finished job that was opened again. *)
NothingLeft(t) ==
    /\ th[t].pc = "work" /\ Steps \subseteq th[t].flags
    /\ Go(t, "exit")
    /\ UNCHANGED <<disk, world, store, remote, memory, budget>>

(* The generic exception handler, before any upload: to the failed folder. *)
MoveFailed(t) ==
    /\ th[t].pc = "fail"
    /\ LET p == th[t].path
           q == Free(In(p, "failed"), disk)
           mine == th[t].orig \in claims /\ p \in disk
       IN  \/ /\ mine
              /\ disk' = (disk \ {p}) \cup {q}
              /\ th' = [th EXCEPT ![t].pc = "fail_rec", ![t].src = q]
              /\ UNCHANGED budget
           \/ /\ IF mine THEN Fault ELSE UNCHANGED budget
              /\ Go(t, "exit")
              /\ UNCHANGED disk
    /\ UNCHANGED <<world, store, remote, memory>>

(* Mutant: the path is recorded, the status is not. *)
RecordFailed_KeepsStatus(t) ==
    /\ th[t].pc = "fail_rec"
    /\ jobs' = IF Taken(th[t].src, th[t].key) THEN jobs
               ELSE [jobs EXCEPT ![th[t].key].path = th[t].src]
    /\ th' = [th EXCEPT ![t].pc = "exit", ![t].src = None]
    /\ UNCHANGED <<disk, world, rows, remote, memory, budget>>

RecordFailed(t) ==
    /\ th[t].pc = "fail_rec"
    /\ jobs' = IF Taken(th[t].src, th[t].key) THEN jobs
               ELSE [jobs EXCEPT ![th[t].key].status = "failed", ![th[t].key].path = th[t].src]
    /\ th' = [th EXCEPT ![t].pc = "exit", ![t].src = None]
    /\ UNCHANGED <<disk, world, rows, remote, memory, budget>>

(* The same handler when there is no job: a move that nothing records. *)
MoveOrphan(t) ==
    /\ th[t].pc = "orphan"
    /\ LET p == th[t].path
           mine == th[t].orig \in claims /\ p \in disk
       IN  \/ /\ mine
              /\ disk' = (disk \ {p}) \cup {Free(In(p, "failed"), disk)}
              /\ UNCHANGED budget
           \/ /\ IF mine THEN Fault ELSE UNCHANGED budget
              /\ UNCHANGED disk
    /\ Go(t, "exit")
    /\ UNCHANGED <<world, store, remote, memory>>

(***************************************************************************)
(* The worker process                                                      *)
(***************************************************************************)

(* A crash, or a restart by the supervisor: what is in memory is gone. *)
Crash ==
    /\ phase # "down" /\ Spend("crashes", MaxCrashes)
    /\ phase' = "down"
    /\ claims' = {} /\ queued' = {} /\ pending' = {} /\ cooling' = {}
    /\ soft' = [p \in Paths |-> 0]
    /\ th' = [t \in Threads |-> Idle]
    /\ UNCHANGED <<disk, arrived, writing, online, store, remote, cmd>>

(* main() up to the start of the threads: jobs left in processing for long
   enough are flagged stale when the policy says so. *)
Restart ==
    /\ phase = "down" /\ phase' = "booting"
    /\ \E stale \in SUBSET {k \in Keys : FlagStale /\ jobs[k].status = "processing"
                                          /\ "final" \notin jobs[k].flags} :
          jobs' = [k \in Keys |-> IF k \in stale THEN [jobs[k] EXCEPT !.status = "stale"]
                                 ELSE jobs[k]]
    /\ UNCHANGED <<disk, arrived, writing, online, rows, remote, memory, th, cmd, budget>>

(* scan_existing_clips and scan_processing_resume. *)
Scan ==
    /\ phase = "booting" /\ phase' = "up"
    /\ Submit({p \in disk : p.dir \in {"incoming", "processing"}})
    /\ UNCHANGED <<disk, arrived, writing, online, store, remote, claims, soft, cooling, th, cmd, budget>>

(* jobs_cli.py retry-booking, a process of its own, which the worker's crash
   leaves alone: it reads the job ... *)
RetryReads(k) ==
    /\ cmd = NoCmd /\ budget.cmds < MaxRetryCmds
    /\ jobs[k].status # "none"
    /\ cmd' = [key |-> k, flags |-> jobs[k].flags]
    /\ UNCHANGED <<disk, arrived, writing, online, phase, store, remote, memory, th, budget>>

(* ... and writes back the flags it read, less the one of the booking: a flag
   that was set in between is lost. *)
RetryBooking ==
    /\ cmd # NoCmd /\ Spend("cmds", MaxRetryCmds)
    /\ jobs' = [jobs EXCEPT ![cmd.key].flags = cmd.flags \ {"booking"},
                            ![cmd.key].status = "processing", ![cmd.key].bookAt = "due"]
    /\ cmd' = NoCmd
    /\ UNCHANGED <<disk, arrived, writing, online, phase, rows, remote, memory, th>>

(***************************************************************************)
(* The specification                                                       *)
(***************************************************************************)

(* The steps of a thread inside process_clip. *)
Step(t) ==
    \/ Ready(t) \/ MoveIn(t) \/ Reclaim(t) \/ Insert(t)
    \/ Resume(t) \/ Adopt(t) \/ Rebind(t) \/ Reopen(t) \/ Body(t) \/ Gate(t)
    \/ RenameUtc(t) \/ RecordUtc(t) \/ Remux(t) \/ RecordRemux(t) \/ RemoveSource(t)
    \/ Preview(t) \/ MoveBad(t) \/ RecordBad(t)
    \/ \E s \in {"original", "previewUp", "row"} : Call(t, s) \/ CallRaises(t, s)
    \/ \E s \in RemoteSteps : Deferred(t, s)
    \/ Record(t) \/ BookingMatched(t) \/ BookingUnmatched(t) \/ BookingRaises(t)
    \/ DeferJob(t) \/ DeferRow(t)
    \/ Finalize(t) \/ RecordFinal(t) \/ DeleteRow(t) \/ NothingLeft(t)
    \/ MoveFailed(t) \/ RecordFailed(t) \/ MoveOrphan(t)
    \/ Exit(t) \/ Done(t)

Next ==
    \/ \E t \in Threads : Step(t) \/ \E p \in queued : Take(t, p)
    \/ DrainBegin
    \/ \E k \in Keys : DrainPick(k) \/ BookingFallsDue(k) \/ BookingPoll(k) \/ RetryReads(k)
    \/ \E f \in Files : Appear(f) \/ Finish(f)
    \/ \E p \in cooling : CooldownEnds(p)
    \/ RetryBooking \/ GoesOffline \/ ComesOnline \/ Crash \/ Restart \/ Scan

Spec == Init /\ [][Next]_vars

(* What the threads of main.py justify: a thread inside process_clip keeps
   running, a worker that is free takes something from a queue that is not
   empty, and the drain, the polls, the clock, the writers, the supervisor
   and the network each get on with what they have, in any order. *)
Fairness ==
    /\ \A t \in Threads : WF_vars(Step(t))
    /\ WF_vars(\E t \in Workers, p \in queued : Take(t, p))
    /\ WF_vars(DrainBegin)
    /\ WF_vars(\E k \in Keys : DrainPick(k))
    /\ WF_vars(\E k \in Keys : BookingFallsDue(k))
    /\ WF_vars(\E k \in Keys : BookingPoll(k))
    /\ WF_vars(\E f \in Files : Finish(f))
    /\ WF_vars(\E p \in cooling : CooldownEnds(p))
    /\ WF_vars(ComesOnline) /\ WF_vars(Restart) /\ WF_vars(Scan)

FairSpec == Spec /\ Fairness

(***************************************************************************)
(* Properties                                                              *)
(***************************************************************************)

OptPaths == Paths \cup {None}

(* A job names the path of its clip. *)
Jobs == [status : {"processing", "pending_remote_sync", "completed", "failed", "stale"},
         flags : SUBSET Steps, path : Paths, tries : Nat,
         bookAt : {"never", "waiting", "due"}]
Rows == [queued : BOOLEAN, path : OptPaths, drained : Nat]
Objects == [key : Keys, file : Files, name : {"local", "utc"} \cup Remuxed]
Locals == [pc : PCs, sub : OptPaths, orig : OptPaths, path : OptPaths, src : OptPaths,
           key : Keys \cup {None}, flags : SUBSET Steps, step : {"none"} \cup Steps,
           started : BOOLEAN, slot : BOOLEAN]

DiskOK == disk \subseteq Paths /\ arrived \subseteq Files /\ writing \subseteq Files
JobsOK == jobs \in [Keys -> {NoJob} \cup Jobs]
RowsOK == rows \in [Keys -> Rows] /\ \A k \in Keys : rows[k].queued => rows[k].path \in Paths
RemoteOK == remote \in [RemoteSteps -> SUBSET Objects]
MemoryOK ==
    /\ claims \subseteq Paths /\ queued \subseteq Paths
    /\ pending \subseteq Paths /\ cooling \subseteq Paths
    /\ soft \in [Paths -> Nat]
ThreadsOK == th \in [Threads -> Locals]
WorldOK ==
    /\ online \in BOOLEAN /\ phase \in {"up", "down", "booting"}
    /\ cmd \in {NoCmd} \cup [key : Keys, flags : SUBSET Steps]
    /\ budget \in [crashes : Nat, faults : Nat, outages : Nat, cmds : Nat]

(* Every variable has its type; in particular no open queue row and no job
   lacks the path its file is found by. *)
TypeOK ==
    /\ DiskOK /\ JobsOK /\ RowsOK /\ RemoteOK /\ MemoryOK /\ ThreadsOK /\ WorldOK

(* A clip the job store calls completed has both of its objects in S3 and its
   row in the database, whatever crashed, was deferred or was retried. *)
CompletedIsPublished ==
    \A k \in Keys : jobs[k].status = "completed" =>
        \A s \in {"original", "previewUp", "row"} : \E o \in remote[s] : o.key = k

(* A recording that has arrived is always in one of the folders: no order of
   moves, remuxes, unlinks and crashes deletes the last copy. *)
NeverLost == \A f \in arrived : \E p \in disk : p.file = f

(* upsert_clip_record: a recording never has two rows, however often the
   worker restarts. *)
UniqueRow ==
    \A o1, o2 \in remote["row"] : o1.file = o2.file => o1.name = o2.name

(* A row of the database never names an object that S3 does not hold. *)
RowHasOriginal ==
    \A o \in remote["row"] : \E u \in remote["original"] : u.file = o.file /\ u.name = o.name

(* Inside the body of process_clip, where the steps of a job are done. *)
Inside == PCs \ {"idle", "ready", "move", "reclaim", "insert", "resume", "adopt", "rebind",
                 "reopen", "orphan", "begin", "exit", "done"}

(* Two threads never work on the same clip: claims are by path, so this rests
   on every path to a clip being claimed in time and released only by its owner. *)
SingleFlight ==
    \A t, u \in Threads :
        t # u /\ th[t].pc \in Inside /\ th[u].pc \in Inside => th[t].key # th[u].key

(* A deferred clip has a way back: a thread works on it, its path is pending
   in the queue or will be when the scan is done, or the drain will find its
   row and the file the row names. *)
DeferredHasRetry ==
    \A k \in Keys : jobs[k].status = "pending_remote_sync" =>
        \/ phase # "up" \/ jobs[k].path \in pending
        \/ \E t \in Threads : th[t].key = k
        \/ rows[k].queued /\ rows[k].path \in disk

(* A path marked pending is in the queue or with a worker that will mark it
   done: otherwise submit would drop it for ever. *)
PendingIsHandled ==
    \A p \in pending \ queued : \E t \in Workers : th[t].sub = p

(* A job that is open, and that no thread has, can be taken up again after a
   restart: the processing folder holds its file, under the path the job
   records or at least with its fingerprint. *)
Recoverable ==
    \A k \in Keys : jobs[k].status \in {"processing", "pending_remote_sync", "stale"} =>
        \/ \E t \in Threads : th[t].key = k
        \/ \E p \in disk : p.dir = "processing" /\ (p = jobs[k].path \/ KeyOf(p) = k)

(* ... and while the worker has not died and no job was reopened by hand, no
   failure, retry or deferral strands an open job. *)
NoneIsStranded == budget.crashes = 0 /\ budget.cmds = 0 => Recoverable

(* The ledger of ClipLedger, as the job store and the services show it. *)
Entry(status) ==
    CASE status = "none"      -> "none"
      [] status = "completed" -> "completed"
      [] status = "failed"    -> "failed"
      [] OTHER                -> "open"

Ledger == INSTANCE ClipLedger WITH
    status <- [k \in Keys |-> Entry(jobs[k].status)],
    told <- [s \in RemoteSteps |-> {k \in Keys : \E o \in remote[s] : o.key = k}],
    commands <- budget.cmds

(* The pipeline implements the ledger: S3, the database and the booking API
   hear of a clip in that order, a clip is registered before anyone hears of
   it, and its status only moves as the ledger allows. *)
ImplementsLedger == Ledger!Spec

(* The order of the ledger by itself, which needs no assumption about the
   recordings: no second thread with the job of a remuxed clip, no resume by
   flags and no lost flag lets a service hear of a clip before those it comes
   after. *)
ToldInOrder ==
    \A s \in RemoteSteps : \A o \in remote[s] :
        \A r \in Ledger!After[s] : \E u \in remote[r] : u.key = o.key

(* Every recording ends up in the processed or in the failed folder. *)
Settled(f) == \E p \in disk : p.file = f /\ p.dir \in {"processed", "failed"}
EventuallySettled == \A f \in Files : (f \in arrived) ~> Settled(f)

(* processor.py:1682, "deferring clip for retry": a clip whose preview failed
   to decode, below the limit, is tried again. *)
SoftFailIsRetried == \A p \in Paths : (soft[p] = 1) ~> (soft[p] # 1)

(* jobs_cli.py:64: retry-booking "scheduled immediate booking retry". *)
RetryIsHonoured == \A k \in Keys : (jobs[k].bookAt = "due") ~> (jobs[k].bookAt # "due")
=============================================================================
