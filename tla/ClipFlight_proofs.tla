------------------------- MODULE ClipFlight_proofs -------------------------
(***************************************************************************)
(* The queue keeps what is submitted to it, on every instance: the theorem *)
(* PendingIsServed.                                                        *)
(*                                                                         *)
(* The rest is about mp4 recordings of distinct content only (Plain), and  *)
(* stated as propositions: the claims on paths then come down to one       *)
(* owner for each clip, and on that rest one row for a recording, a way    *)
(* back for every deferred clip, and the ledger.  With an mkv recording    *)
(* none of this holds, as the README tells: nothing claims the name of the *)
(* remuxed copy, so a second thread may take it up.                        *)
(***************************************************************************)
EXTENDS ClipPipeline_proofs

Plain ==
    /\ MkvFiles = {}
    /\ \A f, g \in Files : ContentOf[f] = ContentOf[g] => f = g

(***************************************************************************)
(* The queue                                                               *)
(***************************************************************************)

(* A path is pending as long as it is in the queue or with a worker, and with
   one worker only. *)
PoolInv ==
    /\ queued \subseteq pending
    /\ \A t \in Workers : th[t].pc # "idle" => th[t].sub \in pending \ queued
    /\ \A t, u \in Workers :
           t # u /\ th[t].pc # "idle" /\ th[u].pc # "idle" => th[t].sub # th[u].sub
    /\ \A p \in pending \ queued : \E t \in Workers : th[t].pc # "idle" /\ th[t].sub = p

(* The path a thread was given is its own until it is done with it. *)
KeepsSub(t) ==
    /\ th[t].pc \notin {"idle", "begin", "done"} /\ th'[t].pc \notin {"idle", "begin"}
    /\ th'[t].sub = th[t].sub
    /\ UNCHANGED <<queued, pending, phase, arrived>> /\ OthersSame(t)

LEMMA SubKept ==
    ASSUME ThreadsOK, NEW t \in Threads, Step(t)
    PROVE  KeepsSub(t) \/ Done(t)
<1>a. th \in [Threads -> Locals] /\ th[t] \in Locals
  BY DEF ThreadsOK
<1> USE <1>a DEF KeepsSub, OthersSame, Go, Locals, world, queue, memory
<1>1. CASE Ready(t) BY <1>1 DEF Ready
<1>2. CASE MoveIn(t) BY <1>2 DEF MoveIn
<1>3. CASE Reclaim(t) BY <1>3 DEF Reclaim
<1>4. CASE Insert(t) BY <1>4 DEF Insert
<1>5. CASE Resume(t)
  <2>1. \/ \E j \in Keys : th' = [th EXCEPT ![t].key = j, ![t].pc = AfterEnsure(jobs[j].status)]
        \/ th' = [th EXCEPT ![t].pc = "exit"]
        \/ \E pc \in {"adopt", "exit", "rebind"} :
              th' = [th EXCEPT ![t].key = KeyOf(th[t].path), ![t].pc = pc]
    BY <1>5 DEF Resume
  <2>2. th[t].pc = "resume" /\ UNCHANGED <<queued, pending, phase, arrived>>
    BY <1>5 DEF Resume
  <2>3. PICK pc \in {"exit", "reopen", "body", "adopt", "rebind"} : \E k :
           th' = [th EXCEPT ![t].key = k, ![t].pc = pc] \/ th' = [th EXCEPT ![t].pc = pc]
    BY <2>1, EnsurePC
  <2>4. th'[t].pc = pc /\ th'[t].sub = th[t].sub
    BY <2>3
  <2> QED
    BY <2>2, <2>3, <2>4
<1>6. CASE Adopt(t) BY <1>6 DEF Adopt, Orphaned
<1>7. CASE Rebind(t) BY <1>7, EnsurePC DEF Rebind, Orphaned
<1>8. CASE Reopen(t) BY <1>8 DEF Reopen
<1>9. CASE Body(t) BY <1>9 DEF Body
<1>10. CASE Gate(t) BY <1>10 DEF Gate
<1>11. CASE RenameUtc(t) BY <1>11 DEF RenameUtc
<1>12. CASE RecordUtc(t) BY <1>12 DEF RecordUtc
<1>13. CASE Remux(t) BY <1>13 DEF Remux
<1>14. CASE RecordRemux(t) BY <1>14 DEF RecordRemux
<1>15. CASE RemoveSource(t) BY <1>15 DEF RemoveSource
<1>16. CASE Preview(t) BY <1>16 DEF Preview, At, Raise
<1>17. CASE MoveBad(t) BY <1>17 DEF MoveBad
<1>18. CASE RecordBad(t) BY <1>18 DEF RecordBad
<1>19. ASSUME NEW s \in RemoteSteps, Call(t, s) \/ CallRaises(t, s) \/ Deferred(t, s)
       PROVE KeepsSub(t)
  BY <1>19 DEF Call, CallRaises, Deferred, At
<1>20. CASE Record(t) BY <1>20 DEF Record
<1>21. CASE BookingMatched(t) \/ BookingUnmatched(t) \/ BookingRaises(t)
  BY <1>21 DEF BookingMatched, BookingUnmatched, BookingRaises, At
<1>22. CASE DeferJob(t) \/ DeferRow(t) BY <1>22 DEF DeferJob, DeferRow
<1>23. CASE Finalize(t) BY <1>23 DEF Finalize, At
<1>24. CASE RecordFinal(t) BY <1>24 DEF RecordFinal
<1>25. CASE DeleteRow(t) \/ NothingLeft(t) BY <1>25 DEF DeleteRow, NothingLeft
<1>26. CASE MoveFailed(t) BY <1>26 DEF MoveFailed
<1>27. CASE RecordFailed(t) BY <1>27 DEF RecordFailed
<1>28. CASE MoveOrphan(t) BY <1>28 DEF MoveOrphan
<1>29. CASE Exit(t) BY <1>29 DEF Exit, Idle
<1>30. {"original", "previewUp", "row"} \subseteq RemoteSteps
  BY DEF RemoteSteps
<1> QED
  BY <1>1, <1>2, <1>3, <1>4, <1>5, <1>6, <1>7, <1>8, <1>9, <1>10, <1>11, <1>12, <1>13, <1>14,
     <1>15, <1>16, <1>17, <1>18, <1>19, <1>20, <1>21, <1>22, <1>23, <1>24, <1>25, <1>26, <1>27,
     <1>28, <1>29, <1>30 DEF Step

LEMMA PoolKept ==
    ASSUME TypeOK, PoolInv, [Next]_vars
    PROVE  PoolInv'
<1> USE DEF PoolInv
<1>a. th \in [Threads -> Locals] /\ Drain \notin Workers /\ Workers \subseteq Threads
  BY PipelineAssumption DEF TypeOK, ThreadsOK, Threads
(* Neither the threads nor the queue change for the workers, but paths come. *)
<1>b. ASSUME NEW ps, Submit(ps), \A t \in Workers : th'[t] = th[t]
      PROVE  PoolInv'
  BY <1>b DEF Submit
<1>c. ASSUME UNCHANGED <<queued, pending>>,
             \A t \in Workers : /\ th'[t].sub = th[t].sub
                                /\ th'[t].pc = th[t].pc \/ "idle" \notin {th[t].pc, th'[t].pc}
      PROVE  PoolInv'
  <2>1. queued' = queued /\ pending' = pending
    BY <1>c
  <2>2. \A t \in Workers : /\ th'[t].pc # "idle" => th[t].pc # "idle"
                           /\ th[t].pc # "idle" => th'[t].pc # "idle"
                           /\ th'[t].sub = th[t].sub
    BY <1>c
  <2> QED
    BY <2>1, <2>2
<1>1. ASSUME NEW t \in Threads, Step(t) PROVE PoolInv'
  <2>1. CASE KeepsSub(t)
    BY <1>a, <1>c, <2>1 DEF KeepsSub, OthersSame
  <2>2. CASE Done(t) /\ t \in Workers
    <3>1. /\ th'[t].pc = "idle" /\ \A u \in Threads \ {t} : th'[u] = th[u]
          /\ pending' = pending \ {th[t].sub} /\ queued' = queued /\ th[t].pc = "done"
      BY <1>a, <2>2 DEF Done, Idle
    <3> QED
      BY <1>a, <2>2, <3>1
  <2>3. CASE Done(t) /\ t \notin Workers
    BY <1>a, <1>c, <2>3 DEF Done
  <2> QED
    BY <1>1, <2>1, <2>2, <2>3, SubKept DEF TypeOK
<1>2. ASSUME NEW t \in Threads, NEW p \in queued, Take(t, p) PROVE PoolInv'
  <2>1. /\ t \in Workers /\ th[t].pc = "idle" /\ queued' = queued \ {p} /\ pending' = pending
        /\ th'[t].sub = p /\ th'[t].pc # "idle" /\ \A u \in Threads \ {t} : th'[u] = th[u]
    <3>1. PICK new \in {[Idle EXCEPT !.pc = pc, !.sub = p, !.orig = p, !.path = p] :
                          pc \in {"ready", "resume"}}
                       \cup {[Idle EXCEPT !.pc = "done", !.sub = p]} :
             th' = [th EXCEPT ![t] = new]
      BY <1>2 DEF Take, Enter
    <3>2. new.sub = p /\ new.pc # "idle"
      BY <3>1 DEF Idle
    <3> QED
      BY <1>2, <1>a, <3>1, <3>2 DEF Take
  <2> QED
    BY <1>a, <2>1
<1>3. CASE DrainBegin \/ \E k \in Keys : DrainPick(k)
  <2>1. UNCHANGED queue /\ \A u \in Workers : th'[u] = th[u]
    BY <1>3, <1>a DEF DrainBegin, DrainPick, Enter, memory, queue
  <2> QED
    BY <1>c, <2>1 DEF queue
<1>4. CASE RetryBooking \/ \E k \in Keys : BookingFallsDue(k) \/ RetryReads(k)
  BY <1>4, <1>c DEF BookingFallsDue, RetryBooking, RetryReads, memory
<1>5. CASE \/ \E k \in Keys : BookingPoll(k)
           \/ \E f \in Files : Appear(f) \/ Finish(f)
           \/ Scan
  <2>1. th' = th /\ (UNCHANGED queue \/ \E ps : Submit(ps))
    BY <1>5 DEF BookingPoll, Appear, Finish, Scan
  <2> QED
    BY <1>b, <1>c, <2>1 DEF queue
<1>6. CASE \/ \E p \in cooling : CooldownEnds(p)
           \/ GoesOffline \/ ComesOnline \/ Restart \/ UNCHANGED vars
  BY <1>6, <1>c DEF CooldownEnds, GoesOffline, ComesOnline, Restart, memory, queue, vars
<1>7. CASE Crash
  BY <1>7, <1>a DEF Crash, Idle
<1> QED
  BY <1>1, <1>2, <1>3, <1>4, <1>5, <1>6, <1>7 DEF Next

LEMMA PoolAlways == Spec => []PoolInv
<1>1. Init => PoolInv
  BY PipelineAssumption DEF Init, PoolInv, Idle, Threads
<1>2. TypeOK /\ PoolInv /\ [Next]_vars => PoolInv'
  BY PoolKept
<1> QED
  BY <1>1, <1>2, TypeCorrect, PTL DEF Spec

(* ClipJobQueue: a path marked pending is in the queue or with a worker that
   will mark it done, whatever is skipped, claimed, fails or crashes: submit
   drops a path only while somebody has it. *)
THEOREM PendingIsServed == Spec => []PendingIsHandled
<1>1. PoolInv => PendingIsHandled
  BY DEF PoolInv, PendingIsHandled
<1> QED
  BY <1>1, PoolAlways, PTL

(***************************************************************************)
(* One owner for each recording: the invariant                             *)
(***************************************************************************)

Names == {"local", "utc"}

(* The counters of a thread that works on a file of the processing folder;
   those where it has moved it away; those where the job records its path; and
   those it only comes to with the renamed file. *)
Owner == Inside \cup {"resume", "adopt", "rebind", "reopen"}
Moved == {"bad_rec", "fail_rec", "final_rec", "final_del"}
Bound == {"reopen", "body", "gate", "utc", "remux", "work", "record", "defer", "defer_row"}
Renamed == {"utc_rec", "remux", "work", "record", "defer", "defer_row", "bad", "final_rec", "final_del"}

Present(t) == th[t].pc \notin {"idle", "begin", "done"}
Active(t) == th[t].pc \in Owner

(* There is one copy of a recording, and its name says whether it was renamed. *)
DiskInv ==
    /\ \A p \in disk : /\ p.name \in Names /\ p.file \in arrived
                       /\ p.dir = "incoming" => p.name = "local"
    /\ \A p, q \in disk : p.file = q.file => p = q

(* A job's path is a path of its clip, which is here; once renamed, always
   renamed. *)
JobInv ==
    /\ \A k \in Keys : jobs[k].status # "none" =>
           /\ KeyOf(jobs[k].path) = k /\ jobs[k].path.name \in Names
           /\ jobs[k].path.file \in arrived
    /\ \A k \in Keys : "renamed" \in jobs[k].flags =>
           jobs[k].path.name = "utc" /\ \A p \in disk : KeyOf(p) = k => p.name = "utc"
    /\ \A p \in disk : p.name = "utc" => jobs[KeyOf(p)].status # "none"

(* What the drain may pick. *)
Deferrable(p, k) == KeyOf(p) = k /\ p.dir = "processing" /\ p.name = "utc"
RowInv ==
    /\ \A k \in Keys : rows[k].queued => Deferrable(rows[k].path, k)
    /\ th[Drain].pc = "begin" => Deferrable(th[Drain].sub, th[Drain].key)

(* The paths of a thread: from the incoming folder, as a worker was given it,
   or from the processing folder, under its first or its second name. *)
FromIncoming(t) ==
    /\ t \in Workers /\ th[t].sub = th[t].orig
    /\ th[t].orig.name = "local" /\ th[t].path.name = "local"
    /\ th[t].pc \in {"ready", "move", "reclaim", "exit"}
    /\ th[t].pc \in {"ready", "move"} =>
           th[t].path.dir = "incoming" /\ th[t].path \in disk /\ th[t].path \in claims
    /\ th[t].pc = "reclaim" => th[t].path.dir = "processing"
FromProcessing(t) ==
    /\ th[t].pc \in Owner \cup {"insert", "exit"} /\ th[t].path.dir = "processing"
    /\ th[t].orig.name = "utc" => th[t].path.name = "utc"
    /\ th[t].pc = "insert" => th[t].path.name = "local"
    /\ th[t].pc = "resume" => th[t].path = th[t].orig /\ th[t].sub = th[t].orig
    /\ \/ th[t].sub = th[t].orig
       \/ t \in Workers /\ th[t].orig.name = "local" /\ th[t].sub = Watched(th[t].orig.file)
    /\ t = Drain => th[t].orig.name = "utc" /\ th[t].sub = th[t].orig
PathsInv(t) == Present(t) =>
    /\ th[t].pc \notin {"orphan", "remux_rec", "remux_rm"}
    /\ th[t].path.file = th[t].orig.file /\ th[t].path.file \in arrived
    /\ th[t].orig.name \in Names /\ th[t].path.name \in Names
    /\ \/ th[t].orig.dir = "incoming" /\ FromIncoming(t) /\ th[t].path.dir \in {"incoming", "processing"}
       \/ th[t].orig.dir = "processing" /\ FromProcessing(t)

(* Where the file is: nowhere a thread was before. *)
PlaceInv(t) == Present(t) =>
    /\ th[t].path.dir = "processing" =>
           \A p \in disk : p.file = th[t].path.file => p.dir # "incoming"
    /\ th[t].path.name = "utc" =>
           /\ \A p \in disk : p.file = th[t].path.file => p.name = "utc"
           /\ jobs[KeyOf(th[t].path)].status # "none"
    /\ th[t].pc \in {"reclaim", "insert"} /\ jobs[KeyOf(th[t].path)].status = "none" =>
           th[t].path \in disk
    /\ th[t].pc \in Owner \ Moved => th[t].path \in disk
    /\ th[t].pc \in Moved =>
           \A p \in disk : p.file = th[t].path.file => p.dir \in {"processed", "failed"}
    /\ th[t].pc \in {"fail_rec", "final_rec"} =>
           /\ th[t].src \in disk /\ th[t].src.file = th[t].path.file
           /\ th[t].src.name = th[t].path.name

(* The second name is always claimed; the first one too, unless the thread that
   lost the race for it has released it: then no other thread can come for it. *)
ClaimInv(t) == Present(t) =>
    /\ th[t].path.name = "utc" => th[t].path \in claims
    /\ th[t].orig.dir = "processing" /\ th[t].orig \notin claims =>
           /\ t \in Workers /\ th[t].sub = th[t].orig /\ th[t].orig.name = "local"
           /\ \A u \in Threads : Present(u) => th[u].orig # Watched(th[t].orig.file)

(* What a thread knows of its job. *)
HoldInv(t) ==
    /\ th[t].pc \in {"move", "reclaim", "insert"} \cup (Owner \ {"resume"}) =>
           th[t].key = KeyOf(th[t].path)
    /\ th[t].pc \in Bound => jobs[th[t].key].path = th[t].path
    /\ th[t].pc \in Renamed \/ (th[t].pc = "gate" /\ "renamed" \in th[t].flags) =>
           th[t].path.name = "utc"
    /\ th[t].pc \in {"gate", "defer", "defer_row"} => th[t].src = th[t].path
    /\ th[t].pc \in {"rebind", "reopen"} => jobs[th[t].key].status # "completed"
    /\ th[t].pc \in Inside \ {"defer_row", "final_del"} =>
           jobs[th[t].key].status \in {"processing", "failed"}
    /\ th[t].pc = "defer_row" =>
           jobs[th[t].key].status \in {"processing", "failed", "pending_remote_sync"}
    /\ th[t].pc = "final_del" =>
           jobs[th[t].key].status \in {"processing", "failed", "completed"}

(* Two threads with one recording: one owns it at most, and they have no path
   in common once they are in the processing folder. *)
PairInv(t, u) ==
    t # u /\ Present(t) /\ Present(u) /\ th[t].path.file = th[u].path.file =>
        /\ ~(Active(t) /\ Active(u))
        /\ th[t].orig.dir = "processing" /\ th[u].orig.dir = "processing" =>
               {th[t].orig, th[t].path} \cap {th[u].orig, th[u].path} = {}

FlightInv ==
    /\ DiskInv /\ JobInv /\ RowInv
    /\ \A t \in Threads : PathsInv(t) /\ PlaceInv(t) /\ ClaimInv(t) /\ HoldInv(t)
    /\ \A t, u \in Threads : PairInv(t, u)
    /\ phase = "down" => \A t \in Threads : th[t].pc = "idle"

(* The command does not take back that a clip was renamed. *)
CmdInv == cmd # NoCmd /\ "renamed" \in cmd.flags => "renamed" \in jobs[cmd.key].flags

Inv == IInv /\ PoolInv /\ FlightInv /\ CmdInv

(***************************************************************************)
(* Steps of an owner                                                       *)
(***************************************************************************)

(* A step that moves nothing ... *)
Keeps(t) ==
    /\ th'[t].sub = th[t].sub /\ th'[t].orig = th[t].orig /\ th'[t].path = th[t].path
    /\ UNCHANGED <<disk, claims, queued, pending, phase, arrived>> /\ OthersSame(t)
Hop(t, from, to) == th[t].pc = from /\ th'[t].pc \in to /\ th'[t].key = th[t].key

(* ... and what it does to its job: a status, a path, and perhaps the flag. *)
JobGets(k, status, path) ==
    \E new \in Jobs :
        /\ jobs' = [jobs EXCEPT ![k] = new] /\ new.status = status /\ new.path = path
        /\ "renamed" \in new.flags <=> "renamed" \in jobs[k].flags
JobSame(k) == UNCHANGED jobs \/ JobGets(k, jobs[k].status, jobs[k].path)

FindsJob(t) ==
    LET k == KeyOf(th[t].path)
    IN  /\ th[t].pc = "resume" /\ UNCHANGED store
        /\ \/ th'[t].pc = "exit" /\ jobs[k].status \in {"completed", "failed"}
           \/ th'[t].key = k /\ th'[t].pc = "adopt"
           \/ th'[t].key = k /\ th'[t].pc = "rebind" /\ jobs[k].status \notin {"none", "completed"}
           \/ /\ th'[t].key = k /\ jobs[k].path = th[t].path
              /\ \/ th'[t].pc = "reopen" /\ jobs[k].status \in {"pending_remote_sync", "stale"}
                 \/ th'[t].pc = "body" /\ jobs[k].status = "processing"
TakesJob(t) ==
    LET k == th[t].key
        status == jobs[k].status
    IN  /\ UNCHANGED rows
        /\ \/ /\ Hop(t, "adopt", {"body"}) /\ status = "none"
              /\ jobs' = [jobs EXCEPT ![k] = NewJob(th[t].path)]
           \/ Hop(t, "adopt", {"exit"}) /\ status = "completed" /\ UNCHANGED jobs
           \/ Hop(t, "adopt", {"rebind"}) /\ status \notin {"none", "completed"} /\ UNCHANGED jobs
           \/ /\ \/ Hop(t, "rebind", {"exit"}) /\ status = "failed"
                 \/ Hop(t, "rebind", {"reopen"}) /\ status \in {"pending_remote_sync", "stale"}
                 \/ Hop(t, "rebind", {"body"}) /\ status = "processing"
              /\ JobGets(k, status, th[t].path)
           \/ Hop(t, "reopen", {"body"}) /\ JobGets(k, "processing", jobs[k].path)
ReadsJob(t) ==
    /\ UNCHANGED store
    /\ \/ /\ Hop(t, "body", {"gate"})
          /\ th'[t].flags = jobs[th[t].key].flags /\ th'[t].src = jobs[th[t].key].path
       \/ Hop(t, "gate", {"remux"}) /\ "renamed" \in th[t].flags
       \/ Hop(t, "gate", {"utc"}) \/ Hop(t, "utc", {"fail"}) \/ Hop(t, "remux", {"work"})
       \/ Hop(t, "utc", {"utc_rec"}) /\ th[t].path.name = "utc"
       \/ Hop(t, "work", {"defer"}) /\ th'[t].src = jobs[th[t].key].path
       \/ Hop(t, "bad", {"exit"}) \/ Hop(t, "fail", {"exit"})
WritesJob(t) ==
    LET k == th[t].key
        job == jobs[k]
    IN  \/ /\ UNCHANGED rows
           /\ \/ /\ Hop(t, "utc_rec", {"remux"})
                 /\ \E new \in Jobs : /\ jobs' = [jobs EXCEPT ![k] = new]
                                     /\ new.status = job.status /\ new.path = th[t].path
                                     /\ "renamed" \in new.flags
              \/ Hop(t, "work", {"work", "record", "exit", "bad", "fail"}) /\ JobSame(k)
              \/ Hop(t, "record", {"work"}) /\ JobSame(k)
              \/ /\ Hop(t, "defer", {"defer_row"}) /\ th'[t].src = th[t].src
                 /\ JobGets(k, "pending_remote_sync", job.path)
              \/ Hop(t, "bad_rec", {"exit"}) /\ JobGets(k, "failed", job.path)
              \/ Hop(t, "fail_rec", {"exit"}) /\ JobGets(k, "failed", th[t].src)
              \/ Hop(t, "final_rec", {"final_del"}) /\ JobGets(k, "completed", th[t].src)
        \/ /\ UNCHANGED jobs
           /\ \/ /\ Hop(t, "defer_row", {"exit"})
                 /\ rows' = [rows EXCEPT ![k].queued = TRUE, ![k].path = th[t].src]
              \/ Hop(t, "final_del", {"exit"}) /\ rows' = [rows EXCEPT ![k] = NoRow]
Works(t) == Keeps(t) /\ (FindsJob(t) \/ TakesJob(t) \/ ReadsJob(t) \/ WritesJob(t))

(* The move to the second name, and the moves out of the folder. *)
Moves(t, q) ==
    /\ th[t].path \in disk /\ disk' = (disk \ {th[t].path}) \cup {q}
    /\ th'[t].sub = th[t].sub /\ th'[t].orig = th[t].orig /\ th'[t].key = th[t].key
    /\ UNCHANGED <<jobs, rows, queued, pending, phase, arrived>> /\ OthersSame(t)
Renames(t) ==
    /\ th[t].pc = "utc" /\ th'[t].pc = "utc_rec" /\ th[t].path.name = "local"
    /\ Moves(t, As(th[t].path, "utc")) /\ th'[t].path = As(th[t].path, "utc")
    /\ claims' = claims \cup {As(th[t].path, "utc")}
Leaves(t) ==
    \E dir \in {"processed", "failed"} :
        /\ Moves(t, In(th[t].path, dir)) /\ th'[t].path = th[t].path /\ UNCHANGED claims
        /\ \/ th[t].pc = "work" /\ th'[t].pc = "final_rec"
           \/ th[t].pc = "bad" /\ th'[t].pc = "bad_rec"
           \/ th[t].pc = "fail" /\ th'[t].pc = "fail_rec"
        /\ th'[t].pc # "bad_rec" => th'[t].src = In(th[t].path, dir)

(***************************************************************************)
(* Lemmas: paths, keys, owners                                             *)
(***************************************************************************)

LEMMA SamePath ==
    ASSUME NEW p \in Paths, NEW q \in Paths, p.file = q.file, p.dir = q.dir, p.name = q.name
    PROVE  p = q
BY DEF Paths

(* Moving and renaming change one field. *)
LEMMA MoveFields ==
    ASSUME NEW p \in Paths, NEW d \in {"processing", "processed", "failed"}
    PROVE  /\ In(p, d) \in Paths /\ As(p, "utc") \in Paths
           /\ In(p, d).file = p.file /\ In(p, d).name = p.name /\ In(p, d).dir = d
           /\ As(p, "utc").file = p.file /\ As(p, "utc").name = "utc" /\ As(p, "utc").dir = p.dir
BY PathOps DEF Paths, In, As

LEMMA WatchedIs ==
    ASSUME NEW p \in Paths, p.dir = "incoming", p.name = "local"
    PROVE  p = Watched(p.file)
BY DEF Paths, Watched

(* The key of a plain recording is as good as its name. *)
LEMMA PlainKey ==
    ASSUME Plain, NEW p \in Paths, NEW q \in Paths
    PROVE  /\ KeyOf(p) = KeyOf(q) => p.file = q.file
           /\ p.file = q.file /\ p.name \in Names /\ q.name \in Names => KeyOf(p) = KeyOf(q)
BY DEF Plain, Paths, KeyOf, Names, Remuxed

LEMMA NotTaken ==
    ASSUME JobsOK, JobInv, NEW p \in Paths
    PROVE  ~Taken(p, KeyOf(p))
<1>1. ASSUME NEW j \in Keys, jobs[j].path = p PROVE j = KeyOf(p)
  <2>1. jobs[j].status # "none"
    BY <1>1, PipelineAssumption DEF JobsOK, NoJob, Jobs
  <2> QED
    BY <1>1, <2>1 DEF JobInv
<1> QED
  BY <1>1 DEF Taken

LEMMA OwnerHas ==
    ASSUME Inv, NEW t \in Threads, Active(t)
    PROVE  /\ Present(t) /\ th[t].path \in Paths /\ th[t].orig \in Paths
           /\ th[t].orig.dir = "processing" /\ FromProcessing(t) /\ th[t].path.dir = "processing"
           /\ th[t].path.name \in Names /\ KeyOf(th[t].path) \in Keys
           /\ th[t].pc # "resume" => th[t].key = KeyOf(th[t].path)
           /\ th[t].pc \notin {"resume", "adopt"} => jobs[th[t].key] \in Jobs
<1>1. Present(t) /\ th[t].pc \notin {"ready", "move", "reclaim", "exit"}
  BY DEF Active, Owner, Inside, PCs, Present
<1>2. th[t].path \in Paths /\ th[t].orig \in Paths
  BY <1>1 DEF Inv, IInv, ThreadInv, HoldsPaths, Present
<1>3. PathsInv(t) /\ HoldInv(t)
  BY DEF Inv, FlightInv
<1>4. th[t].pc \notin {"resume", "adopt"} => jobs[th[t].key] \in Jobs
  <2>1. th[t].pc \notin {"resume", "adopt"} => th[t].pc \in JobPCs
    BY DEF Active, Owner, JobPCs
  <2> QED
    BY <2>1, Held DEF Inv
<1> QED
  BY <1>1, <1>2, <1>3, <1>4, PathOps DEF PathsInv, HoldInv, FromIncoming, FromProcessing, Active

(* Where an owner's file goes, nothing has its name. *)
LEMMA OwnerMoves ==
    ASSUME Inv, NEW t \in Threads, Active(t), th[t].path \in disk,
           NEW d \in {"processed", "failed"}
    PROVE  Free(In(th[t].path, d), disk) = In(th[t].path, d)
<1>1. th[t].path \in Paths /\ th[t].path.dir = "processing"
  BY OwnerHas
<1>2. In(th[t].path, d) \notin disk
  BY <1>1, MoveFields DEF Inv, FlightInv, DiskInv
<1> QED
  BY <1>2 DEF Free

(* What an owner's step can be: the ways out that leave a clip without a job,
   collide with another job, or find the file gone, are not taken. *)
LEMMA OwnerResumes ==
    ASSUME Plain, Inv, NEW t \in Threads, Active(t), Resume(t)
    PROVE  Keeps(t) /\ FindsJob(t)
<1> DEFINE p == th[t].path
<1>a. th \in [Threads -> Locals] /\ JobsOK /\ JobInv
  BY DEF Inv, IInv, TypeOK, ThreadsOK, FlightInv
<1>b. th[t].pc = "resume" /\ p \in Paths /\ p \in disk /\ KeyOf(p) \in Keys
  BY OwnerHas DEF Resume, Inv, FlightInv, PlaceInv, Owner, Moved
<1>c. \A j \in Keys : jobs[j].path = p => j = KeyOf(p) /\ jobs[j] \in Jobs
  <2>1. ASSUME NEW j \in Keys, jobs[j].path = p PROVE jobs[j] \in Jobs
    BY <2>1, <1>a, <1>b, PipelineAssumption DEF JobsOK, NoJob
  <2>2. \A j \in Keys : jobs[j] \in Jobs => jobs[j].status # "none"
    BY DEF Jobs
  <2> QED
    BY <2>1, <2>2, <1>a DEF JobInv
<1>1. Keeps(t)
  <2>1. UNCHANGED <<disk, claims, queued, pending, phase, arrived>>
    BY DEF Resume, memory, world
  <2>2. PICK k, pc : th' = [th EXCEPT ![t].key = k, ![t].pc = pc] \/ th' = [th EXCEPT ![t].pc = pc]
    BY DEF Resume, Go
  <2> QED
    BY <1>a, <2>1, <2>2 DEF Keeps, OthersSame, Locals
<1>2. FindsJob(t)
  <2>1. UNCHANGED store
    BY DEF Resume
  <2>2. CASE jobs[KeyOf(p)].path = p
    <3>1. th' = [th EXCEPT ![t].key = KeyOf(p), ![t].pc = AfterEnsure(jobs[KeyOf(p)].status)]
      BY <1>b, <1>c, <2>2 DEF Resume
    <3>2. th'[t].key = KeyOf(p) /\ th'[t].pc = AfterEnsure(jobs[KeyOf(p)].status)
      BY <1>a, <3>1 DEF Locals
    <3>3. jobs[KeyOf(p)].status \in {"processing", "pending_remote_sync", "completed", "failed", "stale"}
      BY <1>b, <1>c, <2>2 DEF Jobs
    <3> QED
      BY <1>b, <2>1, <2>2, <3>2, <3>3 DEF FindsJob, AfterEnsure
  <2>3. CASE jobs[KeyOf(p)].path # p
    <3> DEFINE status == jobs[KeyOf(p)].status
               pc == CASE status = "none" -> "adopt" [] status = "completed" -> "exit"
                       [] OTHER -> "rebind"
    <3>1. th' = [th EXCEPT ![t].key = KeyOf(p), ![t].pc = pc]
      BY <1>b, <1>c, <2>3 DEF Resume
    <3>2. th'[t].key = KeyOf(p) /\ th'[t].pc = pc
      BY <1>a, <3>1 DEF Locals
    <3> QED
      BY <1>b, <2>1, <3>2 DEF FindsJob
  <2> QED
    BY <2>2, <2>3
<1> QED
  BY <1>1, <1>2

LEMMA OwnerTakes ==
    ASSUME Plain, Inv, NEW t \in Threads, Active(t), Adopt(t) \/ Rebind(t) \/ Reopen(t)
    PROVE  Keeps(t) /\ TakesJob(t)
<1> DEFINE p == th[t].path
           k == th[t].key
<1>a. th \in [Threads -> Locals] /\ JobsOK /\ jobs \in [Keys -> {NoJob} \cup Jobs]
  BY DEF Inv, IInv, TypeOK, ThreadsOK, JobsOK
<1>b. p \in Paths /\ k = KeyOf(p) /\ k \in Keys
  BY OwnerHas DEF Adopt, Rebind, Reopen
<1>c. ~Taken(p, k)
  BY <1>a, <1>b, NotTaken DEF Inv, FlightInv
<1>d. th[t].pc # "adopt" => jobs[k] \in Jobs
  BY OwnerHas DEF Adopt, Rebind, Reopen
<1>1. Keeps(t)
  BY <1>a, <1>c DEF Adopt, Rebind, Reopen, Go, Keeps, OthersSame, Locals, memory, world
<1>2. CASE Adopt(t)
  <2>1. th[t].pc = "adopt" /\ UNCHANGED rows
    BY <1>2 DEF Adopt
  <2>2. CASE jobs[k].status = "none"
    <3>1. jobs' = [jobs EXCEPT ![k] = NewJob(p)] /\ th' = [th EXCEPT ![t].pc = "body"]
      BY <1>c, <1>2, <2>2 DEF Adopt, Go
    <3>2. th'[t].pc = "body" /\ th'[t].key = k
      BY <1>a, <3>1 DEF Locals
    <3> QED
      BY <1>1, <2>1, <2>2, <3>1, <3>2 DEF TakesJob, Hop
  <2>3. CASE jobs[k].status # "none"
    <3> DEFINE pc == IF jobs[k].status = "completed" THEN "exit" ELSE "rebind"
    <3>1. UNCHANGED jobs /\ th' = [th EXCEPT ![t].pc = pc]
      BY <1>2, <2>3 DEF Adopt, Go
    <3>2. th'[t].pc = pc /\ th'[t].key = k
      BY <1>a, <3>1 DEF Locals
    <3> QED
      BY <1>1, <2>1, <2>3, <3>1, <3>2 DEF TakesJob, Hop
  <2> QED
    BY <2>2, <2>3
<1>3. CASE Rebind(t)
  <2> DEFINE new == [jobs[k] EXCEPT !.path = p]
  <2>1. new \in Jobs /\ new.status = jobs[k].status /\ new.path = p /\ new.flags = jobs[k].flags
    BY <1>b, <1>d, <1>3 DEF Rebind, Jobs
  <2>2. jobs' = [jobs EXCEPT ![k] = new] /\ UNCHANGED rows
    BY <1>a, <1>b, <1>c, <1>3 DEF Rebind
  <2>3. JobGets(k, jobs[k].status, p)
    <3> HIDE DEF new
    <3> QED
      BY <2>1, <2>2 DEF JobGets
  <2>4. th[t].pc = "rebind" /\ th'[t].key = k /\ th'[t].pc = AfterEnsure(jobs[k].status)
    BY <1>a, <1>c, <1>3 DEF Rebind, Go, Locals
  <2>5. /\ jobs[k].status \in {"processing", "pending_remote_sync", "completed", "failed", "stale"}
        /\ jobs[k].status # "completed"
    BY <1>d, <1>3 DEF Rebind, Jobs, Inv, FlightInv, HoldInv
  <2>6. \/ Hop(t, "rebind", {"exit"}) /\ jobs[k].status = "failed"
        \/ Hop(t, "rebind", {"reopen"}) /\ jobs[k].status \in {"pending_remote_sync", "stale"}
        \/ Hop(t, "rebind", {"body"}) /\ jobs[k].status = "processing"
    BY <2>4, <2>5 DEF Hop, AfterEnsure
  <2> HIDE DEF new
  <2> QED
    BY <1>1, <2>2, <2>3, <2>6 DEF TakesJob
<1>4. CASE Reopen(t)
  <2> DEFINE new == [jobs[k] EXCEPT !.status = "processing"]
  <2>1. /\ new \in Jobs /\ new.status = "processing" /\ new.path = jobs[k].path
        /\ new.flags = jobs[k].flags
    BY <1>b, <1>d, <1>4 DEF Reopen, Jobs
  <2>2. jobs' = [jobs EXCEPT ![k] = new] /\ UNCHANGED rows
    BY <1>a, <1>b, <1>4 DEF Reopen
  <2>3. JobGets(k, "processing", jobs[k].path)
    <3> HIDE DEF new
    <3> QED
      BY <2>1, <2>2 DEF JobGets
  <2>4. Hop(t, "reopen", {"body"})
    BY <1>a, <1>4 DEF Reopen, Go, Hop, Locals
  <2> HIDE DEF new
  <2> QED
    BY <1>1, <2>2, <2>3, <2>4 DEF TakesJob
<1> QED
  BY <1>1, <1>2, <1>3, <1>4

(* The steps of the body that only read the job, before anything is told. *)
LEMMA OwnerReads ==
    ASSUME Plain, Inv, NEW t \in Threads, Active(t),
           Body(t) \/ Gate(t) \/ Remux(t) \/ NothingLeft(t)
    PROVE  Keeps(t) /\ (ReadsJob(t) \/ WritesJob(t))
<1> DEFINE p == th[t].path
           k == th[t].key
<1>a. th \in [Threads -> Locals]
  BY DEF Inv, IInv, TypeOK, ThreadsOK
<1>b. p \in Paths /\ p \in disk /\ p.file \in Files
  <2>1. th[t].pc \in Owner \ Moved
    BY DEF Body, Gate, Remux, NothingLeft, Owner, Inside, PCs, Moved
  <2>2. p \in Paths /\ p \in disk
    BY <2>1, OwnerHas DEF Inv, FlightInv, PlaceInv
  <2> QED
    BY <2>2 DEF Paths
<1>1. CASE Body(t)
  <2>1. Keeps(t)
    BY <1>a, <1>1 DEF Body, Keeps, OthersSame, Locals, memory, world
  <2>2. ReadsJob(t)
    BY <1>a, <1>1 DEF Body, ReadsJob, Hop, Locals
  <2> QED
    BY <2>1, <2>2
<1>2. CASE Gate(t)
  <2> DEFINE path == IF "renamed" \in th[t].flags THEN th[t].src ELSE p
             large == p.file \in LargeFiles
             pc == IF ~("renamed" \in th[t].flags) THEN "utc"
                   ELSE IF path \in disk THEN "remux" ELSE "exit"
  <2>1. path = p
    BY <1>2 DEF Gate, Inv, FlightInv, HoldInv
  <2>2. th' = [th EXCEPT ![t].slot = large, ![t].path = path, ![t].src = None, ![t].pc = pc]
    BY <1>2 DEF Gate
  <2>3. /\ th'[t].sub = th[t].sub /\ th'[t].orig = th[t].orig /\ th'[t].path = p
        /\ th'[t].key = k /\ th'[t].pc = pc /\ OthersSame(t)
    <3> HIDE DEF large, pc
    <3> QED
      BY <1>a, <2>1, <2>2 DEF OthersSame, Locals
  <2>4. Keeps(t)
    BY <1>2, <2>3 DEF Gate, Keeps, memory, world
  <2>5. th[t].pc = "gate" /\ UNCHANGED store
    BY <1>2 DEF Gate
  <2>6. ReadsJob(t)
    BY <1>b, <2>1, <2>3, <2>5 DEF ReadsJob, Hop
  <2> QED
    BY <2>4, <2>6
<1>3. CASE Remux(t)
  <2>1. th' = [th EXCEPT ![t].pc = "work"] /\ UNCHANGED disk
    BY <1>b, <1>3 DEF Remux, Go, Plain
  <2>2. Keeps(t) /\ ReadsJob(t)
    BY <1>a, <1>3, <2>1 DEF Remux, Keeps, ReadsJob, Hop, OthersSame, Locals, memory, world
  <2> QED
    BY <2>2
<1>4. CASE NothingLeft(t)
  <2>1. Keeps(t) /\ WritesJob(t)
    BY <1>a, <1>4 DEF NothingLeft, Go, Keeps, WritesJob, JobSame, Hop, OthersSame, Locals, memory, world, store
  <2> QED
    BY <2>1
<1> QED
  BY <1>1, <1>2, <1>3, <1>4

(* The second name. *)
LEMMA OwnerRenames ==
    ASSUME Plain, Inv, NEW t \in Threads, Active(t), RenameUtc(t)
    PROVE  (Keeps(t) /\ ReadsJob(t)) \/ Renames(t)
<1> DEFINE p == th[t].path
           q == As(p, "utc")
<1>a. th \in [Threads -> Locals]
  BY DEF Inv, IInv, TypeOK, ThreadsOK
<1>b. p \in Paths /\ p \in disk /\ p.name \in Names
  <2>1. th[t].pc \in Owner \ Moved
    BY DEF RenameUtc, Owner, Inside, PCs, Moved
  <2> QED
    BY <2>1, OwnerHas DEF Inv, FlightInv, PlaceInv
<1>1. CASE p.name # "local" \/ disk' = disk
  <2>1. /\ UNCHANGED <<disk, claims>>
        /\ \/ p.name = "utc" /\ th' = [th EXCEPT ![t].pc = "utc_rec"]
           \/ th' = [th EXCEPT ![t].pc = "fail"]
    <3>1. q # p => (disk \ {p}) \cup {q} # disk
      BY <1>b
    <3>2. p.name = "local" => q # p
      BY <1>b, MoveFields
    <3> QED
      BY <1>b, <1>1, <3>1, <3>2 DEF RenameUtc, Go, Names
  <2>2. Keeps(t)
    BY <1>a, <2>1 DEF RenameUtc, Keeps, OthersSame, Locals, queue, world
  <2>3. ReadsJob(t)
    BY <1>a, <2>1 DEF RenameUtc, ReadsJob, Hop, Locals
  <2> QED
    BY <2>2, <2>3
<1>2. CASE p.name = "local" /\ disk' # disk
  <2>1. /\ disk' = (disk \ {p}) \cup {q} /\ claims' = claims \cup {q}
        /\ th' = [th EXCEPT ![t].pc = "utc_rec", ![t].path = q]
    BY <1>2 DEF RenameUtc
  <2>2. Renames(t)
    BY <1>a, <1>b, <1>2, <2>1 DEF RenameUtc, Renames, Moves, OthersSame, Locals, queue, world, store
  <2> QED
    BY <2>2
<1> QED
  BY <1>1, <1>2

(* The moves to the processed and to the failed folder. *)
LEMMA OwnerLeaves ==
    ASSUME Plain, Inv, NEW t \in Threads, Active(t), MoveBad(t) \/ Finalize(t) \/ MoveFailed(t)
    PROVE  (Keeps(t) /\ (ReadsJob(t) \/ WritesJob(t))) \/ Leaves(t)
<1> DEFINE p == th[t].path
<1>a. th \in [Threads -> Locals]
  BY DEF Inv, IInv, TypeOK, ThreadsOK
<1>b. p \in Paths /\ p \in disk
  <2>1. th[t].pc \in Owner \ Moved
    BY DEF MoveBad, Finalize, At, MoveFailed, Owner, Inside, PCs, Moved
  <2> QED
    BY <2>1, OwnerHas DEF Inv, FlightInv, PlaceInv
<1>c. \A d \in {"processed", "failed"} : Free(In(p, d), disk) = In(p, d)
  BY <1>b, OwnerMoves
<1>1. CASE MoveBad(t)
  <2>1. \/ disk' = disk /\ th' = [th EXCEPT ![t].pc = "exit"]
        \/ disk' = (disk \ {p}) \cup {In(p, "failed")} /\ th' = [th EXCEPT ![t].pc = "bad_rec"]
    BY <1>1, <1>c DEF MoveBad, Go
  <2>2. th[t].pc = "bad" /\ UNCHANGED <<jobs, rows, claims, queued, pending, phase, arrived>>
    BY <1>1 DEF MoveBad, memory, world, store
  <2> QED
    BY <1>a, <1>b, <2>1, <2>2 DEF Keeps, ReadsJob, Leaves, Moves, Hop, OthersSame, Locals, store
<1>2. CASE Finalize(t)
  <2>1. \/ disk' = disk /\ th' = [th EXCEPT ![t].pc = "exit"]
        \/ /\ disk' = (disk \ {p}) \cup {In(p, "processed")}
           /\ th' = [th EXCEPT ![t].pc = "final_rec", ![t].src = In(p, "processed")]
    BY <1>2, <1>b, <1>c DEF Finalize, Go
  <2>2. th[t].pc = "work" /\ UNCHANGED <<jobs, rows, claims, queued, pending, phase, arrived>>
    BY <1>2, <1>b DEF Finalize, At, memory, world
  <2> QED
    BY <1>a, <1>b, <2>1, <2>2
    DEF Keeps, WritesJob, JobSame, Leaves, Moves, Hop, OthersSame, Locals
<1>3. CASE MoveFailed(t)
  <2>1. \/ disk' = disk /\ th' = [th EXCEPT ![t].pc = "exit"]
        \/ /\ disk' = (disk \ {p}) \cup {In(p, "failed")}
           /\ th' = [th EXCEPT ![t].pc = "fail_rec", ![t].src = In(p, "failed")]
    BY <1>3, <1>c DEF MoveFailed, Go
  <2>2. th[t].pc = "fail" /\ UNCHANGED <<jobs, rows, claims, queued, pending, phase, arrived>>
    BY <1>3 DEF MoveFailed, memory, world, store
  <2> QED
    BY <1>a, <1>b, <2>1, <2>2 DEF Keeps, ReadsJob, Leaves, Moves, Hop, OthersSame, Locals, store
<1> QED
  BY <1>1, <1>2, <1>3

(* The transactions that record where the clip is and what became of it. *)
LEMMA OwnerRecords ==
    ASSUME Plain, Inv, NEW t \in Threads, Active(t),
           \/ RecordUtc(t) \/ RecordBad(t) \/ RecordFailed(t) \/ RecordFinal(t)
           \/ DeferJob(t) \/ DeferRow(t) \/ DeleteRow(t)
    PROVE  Keeps(t) /\ WritesJob(t)
<1> DEFINE p == th[t].path
           k == th[t].key
           src == th[t].src
<1>a. th \in [Threads -> Locals] /\ JobsOK /\ JobInv /\ jobs \in [Keys -> {NoJob} \cup Jobs]
  BY DEF Inv, IInv, TypeOK, ThreadsOK, FlightInv, JobsOK
<1>b. /\ p \in Paths /\ k = KeyOf(p) /\ k \in Keys /\ p.name \in Names /\ jobs[k] \in Jobs
      /\ th[t].pc \in Inside
  BY OwnerHas DEF RecordUtc, RecordBad, RecordFailed, RecordFinal, DeferJob, DeferRow, DeleteRow,
                  Inside, PCs
<1>c. ~Taken(p, k)
  BY <1>a, <1>b, NotTaken
<1>d. th[t].pc \in {"fail_rec", "final_rec"} => src \in Paths /\ KeyOf(src) = k /\ ~Taken(src, k)
  <2>1. th[t].pc \in {"fail_rec", "final_rec"} =>
            /\ src \in disk /\ src.file = p.file /\ src.name = p.name
    BY OwnerHas DEF Inv, FlightInv, PlaceInv
  <2>2. disk \subseteq Paths
    BY DEF Inv, IInv, TypeOK, DiskOK
  <2>3. th[t].pc \in {"fail_rec", "final_rec"} => src \in Paths /\ KeyOf(src) = k
    BY <1>b, <2>1, <2>2, PlainKey
  <2> QED
    BY <1>a, <2>3, NotTaken
<1>e. /\ jobs[k].flags \subseteq Steps /\ "final" \in Steps /\ "renamed" \in Steps
      /\ jobs[k].path \in Paths
  BY <1>b, StepNames DEF Jobs
<1> DEFINE Put(new) == jobs' = [jobs EXCEPT ![k] = new]
<1>1. CASE RecordUtc(t)
  <2> DEFINE new == [jobs[k] EXCEPT !.flags = @ \cup {"renamed"}, !.path = p]
  <2>1. new \in Jobs /\ new.status = jobs[k].status /\ new.path = p /\ "renamed" \in new.flags
    BY <1>b, <1>e DEF Jobs
  <2>2. Put(new) /\ th' = [th EXCEPT ![t].pc = "remux", ![t].flags = @ \cup {"renamed"}]
    BY <1>a, <1>b, <1>c, <1>1 DEF RecordUtc
  <2>3. Keeps(t) /\ Hop(t, "utc_rec", {"remux"}) /\ UNCHANGED rows
    BY <1>a, <1>1, <2>2 DEF RecordUtc, Keeps, Hop, OthersSame, Locals, memory, world
  <2> HIDE DEF new
  <2> QED
    BY <2>1, <2>2, <2>3 DEF WritesJob
<1>2. CASE RecordBad(t)
  <2> DEFINE new == [jobs[k] EXCEPT !.status = "failed"]
  <2>1. new \in Jobs /\ new.status = "failed" /\ new.path = jobs[k].path /\ new.flags = jobs[k].flags
    BY <1>b, <1>e DEF Jobs
  <2>2. Put(new)
    BY <1>a, <1>b, <1>2 DEF RecordBad
  <2>3. Keeps(t) /\ Hop(t, "bad_rec", {"exit"}) /\ UNCHANGED rows
    BY <1>a, <1>2 DEF RecordBad, Go, Keeps, Hop, OthersSame, Locals, memory, world
  <2> HIDE DEF new
  <2> QED
    BY <2>1, <2>2, <2>3 DEF WritesJob, JobGets
<1>3. CASE RecordFailed(t)
  <2> DEFINE new == [jobs[k] EXCEPT !.status = "failed", !.path = src]
  <2>0. th[t].pc = "fail_rec"
    BY <1>3 DEF RecordFailed
  <2>1. new \in Jobs /\ new.status = "failed" /\ new.path = src /\ new.flags = jobs[k].flags
    BY <1>b, <1>d, <1>e, <2>0 DEF Jobs
  <2>2. Put(new)
    BY <1>a, <1>b, <1>d, <1>3, <2>0 DEF RecordFailed
  <2>3. Keeps(t) /\ Hop(t, "fail_rec", {"exit"}) /\ UNCHANGED rows
    BY <1>a, <1>3 DEF RecordFailed, Keeps, Hop, OthersSame, Locals, memory, world
  <2> HIDE DEF new
  <2> QED
    BY <2>1, <2>2, <2>3 DEF WritesJob, JobGets
<1>4. CASE RecordFinal(t)
  <2> DEFINE new == [jobs[k] EXCEPT !.flags = @ \cup {"final"}, !.status = "completed", !.path = src]
  <2>0. th[t].pc = "final_rec"
    BY <1>4 DEF RecordFinal
  <2>1. /\ new \in Jobs /\ new.status = "completed" /\ new.path = src
        /\ new.flags = jobs[k].flags \cup {"final"}
    BY <1>b, <1>d, <1>e, <2>0 DEF Jobs
  <2>2. /\ Put(new)
        /\ th' = [th EXCEPT ![t].pc = "final_del", ![t].flags = @ \cup {"final"}, ![t].src = None]
    BY <1>a, <1>b, <1>d, <1>4, <2>0 DEF RecordFinal
  <2>3. Keeps(t) /\ Hop(t, "final_rec", {"final_del"}) /\ UNCHANGED rows
    BY <1>a, <1>4, <2>2 DEF RecordFinal, Keeps, Hop, OthersSame, Locals, memory, world
  <2> HIDE DEF new
  <2> QED
    BY <2>1, <2>2, <2>3 DEF WritesJob, JobGets
<1>5. CASE DeferJob(t)
  <2> DEFINE new == [jobs[k] EXCEPT !.status = "pending_remote_sync"]
  <2>1. /\ new \in Jobs /\ new.status = "pending_remote_sync" /\ new.path = jobs[k].path
        /\ new.flags = jobs[k].flags
    BY <1>b, <1>e DEF Jobs
  <2>2. Put(new)
    BY <1>a, <1>b, <1>5 DEF DeferJob
  <2>3. /\ Keeps(t) /\ Hop(t, "defer", {"defer_row"}) /\ UNCHANGED rows
        /\ th'[t].src = src
    BY <1>a, <1>5 DEF DeferJob, Go, Keeps, Hop, OthersSame, Locals, memory, world
  <2> HIDE DEF new
  <2> QED
    BY <2>1, <2>2, <2>3 DEF WritesJob, JobGets
<1>6. CASE DeferRow(t)
  <2>1. Keeps(t) /\ Hop(t, "defer_row", {"exit"}) /\ UNCHANGED jobs
    BY <1>a, <1>6 DEF DeferRow, Keeps, Hop, OthersSame, Locals, memory, world
  <2> QED
    BY <1>6, <2>1 DEF DeferRow, WritesJob
<1>7. CASE DeleteRow(t)
  <2>1. Keeps(t) /\ Hop(t, "final_del", {"exit"}) /\ UNCHANGED jobs
    BY <1>a, <1>7 DEF DeleteRow, Go, Keeps, Hop, OthersSame, Locals, memory, world
  <2> QED
    BY <1>7, <2>1 DEF DeleteRow, WritesJob
<1> QED
  BY <1>1, <1>2, <1>3, <1>4, <1>5, <1>6, <1>7

(* The steps of a job that are done here or elsewhere. *)
LEMMA OwnerSteps ==
    ASSUME Plain, Inv, NEW t \in Threads, Active(t),
           \/ Preview(t) \/ Record(t)
           \/ \E s \in RemoteSteps : Call(t, s) \/ CallRaises(t, s) \/ Deferred(t, s)
           \/ BookingMatched(t) \/ BookingUnmatched(t) \/ BookingRaises(t)
    PROVE  Keeps(t) /\ (ReadsJob(t) \/ WritesJob(t))
<1> DEFINE k == th[t].key
<1>a. th \in [Threads -> Locals] /\ jobs \in [Keys -> {NoJob} \cup Jobs]
  BY DEF Inv, IInv, TypeOK, ThreadsOK, JobsOK
<1>b. th[t].pc \in {"work", "record"}
  BY DEF Preview, Record, Call, CallRaises, Deferred, BookingMatched, BookingUnmatched,
         BookingRaises, At
<1>c. k \in Keys /\ jobs[k] \in Jobs
  BY <1>b, OwnerHas
<1>d. jobs[k].flags \subseteq Steps /\ jobs[k].tries \in Nat
  BY <1>c DEF Jobs
<1>e. th[t].pc = "record" => th[t].step \in Steps \ {"booking", "final", "renamed"}
  BY DEF Inv, IInv, ThreadInv, HoldsKey
<1>1. CASE Preview(t)
  <2>1. PICK pc \in {"record", "exit", "bad", "fail"} :
           \/ th' = [th EXCEPT ![t].pc = pc, ![t].step = "preview"]
           \/ th' = [th EXCEPT ![t].pc = pc]
    BY <1>1 DEF Preview, Go, Raise
  <2>2. th[t].pc = "work" /\ UNCHANGED <<disk, jobs, rows, claims, queued, pending, phase, arrived>>
    BY <1>1 DEF Preview, At, store, queue, world
  <2>3. Keeps(t) /\ Hop(t, "work", {"record", "exit", "bad", "fail"})
    BY <1>a, <2>1, <2>2 DEF Keeps, Hop, OthersSame, Locals
  <2> QED
    BY <2>2, <2>3 DEF WritesJob, Hop, JobSame
<1>2. ASSUME NEW s \in RemoteSteps, Call(t, s) \/ CallRaises(t, s)
      PROVE  Keeps(t) /\ WritesJob(t)
  <2>1. /\ th[t].pc = "work" /\ UNCHANGED <<disk, jobs, rows, claims, queued, pending, phase, arrived>>
    BY <1>2 DEF Call, CallRaises, At, store, queue, world, memory
  <2>2. ASSUME Call(t, s) PROVE Keeps(t) /\ Hop(t, "work", {"record", "exit", "fail"})
    BY <1>a, <2>1, <2>2 DEF Call, Keeps, Hop, OthersSame, Locals
  <2>3. ASSUME CallRaises(t, s) PROVE Keeps(t) /\ Hop(t, "work", {"record", "exit", "fail"})
    <3> DEFINE late == th[t].started \/ s \in {"original", "previewUp"}
    <3>1. PICK pc \in {"exit", IF late THEN "exit" ELSE "fail"} :
             th' = [th EXCEPT ![t].started = late, ![t].pc = pc]
      BY <2>3 DEF CallRaises
    <3>2. pc \in {"exit", "fail"}
      OBVIOUS
    <3> HIDE DEF late
    <3> QED
      BY <1>a, <2>1, <3>1, <3>2 DEF Keeps, Hop, OthersSame, Locals
  <2>4. Keeps(t) /\ Hop(t, "work", {"record", "exit", "fail"})
    BY <1>2, <2>2, <2>3
  <2> QED
    BY <2>1, <2>4 DEF WritesJob, Hop, JobSame
<1>3. ASSUME NEW s \in RemoteSteps, Deferred(t, s)
      PROVE  Keeps(t) /\ ReadsJob(t)
  <2>1. /\ th[t].pc = "work" /\ UNCHANGED <<disk, jobs, rows, claims, queued, pending, phase, arrived>>
    BY <1>3 DEF Deferred, At, store, queue, world, memory
  <2>2. PICK started : th' = [th EXCEPT ![t].pc = "defer", ![t].step = s,
                                        ![t].src = jobs[k].path, ![t].started = started]
    BY <1>3 DEF Deferred
  <2>3. Keeps(t) /\ Hop(t, "work", {"defer"}) /\ th'[t].src = jobs[k].path
    BY <1>a, <2>1, <2>2 DEF Keeps, Hop, OthersSame, Locals
  <2> QED
    BY <2>1, <2>3 DEF ReadsJob, store
<1>4. CASE Record(t)
  <2> DEFINE s == th[t].step
             new == [jobs[k] EXCEPT !.flags = @ \cup {s}]
  <2>0. th[t].pc = "record" /\ s \in Steps /\ s # "renamed"
    BY <1>4, <1>e DEF Record
  <2>1. /\ new \in Jobs /\ new.status = jobs[k].status /\ new.path = jobs[k].path
        /\ new.flags = jobs[k].flags \cup {s}
    BY <1>c, <1>d, <2>0 DEF Jobs
  <2>2. /\ jobs' = [jobs EXCEPT ![k] = new]
        /\ th' = [th EXCEPT ![t].pc = "work", ![t].step = "none", ![t].flags = @ \cup {s}]
    BY <1>a, <1>c, <1>4 DEF Record
  <2>3. Keeps(t) /\ Hop(t, "record", {"work"}) /\ UNCHANGED rows
    BY <1>a, <1>4, <2>0, <2>2 DEF Record, Keeps, Hop, OthersSame, Locals, queue, world
  <2>4. JobSame(k)
    <3> HIDE DEF new
    <3> QED
      BY <2>0, <2>1, <2>2 DEF JobSame, JobGets
  <2> QED
    BY <2>3, <2>4 DEF WritesJob
<1>5. CASE BookingMatched(t) \/ BookingUnmatched(t) \/ BookingRaises(t)
  <2>0. "booking" \in Steps /\ jobs[k].tries + 1 \in Nat
    BY <1>d, StepNames
  <2>1. JobSame(k) /\ UNCHANGED rows
    <3> DEFINE done == [jobs[k] EXCEPT !.flags = @ \cup {"booking"}, !.tries = @ + 1, !.bookAt = "never"]
               again == [jobs[k] EXCEPT !.tries = @ + 1, !.bookAt = "waiting"]
    <3>1. /\ done \in Jobs /\ done.status = jobs[k].status /\ done.path = jobs[k].path
          /\ done.flags = jobs[k].flags \cup {"booking"}
      BY <1>c, <1>d, <2>0 DEF Jobs
    <3>2. /\ again \in Jobs /\ again.status = jobs[k].status /\ again.path = jobs[k].path
          /\ again.flags = jobs[k].flags
      BY <1>c, <1>d, <2>0 DEF Jobs
    <3>3. /\ \/ jobs' = [jobs EXCEPT ![k] = done]
             \/ jobs' = [jobs EXCEPT ![k] = again]
             \/ jobs' = jobs
          /\ UNCHANGED rows
      BY <1>a, <1>c, <1>5 DEF BookingMatched, BookingUnmatched, BookingRaises, store
    <3> HIDE DEF done, again
    <3> QED
      BY <3>1, <3>2, <3>3 DEF JobSame, JobGets
  <2>2. \/ th' = [th EXCEPT ![t].flags = @ \cup {"booking"}]
        \/ th' = [th EXCEPT ![t].pc = "exit"]
    BY <1>5 DEF BookingMatched, BookingUnmatched, BookingRaises, Go
  <2>3. th[t].pc = "work" /\ UNCHANGED <<disk, claims, queued, pending, phase, arrived>>
    BY <1>5 DEF BookingMatched, BookingUnmatched, BookingRaises, At, memory, world
  <2>4. Keeps(t) /\ Hop(t, "work", {"work", "exit"})
    BY <1>a, <2>2, <2>3 DEF Keeps, Hop, OthersSame, Locals
  <2> QED
    BY <2>1, <2>4 DEF WritesJob, Hop
<1> QED
  BY <1>1, <1>2, <1>3, <1>4, <1>5

LEMMA OwnerStep ==
    ASSUME Plain, Inv, NEW t \in Threads, Active(t), Step(t)
    PROVE  Works(t) \/ Renames(t) \/ Leaves(t)
<1>1. th[t].pc \notin {"ready", "move", "reclaim", "insert", "remux_rec", "remux_rm", "orphan", "exit", "done"}
  BY OwnerHas DEF Active, Owner, Inside, PCs, Inv, FlightInv, PathsInv
<1>2. ~(\/ Ready(t) \/ MoveIn(t) \/ Reclaim(t) \/ Insert(t) \/ RecordRemux(t) \/ RemoveSource(t)
        \/ MoveOrphan(t) \/ Exit(t) \/ Done(t))
  BY <1>1 DEF Ready, MoveIn, Reclaim, Insert, RecordRemux, RemoveSource, MoveOrphan, Exit, Done
<1>3. {"original", "previewUp", "row"} \subseteq RemoteSteps
  BY DEF RemoteSteps
<1> QED
  BY <1>2, <1>3, OwnerResumes, OwnerTakes, OwnerReads, OwnerRenames, OwnerLeaves, OwnerRecords,
     OwnerSteps DEF Step, Works

(* A thread that owns nothing comes in, or goes. *)
LEMMA GuestSteps ==
    ASSUME Inv, NEW t \in Threads, ~Active(t), Step(t)
    PROVE  Ready(t) \/ MoveIn(t) \/ Reclaim(t) \/ Insert(t) \/ Exit(t) \/ Done(t)
<1>1. /\ th[t].pc \notin {"resume", "adopt", "rebind", "reopen"}
      /\ th[t].pc \notin Inside
  BY DEF Active, Owner
<1>2. th[t].pc \notin {"remux_rec", "remux_rm", "orphan"}
  BY DEF Inv, FlightInv, PathsInv, Present
<1> QED
  BY <1>1, <1>2 DEF Step, Inside, PCs, Resume, Adopt, Rebind, Reopen, Body, Gate, RenameUtc,
     RecordUtc, Remux, RecordRemux, RemoveSource, Preview, At, MoveBad, RecordBad, Call, CallRaises,
     Deferred, Record, BookingMatched, BookingUnmatched, BookingRaises, DeferJob, DeferRow,
     Finalize, RecordFinal, DeleteRow, NothingLeft, MoveFailed, RecordFailed, MoveOrphan

(***************************************************************************)
(* The invariant under the steps of an owner                               *)
(***************************************************************************)

(* The job of an owner stays the job of its clip. *)
JobFits(p, new) ==
    /\ KeyOf(new.path) = KeyOf(p) /\ new.path.name \in Names /\ new.path.file \in arrived
    /\ "renamed" \in new.flags =>
           new.path.name = "utc" /\ \A q \in disk : KeyOf(q) = KeyOf(p) => q.name = "utc"
JobMoves(t) ==
    \/ UNCHANGED jobs
    \/ th[t].pc # "resume" /\ \E new \in Jobs :
           jobs' = [jobs EXCEPT ![th[t].key] = new] /\ JobFits(th[t].path, new)

LEMMA WorksJob ==
    ASSUME Plain, Inv, NEW t \in Threads, Active(t), Works(t)
    PROVE  JobMoves(t)
<1> DEFINE p == th[t].path
           k == th[t].key
           src == th[t].src
<1>a. /\ jobs \in [Keys -> {NoJob} \cup Jobs] /\ JobInv /\ disk \subseteq Paths
      /\ DiskInv
  BY DEF Inv, IInv, TypeOK, JobsOK, DiskOK, FlightInv
<1>b. p \in Paths /\ p.name \in Names /\ KeyOf(p) \in Keys /\ p.file \in arrived
  BY OwnerHas DEF Inv, FlightInv, PathsInv
(* The old path, the thread's own path, or the one its file was moved to. *)
<1>1. ASSUME th[t].pc \notin {"resume", "adopt"}, NEW status, NEW q, JobGets(k, status, q),
             \/ q = jobs[k].path
             \/ q = p /\ p \in disk
             \/ q = src /\ th[t].pc \in {"fail_rec", "final_rec"}
      PROVE  JobMoves(t)
  <2>1. PICK new \in Jobs : /\ jobs' = [jobs EXCEPT ![k] = new] /\ new.path = q
                            /\ "renamed" \in new.flags => "renamed" \in jobs[k].flags
    BY <1>1 DEF JobGets
  <2>2. k = KeyOf(p) /\ jobs[k] \in Jobs /\ jobs[k].status # "none"
    <3>1. k = KeyOf(p) /\ jobs[k] \in Jobs
      BY <1>1, OwnerHas
    <3> QED
      BY <3>1 DEF Jobs
  <2>3. q # jobs[k].path => q \in disk /\ q.file = p.file /\ q.name \in Names
    BY <1>1, <1>b, OwnerHas DEF Inv, FlightInv, PlaceInv
  <2>4. KeyOf(q) = k /\ q.name \in Names /\ q.file \in arrived
    BY <1>a, <1>b, <2>2, <2>3, PlainKey DEF JobInv, DiskInv
  <2>5. "renamed" \in jobs[k].flags => q.name = "utc" /\ \A r \in disk : KeyOf(r) = k => r.name = "utc"
    BY <1>a, <1>b, <2>2, <2>3, <2>4 DEF JobInv
  <2> QED
    BY <1>1, <2>1, <2>2, <2>4, <2>5 DEF JobMoves, JobFits
<1>c. th[t].pc \in Owner \ Moved => p \in disk
  BY OwnerHas DEF Inv, FlightInv, PlaceInv
<1>2. CASE FindsJob(t)
  BY <1>2 DEF FindsJob, JobMoves, store
<1>3. CASE TakesJob(t)
  <2>1. CASE jobs' = [jobs EXCEPT ![k] = NewJob(p)] /\ th[t].pc = "adopt"
    <3>1. NewJob(p) \in Jobs /\ NewJob(p).flags = {} /\ NewJob(p).path = p
      BY <1>b, NewJobType DEF NewJob, NoJob
    <3> QED
      BY <1>b, <2>1, <3>1 DEF JobMoves, JobFits
  <2>2. CASE UNCHANGED jobs
    BY <2>2 DEF JobMoves
  <2>3. CASE th[t].pc = "rebind" /\ JobGets(k, jobs[k].status, p)
    BY <1>1, <1>c, <2>3 DEF Owner, Moved
  <2>4. CASE th[t].pc = "reopen" /\ JobGets(k, "processing", jobs[k].path)
    BY <1>1, <1>c, <2>4 DEF Owner, Moved
  <2> QED
    BY <1>3, <2>1, <2>2, <2>3, <2>4 DEF TakesJob, Hop
<1>4. CASE ReadsJob(t)
  BY <1>4 DEF ReadsJob, JobMoves, store
<1>5. CASE WritesJob(t)
  <2>1. CASE UNCHANGED jobs
    BY <2>1 DEF JobMoves
  <2>2. CASE th[t].pc = "utc_rec" /\ \E new \in Jobs : jobs' = [jobs EXCEPT ![k] = new] /\ new.path = p
    <3>1. p.name = "utc" /\ \A q \in disk : q.file = p.file => q.name = "utc"
      BY <2>2, OwnerHas DEF Inv, FlightInv, HoldInv, Renamed, PlaceInv
    <3>2. \A q \in disk : KeyOf(q) = KeyOf(p) => q.file = p.file
      BY <1>a, <1>b, PlainKey
    <3> QED
      BY <1>b, <2>2, <3>1, <3>2 DEF JobMoves, JobFits
  <2>3. CASE th[t].pc \in {"work", "record"} /\ JobSame(k)
    BY <1>1, <1>c, <2>1, <2>3 DEF JobSame, Owner, Inside, PCs, Moved
  <2>4. CASE th[t].pc = "defer" /\ JobGets(k, "pending_remote_sync", jobs[k].path)
    BY <1>1, <1>c, <2>4 DEF Owner, Inside, PCs, Moved
  <2>5. CASE th[t].pc = "bad_rec" /\ JobGets(k, "failed", jobs[k].path)
    BY <1>1, <2>5
  <2>6. CASE th[t].pc = "fail_rec" /\ JobGets(k, "failed", src)
    BY <1>1, <2>6, OwnerHas DEF Inv, FlightInv, PlaceInv
  <2>7. CASE th[t].pc = "final_rec" /\ JobGets(k, "completed", src)
    BY <1>1, <2>7, OwnerHas DEF Inv, FlightInv, PlaceInv
  <2> QED
    BY <1>5, <2>1, <2>2, <2>3, <2>4, <2>5, <2>6, <2>7 DEF WritesJob, Hop
<1> QED
  BY <1>2, <1>3, <1>4, <1>5 DEF Works

LEMMA WorksPC ==
    ASSUME NEW t \in Threads, Active(t), Works(t)
    PROVE  /\ th'[t].pc \in (Owner \ {"resume", "remux_rec", "remux_rm"}) \cup {"exit"}
           /\ th'[t].pc \in Owner \ Moved => th[t].pc \in Owner \ Moved
           /\ th'[t].pc \in Moved => th'[t].pc = "final_del" /\ th[t].pc = "final_rec"
           /\ Present(t) /\ Present(t)'
BY DEF Works, FindsJob, TakesJob, ReadsJob, WritesJob, Hop, Active, Owner, Moved, Inside, PCs, Present

(* Its own paths, and where its file is. *)
LEMMA WorksPlace ==
    ASSUME Plain, Inv, NEW t \in Threads, Active(t), Works(t), JobsGrow
    PROVE  PathsInv(t)' /\ PlaceInv(t)' /\ ClaimInv(t)'
<1>a. /\ th'[t].sub = th[t].sub /\ th'[t].orig = th[t].orig /\ th'[t].path = th[t].path
      /\ UNCHANGED <<disk, claims, arrived>> /\ \A u \in Threads \ {t} : th'[u] = th[u]
  BY DEF Works, Keeps, OthersSame
<1>b. /\ th'[t].pc \in (Owner \ {"resume"}) \cup {"exit"}
      /\ th'[t].pc \in Owner \ Moved => th[t].pc \in Owner \ Moved
      /\ th'[t].pc \in Moved => th'[t].pc = "final_del" /\ th[t].pc = "final_rec"
      /\ Present(t) /\ Present(t)'
  BY WorksPC
<1>c. /\ FromProcessing(t) /\ th[t].orig.dir = "processing" /\ th[t].path.dir = "processing"
      /\ KeyOf(th[t].path) \in Keys
  BY OwnerHas
<1>d. PathsInv(t) /\ PlaceInv(t) /\ ClaimInv(t)
  BY DEF Inv, FlightInv
<1>1. PathsInv(t)'
  <2>1. th'[t].pc \notin {"orphan", "remux_rec", "remux_rm", "insert", "resume"}
    BY WorksPC DEF Owner, Inside, PCs
  <2>2. FromProcessing(t)'
    BY <1>a, <1>b, <1>c, <2>1 DEF FromProcessing
  <2> QED
    BY <1>a, <1>b, <1>c, <1>d, <2>1, <2>2 DEF PathsInv
<1>2. PlaceInv(t)'
  <2>1. th'[t].pc \notin {"reclaim", "insert", "fail_rec", "final_rec"}
    BY <1>b DEF Owner, Inside, PCs, Moved
  <2>2. jobs[KeyOf(th[t].path)].status # "none" => jobs'[KeyOf(th[t].path)].status # "none"
    BY <1>c DEF JobsGrow
  <2>3. th[t].pc = "final_rec" => th[t].pc \in Moved
    BY DEF Moved
  <2> QED
    BY <1>a, <1>b, <1>d, <2>1, <2>2, <2>3 DEF PlaceInv
<1>3. ClaimInv(t)'
  <2>1. \A u \in Threads : Present(u)' => Present(u) /\ th'[u].orig = th[u].orig
    BY <1>a, <1>b DEF Present
  <2> QED
    BY <1>a, <1>b, <1>d, <2>1 DEF ClaimInv
<1> QED
  BY <1>1, <1>2, <1>3

(* What it knows of its job. *)
LEMMA WorksHold ==
    ASSUME Plain, Inv, NEW t \in Threads, Active(t), Works(t)
    PROVE  HoldInv(t)'
<1> DEFINE p == th[t].path
           k == th[t].key
<1>a. th'[t].path = p
  BY DEF Works, Keeps
<1>b. /\ th[t].pc # "resume" => k = KeyOf(p)
      /\ th[t].pc \notin {"resume", "adopt"} => jobs[k] \in Jobs
      /\ p \in Paths /\ KeyOf(p) \in Keys
  BY OwnerHas
<1>c. HoldInv(t)
  BY DEF Inv, FlightInv
<1>d. jobs \in [Keys -> {NoJob} \cup Jobs]
  BY DEF Inv, IInv, TypeOK, JobsOK
<1>1. CASE FindsJob(t)
  BY <1>1, <1>a, <1>b DEF FindsJob, HoldInv, store, Owner, Inside, PCs, Bound, Renamed
<1>2. CASE TakesJob(t)
  <2>1. CASE jobs' = [jobs EXCEPT ![k] = NewJob(p)] /\ Hop(t, "adopt", {"body"})
    <3>1. jobs'[k].status = "processing" /\ jobs'[k].path = p
      BY <1>b, <1>d, <2>1, NewJobType DEF Hop, NewJob, NoJob
    <3> QED
      BY <1>a, <1>b, <2>1, <3>1 DEF Hop, HoldInv, Owner, Inside, PCs, Bound, Renamed
  <2>2. CASE Hop(t, "adopt", {"exit"})
    BY <2>2 DEF Hop, HoldInv, Owner, Inside, PCs, Bound, Renamed
  <2>3. CASE Hop(t, "adopt", {"rebind"}) /\ jobs[k].status # "completed" /\ UNCHANGED jobs
    BY <1>a, <1>b, <2>3 DEF Hop, HoldInv, Owner, Inside, PCs, Bound, Renamed
  <2>4. CASE /\ \/ Hop(t, "rebind", {"exit"})
                \/ Hop(t, "rebind", {"reopen"}) /\ jobs[k].status \in {"pending_remote_sync", "stale"}
                \/ Hop(t, "rebind", {"body"}) /\ jobs[k].status = "processing"
             /\ JobGets(k, jobs[k].status, p)
    <3>1. jobs'[k].status = jobs[k].status /\ jobs'[k].path = p
      BY <1>b, <1>d, <2>4 DEF Hop, JobGets
    <3> QED
      BY <1>a, <1>b, <2>4, <3>1 DEF Hop, HoldInv, Owner, Inside, PCs, Bound, Renamed
  <2>5. CASE Hop(t, "reopen", {"body"}) /\ JobGets(k, "processing", jobs[k].path)
    <3>1. jobs'[k].status = "processing" /\ jobs'[k].path = jobs[k].path
      BY <1>b, <1>d, <2>5 DEF Hop, JobGets
    <3>2. jobs[k].path = p
      BY <1>c, <2>5 DEF Hop, HoldInv, Bound
    <3> QED
      BY <1>a, <1>b, <2>5, <3>1, <3>2 DEF Hop, HoldInv, Owner, Inside, PCs, Bound, Renamed
  <2> QED
    BY <1>2, <2>1, <2>2, <2>3, <2>4, <2>5 DEF TakesJob
<1>3. CASE ReadsJob(t)
  <2>1. /\ UNCHANGED jobs /\ th[t].pc # "resume" /\ k = KeyOf(p)
        /\ th[t].pc \in {"body", "work"} => jobs[k].path = p
    BY <1>3, <1>b, <1>c DEF ReadsJob, Hop, store, HoldInv, Bound
  <2>2. CASE /\ Hop(t, "body", {"gate"})
             /\ th'[t].flags = jobs[k].flags /\ th'[t].src = jobs[k].path
    <3>1. "renamed" \in jobs[k].flags => p.name = "utc"
      BY <1>b, <2>1, <2>2 DEF Hop, Inv, FlightInv, JobInv
    <3> QED
      BY <1>a, <1>c, <2>1, <2>2, <3>1 DEF Hop, HoldInv, Owner, Inside, PCs, Bound, Renamed
  <2>3. CASE \/ Hop(t, "gate", {"remux"}) /\ "renamed" \in th[t].flags
             \/ Hop(t, "gate", {"utc"}) \/ Hop(t, "utc", {"fail"}) \/ Hop(t, "remux", {"work"})
             \/ Hop(t, "utc", {"utc_rec"}) /\ p.name = "utc"
    BY <1>a, <1>c, <2>1, <2>3 DEF Hop, HoldInv, Owner, Inside, PCs, Bound, Renamed
  <2>4. CASE \/ Hop(t, "work", {"defer"}) /\ th'[t].src = jobs[k].path
             \/ Hop(t, "bad", {"exit"}) \/ Hop(t, "fail", {"exit"})
    BY <1>a, <1>c, <2>1, <2>4 DEF Hop, HoldInv, Owner, Inside, PCs, Bound, Renamed
  <2> QED
    BY <1>3, <2>2, <2>3, <2>4 DEF ReadsJob
<1>4. CASE WritesJob(t)
  <2>1. th[t].pc # "resume" /\ k = KeyOf(p) /\ jobs[k] \in Jobs
    BY <1>4, <1>b DEF WritesJob, Hop
  <2>2. \A status, q : JobGets(k, status, q) => jobs'[k].status = status /\ jobs'[k].path = q
    BY <1>b, <1>d, <2>1 DEF JobGets
  <2>3. JobSame(k) => jobs'[k].status = jobs[k].status /\ jobs'[k].path = jobs[k].path
    BY <2>2 DEF JobSame
  <2>4. CASE /\ Hop(t, "utc_rec", {"remux"})
             /\ \E new \in Jobs : /\ jobs' = [jobs EXCEPT ![k] = new]
                                  /\ new.status = jobs[k].status /\ new.path = p
    <3>1. jobs'[k].status = jobs[k].status /\ jobs'[k].path = p
      BY <1>b, <1>d, <2>1, <2>4
    <3> QED
      BY <1>a, <1>c, <2>1, <2>4, <3>1 DEF Hop, HoldInv, Owner, Inside, PCs, Bound, Renamed
  <2>5. CASE /\ Hop(t, "work", {"work", "record", "exit", "bad", "fail"}) \/ Hop(t, "record", {"work"})
             /\ JobSame(k)
    BY <1>a, <1>c, <2>1, <2>3, <2>5 DEF Hop, HoldInv, Owner, Inside, PCs, Bound, Renamed
  <2>6. CASE /\ Hop(t, "defer", {"defer_row"}) /\ th'[t].src = th[t].src
             /\ JobGets(k, "pending_remote_sync", jobs[k].path)
    BY <1>a, <1>c, <2>1, <2>2, <2>6 DEF Hop, HoldInv, Owner, Inside, PCs, Bound, Renamed
  <2>7. CASE \/ Hop(t, "bad_rec", {"exit"}) \/ Hop(t, "fail_rec", {"exit"})
             \/ Hop(t, "defer_row", {"exit"}) \/ Hop(t, "final_del", {"exit"})
    BY <2>7 DEF Hop, HoldInv, Owner, Inside, PCs, Bound, Renamed
  <2>8. CASE Hop(t, "final_rec", {"final_del"}) /\ JobGets(k, "completed", th[t].src)
    BY <1>a, <1>c, <2>1, <2>2, <2>8 DEF Hop, HoldInv, Owner, Inside, PCs, Bound, Renamed
  <2> QED
    BY <1>4, <2>4, <2>5, <2>6, <2>7, <2>8 DEF WritesJob
<1> QED
  BY <1>1, <1>2, <1>3, <1>4 DEF Works

(* Whoever holds a job is an owner, and two owners have two recordings. *)
LEMMA OtherJob ==
    ASSUME Plain, Inv, NEW t \in Threads, NEW u \in Threads, t # u, Active(t), Active(u)
    PROVE  KeyOf(th[t].path) # KeyOf(th[u].path)
BY OwnerHas, PlainKey DEF Inv, FlightInv, PairInv

LEMMA WorksOthers ==
    ASSUME Plain, Inv, NEW t \in Threads, Active(t), Works(t), JobsGrow, JobMoves(t),
           NEW u \in Threads, u # t
    PROVE  PathsInv(u)' /\ PlaceInv(u)' /\ ClaimInv(u)' /\ HoldInv(u)'
<1>a. /\ th'[u] = th[u] /\ UNCHANGED <<disk, claims, arrived>>
      /\ \A v \in Threads \ {t} : th'[v] = th[v]
      /\ th'[t].orig = th[t].orig /\ Present(t)
  BY WorksPC DEF Works, Keeps, OthersSame
<1>b. PathsInv(u) /\ PlaceInv(u) /\ ClaimInv(u) /\ HoldInv(u)
  BY DEF Inv, FlightInv
<1>c. Present(u) => KeyOf(th[u].path) \in Keys
  BY PathOps DEF Inv, IInv, ThreadInv, HoldsPaths, Present
<1>1. PathsInv(u)'
  BY <1>a, <1>b DEF PathsInv, Present, FromIncoming, FromProcessing
<1>2. PlaceInv(u)'
  <2>1. Present(u) /\ jobs[KeyOf(th[u].path)].status # "none" =>
            jobs'[KeyOf(th[u].path)].status # "none"
    BY <1>c DEF JobsGrow
  <2> QED
    BY <1>a, <1>b, <2>1 DEF PlaceInv, Present
<1>3. ClaimInv(u)'
  <2>1. \A v \in Threads : Present(v)' => Present(v) /\ th'[v].orig = th[v].orig
    BY <1>a DEF Present
  <2> QED
    BY <1>a, <1>b, <2>1 DEF ClaimInv, Present
<1>4. HoldInv(u)'
  <2>1. Active(u) /\ th[u].pc # "resume" => jobs'[th[u].key] = jobs[th[u].key]
    <3> SUFFICES ASSUME Active(u), th[u].pc # "resume" PROVE jobs'[th[u].key] = jobs[th[u].key]
      OBVIOUS
    <3>1. th[u].key = KeyOf(th[u].path) /\ th[u].key \in Keys
      BY OwnerHas
    <3>2. th[t].pc # "resume" => th[t].key = KeyOf(th[t].path)
      BY OwnerHas
    <3>3. th[t].pc # "resume" => th[t].key # th[u].key
      BY <3>1, <3>2, OtherJob
    <3> QED
      BY <3>1, <3>3 DEF JobMoves, Inv, IInv, TypeOK, JobsOK
  <2>2. th[u].pc \in Bound \cup Inside \cup {"rebind", "reopen"} => Active(u) /\ th[u].pc # "resume"
    BY DEF Bound, Inside, PCs, Active, Owner
  <2>3. th[u].pc \in Bound \cup Inside \cup {"rebind", "reopen"} =>
            jobs'[th[u].key] = jobs[th[u].key]
    BY <2>1, <2>2
  <2>4. th[u].pc \in {"rebind", "reopen"} => jobs'[th[u].key].status # "completed"
    BY <1>b, <2>3 DEF HoldInv
  <2>5. /\ th[u].pc \in Bound => jobs'[th[u].key].path = th[u].path
        /\ th[u].pc \in Inside \ {"defer_row", "final_del"} =>
               jobs'[th[u].key].status \in {"processing", "failed"}
    BY <1>b, <2>3 DEF HoldInv
  <2>6. /\ th[u].pc = "defer_row" =>
               jobs'[th[u].key].status \in {"processing", "failed", "pending_remote_sync"}
        /\ th[u].pc = "final_del" =>
               jobs'[th[u].key].status \in {"processing", "failed", "completed"}
    <3>1. {"defer_row", "final_del"} \subseteq Inside
      BY DEF Inside, PCs
    <3> QED
      BY <1>b, <2>3, <3>1 DEF HoldInv
  <2> QED
    BY <1>a, <1>b, <2>4, <2>5, <2>6 DEF HoldInv
<1> QED
  BY <1>1, <1>2, <1>3, <1>4

LEMMA JobInvMoves ==
    ASSUME JobsOK, JobInv, JobsGrow, UNCHANGED <<disk, arrived>>, disk \subseteq Paths,
           NEW k \in Keys, NEW new \in Jobs, NEW p, KeyOf(p) = k, JobFits(p, new),
           jobs' = [jobs EXCEPT ![k] = new]
    PROVE  JobInv'
<1>1. jobs'[k] = new /\ \A j \in Keys \ {k} : jobs'[j] = jobs[j]
  BY DEF JobsOK
<1>2. \A j \in Keys : jobs'[j].status # "none" =>
          /\ KeyOf(jobs'[j].path) = j /\ jobs'[j].path.name \in Names
          /\ jobs'[j].path.file \in arrived'
  BY <1>1 DEF JobInv, JobFits
<1>3. \A j \in Keys : "renamed" \in jobs'[j].flags =>
          jobs'[j].path.name = "utc" /\ \A q \in disk' : KeyOf(q) = j => q.name = "utc"
  BY <1>1 DEF JobInv, JobFits
<1>4. \A q \in disk' : q.name = "utc" => jobs'[KeyOf(q)].status # "none"
  BY PathOps DEF JobInv, JobsGrow
<1> QED
  BY <1>2, <1>3, <1>4 DEF JobInv

LEMMA WorksRows ==
    ASSUME Plain, Inv, NEW t \in Threads, Active(t), Works(t)
    PROVE  RowInv'
<1> DEFINE p == th[t].path
           k == th[t].key
<1>a. rows \in [Keys -> Rows] /\ RowInv /\ Drain \in Threads
  BY DEF Inv, IInv, TypeOK, RowsOK, FlightInv, Threads
<1>1. th'[Drain].pc = "begin" => Deferrable(th'[Drain].sub, th'[Drain].key)
  <2>1. th'[t].pc # "begin" /\ \A u \in Threads \ {t} : th'[u] = th[u]
    BY WorksPC DEF Works, Keeps, OthersSame, Present
  <2> QED
    BY <1>a, <2>1 DEF RowInv
<1>2. \A j \in Keys : rows'[j].queued => Deferrable(rows'[j].path, j)
  <2>1. CASE UNCHANGED rows
    BY <1>a, <2>1 DEF RowInv
  <2>2. CASE th[t].pc = "defer_row" /\ rows' = [rows EXCEPT ![k].queued = TRUE, ![k].path = th[t].src]
    <3> DEFINE new == [rows[k] EXCEPT !.queued = TRUE, !.path = th[t].src]
    <3>1. k \in Keys /\ KeyOf(p) = k /\ p.dir = "processing" /\ p.name = "utc" /\ th[t].src = p
      BY <2>2, OwnerHas DEF Inv, FlightInv, HoldInv, Renamed
    <3>2. rows' = [rows EXCEPT ![k] = new] /\ new.path = th[t].src
      BY <1>a, <2>2, <3>1 DEF Rows
    <3> HIDE DEF new
    <3> QED
      BY <1>a, <3>1, <3>2 DEF RowInv, Deferrable
  <2>3. CASE rows' = [rows EXCEPT ![k] = NoRow]
    BY <1>a, <2>3 DEF RowInv, NoRow
  <2> QED
    BY <2>1, <2>2, <2>3 DEF Works, FindsJob, TakesJob, ReadsJob, WritesJob, Hop, store
<1> QED
  BY <1>1, <1>2 DEF RowInv

LEMMA WorksKeeps ==
    ASSUME Plain, Inv, NEW t \in Threads, Active(t), Works(t), JobsGrow
    PROVE  FlightInv'
<1>a. JobMoves(t)
  BY WorksJob
<1>b. /\ UNCHANGED <<disk, arrived, phase>> /\ \A u \in Threads \ {t} : th'[u] = th[u]
      /\ th'[t].orig = th[t].orig /\ th'[t].path = th[t].path
  BY DEF Works, Keeps, OthersSame
<1>1. DiskInv'
  BY <1>b DEF Inv, FlightInv, DiskInv
<1>2. JobInv'
  <2>1. CASE UNCHANGED jobs
    BY <1>b, <2>1 DEF Inv, FlightInv, JobInv
  <2>2. CASE th[t].pc # "resume" /\ \E new \in Jobs :
               jobs' = [jobs EXCEPT ![th[t].key] = new] /\ JobFits(th[t].path, new)
    <3>1. th[t].key = KeyOf(th[t].path) /\ th[t].key \in Keys
      BY <2>2, OwnerHas
    <3>2. JobsOK /\ JobInv /\ disk \subseteq Paths
      BY DEF Inv, IInv, TypeOK, DiskOK, FlightInv
    <3> QED
      BY <1>b, <2>2, <3>1, <3>2, JobInvMoves
  <2> QED
    BY <1>a, <2>1, <2>2 DEF JobMoves
<1>3. RowInv'
  BY WorksRows
<1>4. ASSUME NEW u \in Threads PROVE PathsInv(u)' /\ PlaceInv(u)' /\ ClaimInv(u)' /\ HoldInv(u)'
  BY <1>a, WorksPlace, WorksHold, WorksOthers
<1>5. ASSUME NEW u \in Threads, NEW v \in Threads PROVE PairInv(u, v)'
  <2>1. \A w \in Threads : /\ Present(w)' => Present(w)
                           /\ Active(w)' => Active(w)
                           /\ th'[w].orig = th[w].orig /\ th'[w].path = th[w].path
    BY <1>b, WorksPC DEF Present, Active
  <2> QED
    BY <2>1 DEF Inv, FlightInv, PairInv
<1>6. phase' # "down"
  BY <1>b DEF Inv, FlightInv, Active, Owner, Inside, PCs
<1> QED
  BY <1>1, <1>2, <1>3, <1>4, <1>5, <1>6 DEF FlightInv

(* A move changes where one recording is. *)
LEMMA MovedDisk ==
    ASSUME DiskInv, NEW p \in disk, NEW q, q.file = p.file, disk' = (disk \ {p}) \cup {q}
    PROVE  /\ q \in disk' /\ \A r \in disk' : r.file = p.file => r = q
           /\ \A r : r.file # p.file => (r \in disk' => r \in disk) /\ (r \in disk => r \in disk')
BY DEF DiskInv

LEMMA MovesOthers ==
    ASSUME Plain, Inv, NEW t \in Threads, Active(t), NEW q \in Paths, Moves(t, q),
           th[t].pc # "resume", th[t].pc # "adopt", q.file = th[t].path.file,
           q.dir # "incoming", q.name \in {th[t].path.name, "utc"}, claims \subseteq claims',
           Present(t)', NEW u \in Threads, u # t
    PROVE  PathsInv(u)' /\ PlaceInv(u)' /\ ClaimInv(u)' /\ HoldInv(u)'
<1> DEFINE p == th[t].path
<1>a. /\ p \in disk /\ disk' = (disk \ {p}) \cup {q} /\ th'[u] = th[u]
      /\ UNCHANGED <<jobs, arrived>> /\ th'[t].orig = th[t].orig
      /\ \A v \in Threads \ {t} : th'[v] = th[v]
  BY DEF Moves, OthersSame
<1>b. PathsInv(u) /\ PlaceInv(u) /\ ClaimInv(u) /\ HoldInv(u) /\ DiskInv /\ PairInv(t, u)
  BY DEF Inv, FlightInv
<1>c. /\ q \in disk' /\ \A r \in disk' : r.file = p.file => r = q
      /\ \A r : r.file # p.file => (r \in disk' => r \in disk) /\ (r \in disk => r \in disk')
  BY <1>a, <1>b, MovedDisk
<1>d. p \in Paths /\ p.dir = "processing" /\ Present(t) /\ p.name \in Names
  BY OwnerHas
<1>e. Present(u) => th[u].path \in Paths /\ th[u].orig \in Paths
  BY DEF Inv, IInv, ThreadInv, HoldsPaths, Present
<1>1. CASE Present(u) /\ th[u].path.file = p.file
  <2>1. th[u].pc \notin Owner
    BY <1>b, <1>d, <1>1 DEF PairInv, Active
  <2>2. th[u].pc \notin {"ready", "move"}
    BY <1>a, <1>b, <1>d, <1>1 DEF PathsInv, FromIncoming, FromProcessing, Owner, Inside, PCs, DiskInv
  <2>3. jobs[KeyOf(th[u].path)].status # "none"
    <3>1. KeyOf(th[u].path) = KeyOf(p) /\ th[t].key = KeyOf(p) /\ jobs[th[t].key] \in Jobs
      BY <1>b, <1>d, <1>e, <1>1, PlainKey, OwnerHas DEF PathsInv
    <3> QED
      BY <3>1 DEF Jobs
  <2>4. PathsInv(u)'
    BY <1>a, <1>b, <2>2 DEF PathsInv, Present, FromIncoming, FromProcessing
  <2>5. PlaceInv(u)'
    <3>1. th[u].path.name = "utc" => p.name = "utc"
      BY <1>a, <1>b, <1>1 DEF PlaceInv
    <3>2. th[u].path.name = "utc" => q.name = "utc"
      BY <3>1
    <3>3. th[u].pc \notin Owner \ Moved /\ th[u].pc \notin Moved
          /\ th[u].pc \notin {"fail_rec", "final_rec"}
      BY <2>1 DEF Owner, Moved, Inside, PCs
    <3> QED
      BY <1>a, <1>b, <1>c, <1>1, <2>3, <3>2, <3>3 DEF PlaceInv, Present
  <2> QED
    BY <1>a, <1>b, <1>d, <2>4, <2>5 DEF ClaimInv, HoldInv, Present
<1>2. CASE Present(u) /\ th[u].path.file # p.file
  <2>1. PathsInv(u)'
    BY <1>a, <1>b, <1>c, <1>2 DEF PathsInv, Present, FromIncoming, FromProcessing
  <2>2. PlaceInv(u)'
    BY <1>a, <1>b, <1>c, <1>2 DEF PlaceInv, Present
  <2> QED
    BY <1>a, <1>b, <1>d, <2>1, <2>2 DEF ClaimInv, HoldInv, Present
<1>3. CASE ~Present(u)
  BY <1>a, <1>b, <1>3 DEF PathsInv, PlaceInv, ClaimInv, HoldInv, Present
<1> QED
  BY <1>1, <1>2, <1>3

LEMMA MovesStore ==
    ASSUME Plain, Inv, NEW t \in Threads, Active(t), NEW q \in Paths, Moves(t, q),
           th[t].pc # "resume", th[t].pc # "adopt", q.file = th[t].path.file,
           q.dir # "incoming", q.name \in {th[t].path.name, "utc"}, th'[t].pc # "begin"
    PROVE  DiskInv' /\ JobInv' /\ RowInv'
<1> DEFINE p == th[t].path
           k == th[t].key
<1>a. /\ p \in disk /\ disk' = (disk \ {p}) \cup {q}
      /\ UNCHANGED <<jobs, rows, arrived>> /\ \A v \in Threads \ {t} : th'[v] = th[v]
  BY DEF Moves, OthersSame
<1>b. DiskInv /\ JobInv /\ RowInv /\ disk \subseteq Paths
  BY DEF Inv, FlightInv, IInv, TypeOK, DiskOK
<1>c. /\ q \in disk' /\ \A r \in disk' : r.file = p.file => r = q
      /\ \A r : r.file # p.file => (r \in disk' => r \in disk) /\ (r \in disk => r \in disk')
  BY <1>a, <1>b, MovedDisk
<1>d. p \in Paths /\ p.dir = "processing" /\ p.name \in Names /\ q.name \in Names
  BY OwnerHas DEF Names
<1>e. KeyOf(q) = k /\ KeyOf(p) = k /\ k \in Keys /\ jobs[k].status # "none"
  <2>1. KeyOf(p) = k /\ k \in Keys /\ jobs[k] \in Jobs
    BY OwnerHas
  <2> QED
    BY <1>d, <2>1, PlainKey DEF Jobs
<1>1. DiskInv'
  <2>1. p.file \in arrived
    BY <1>a, <1>b DEF DiskInv
  <2> QED
    BY <1>a, <1>b, <1>c, <1>d, <2>1 DEF DiskInv
<1>2. JobInv'
  <2>1. \A j \in Keys : "renamed" \in jobs[j].flags =>
            \A r \in disk' : KeyOf(r) = j => r.name = "utc"
    BY <1>a, <1>b, <1>e DEF JobInv
  <2>2. \A r \in disk' : r.name = "utc" => jobs[KeyOf(r)].status # "none"
    BY <1>a, <1>b, <1>e DEF JobInv
  <2> QED
    BY <1>a, <1>b, <2>1, <2>2 DEF JobInv
<1>3. RowInv'
  BY <1>a, <1>b, PipelineAssumption DEF RowInv, Threads
<1> QED
  BY <1>1, <1>2, <1>3

LEMMA RenamesKeeps ==
    ASSUME Plain, Inv, NEW t \in Threads, Active(t), Renames(t)
    PROVE  FlightInv'
<1> DEFINE p == th[t].path
           q == As(p, "utc")
<1>a. /\ th[t].pc = "utc" /\ th'[t].pc = "utc_rec" /\ p.name = "local" /\ Moves(t, q)
      /\ th'[t].path = q /\ claims' = claims \cup {q} /\ p \in disk
      /\ disk' = (disk \ {p}) \cup {q} /\ UNCHANGED <<jobs, arrived, phase>>
      /\ th'[t].sub = th[t].sub /\ th'[t].orig = th[t].orig /\ th'[t].key = th[t].key
      /\ \A v \in Threads \ {t} : th'[v] = th[v]
  BY DEF Renames, Moves, OthersSame
<1>b. /\ p \in Paths /\ p.dir = "processing" /\ p.name \in Names /\ FromProcessing(t) /\ Present(t)
      /\ th[t].orig.dir = "processing" /\ th[t].key = KeyOf(p) /\ jobs[th[t].key] \in Jobs
  BY <1>a, OwnerHas
<1>c. q \in Paths /\ q.file = p.file /\ q.dir = "processing" /\ q.name = "utc"
  BY <1>b, MoveFields
<1>d. /\ q \in disk' /\ \A r \in disk' : r.file = p.file => r = q
  BY <1>a, <1>c, MovedDisk DEF Inv, FlightInv
<1>e. KeyOf(q) = KeyOf(p)
  BY <1>b, <1>c, PlainKey DEF Names
<1>f. PathsInv(t) /\ PlaceInv(t) /\ ClaimInv(t) /\ HoldInv(t)
  BY DEF Inv, FlightInv
<1>1. DiskInv' /\ JobInv' /\ RowInv'
  BY <1>a, <1>c, MovesStore
<1>2. ASSUME NEW u \in Threads, u # t
      PROVE  PathsInv(u)' /\ PlaceInv(u)' /\ ClaimInv(u)' /\ HoldInv(u)'
  BY <1>2, <1>a, <1>c, MovesOthers DEF Present
<1>3. PathsInv(t)'
  BY <1>a, <1>b, <1>c, <1>f DEF PathsInv, Present, FromProcessing, Owner, Inside, PCs, Names
<1>4. PlaceInv(t)'
  BY <1>a, <1>b, <1>c, <1>d, <1>e DEF PlaceInv, Present, Moved, Jobs
<1>5. ClaimInv(t)'
  BY <1>a, <1>b, <1>f DEF ClaimInv, Present
<1>6. HoldInv(t)'
  BY <1>a, <1>b, <1>c, <1>e, <1>f DEF HoldInv, Owner, Inside, PCs, Bound, Renamed
<1>7. ASSUME NEW u \in Threads, u # t PROVE PairInv(t, u)' /\ PairInv(u, t)'
  <2> SUFFICES ASSUME Present(u), th[u].path.file = p.file
               PROVE  /\ ~Active(u)
                      /\ th[u].orig.dir = "processing" =>
                             {th[t].orig, q} \cap {th[u].orig, th[u].path} = {}
    BY <1>7, <1>a, <1>c DEF PairInv, Present, Active
  <2>1. PairInv(t, u) /\ PathsInv(u) /\ PlaceInv(u)
    BY DEF Inv, FlightInv
  <2>2. th[u].path.name # "utc"
    BY <1>a, <2>1 DEF PlaceInv
  <2>3. th[u].orig.dir = "processing" => th[u].orig.name # "utc"
    BY <2>1, <2>2 DEF PathsInv, FromProcessing
  <2> QED
    BY <1>7, <1>b, <1>c, <2>1, <2>2, <2>3 DEF PairInv
<1>8. ASSUME NEW u \in Threads, NEW v \in Threads, u # t, v # t PROVE PairInv(u, v)'
  BY <1>8, <1>a DEF Inv, FlightInv, PairInv, Present, Active
<1>9. \A u, v \in Threads : PairInv(u, v)'
  BY <1>7, <1>8 DEF PairInv
<1>10. phase' # "down"
  BY <1>a DEF Inv, FlightInv
<1> QED
  BY <1>1, <1>2, <1>3, <1>4, <1>5, <1>6, <1>9, <1>10 DEF FlightInv

LEMMA LeavesKeeps ==
    ASSUME Plain, Inv, NEW t \in Threads, Active(t), Leaves(t)
    PROVE  FlightInv'
<1> DEFINE p == th[t].path
<1>0. PICK dir \in {"processed", "failed"} :
        /\ Moves(t, In(p, dir)) /\ th'[t].path = p /\ UNCHANGED claims
        /\ \/ th[t].pc = "work" /\ th'[t].pc = "final_rec"
           \/ th[t].pc = "bad" /\ th'[t].pc = "bad_rec"
           \/ th[t].pc = "fail" /\ th'[t].pc = "fail_rec"
        /\ th'[t].pc # "bad_rec" => th'[t].src = In(p, dir)
  BY DEF Leaves
<1> DEFINE q == In(p, dir)
<1>a. /\ p \in disk /\ disk' = (disk \ {p}) \cup {q} /\ UNCHANGED <<jobs, arrived, phase>>
      /\ th'[t].sub = th[t].sub /\ th'[t].orig = th[t].orig /\ th'[t].key = th[t].key
      /\ \A v \in Threads \ {t} : th'[v] = th[v]
  BY <1>0 DEF Moves, OthersSame
<1>b. /\ p \in Paths /\ p.dir = "processing" /\ p.name \in Names /\ FromProcessing(t) /\ Present(t)
      /\ th[t].orig.dir = "processing" /\ th[t].key = KeyOf(p) /\ jobs[th[t].key] \in Jobs
  BY <1>0, OwnerHas
<1>c. q \in Paths /\ q.file = p.file /\ q.dir = dir /\ q.name = p.name
  BY <1>b, MoveFields
<1>d. q \in disk' /\ \A r \in disk' : r.file = p.file => r = q
  BY <1>a, <1>c, MovedDisk DEF Inv, FlightInv
<1>f. PathsInv(t) /\ PlaceInv(t) /\ ClaimInv(t) /\ HoldInv(t)
  BY DEF Inv, FlightInv
<1>g. Present(t)' /\ Active(t)' /\ th'[t].pc \in Moved
  BY <1>0 DEF Present, Active, Owner, Inside, PCs, Moved
<1>1. DiskInv' /\ JobInv' /\ RowInv'
  BY <1>0, <1>c, <1>g, MovesStore DEF Present
<1>2. ASSUME NEW u \in Threads, u # t
      PROVE  PathsInv(u)' /\ PlaceInv(u)' /\ ClaimInv(u)' /\ HoldInv(u)'
  BY <1>2, <1>0, <1>c, <1>g, MovesOthers
<1>3. PathsInv(t)'
  BY <1>0, <1>a, <1>b, <1>f, <1>g DEF PathsInv, FromProcessing, Active
<1>4. PlaceInv(t)'
  BY <1>0, <1>a, <1>b, <1>c, <1>d, <1>f, <1>g DEF PlaceInv, Moved
<1>5. ClaimInv(t)'
  BY <1>0, <1>a, <1>b, <1>f DEF ClaimInv, Present
<1>6. HoldInv(t)'
  BY <1>0, <1>a, <1>b, <1>f DEF HoldInv, Owner, Inside, PCs, Bound, Renamed
<1>7. \A u, v \in Threads : PairInv(u, v)'
  <2>1. \A w \in Threads : /\ Present(w)' => Present(w)
                           /\ Active(w)' => Active(w)
                           /\ th'[w].orig = th[w].orig /\ th'[w].path = th[w].path
    BY <1>0, <1>a, <1>b DEF Present, Active
  <2> QED
    BY <2>1 DEF Inv, FlightInv, PairInv
<1>8. phase' # "down"
  BY <1>0, <1>a DEF Inv, FlightInv
<1> QED
  BY <1>1, <1>2, <1>3, <1>4, <1>5, <1>6, <1>7, <1>8 DEF FlightInv

(***************************************************************************)
(* The invariant under the steps that make an owner, or end one            *)
(***************************************************************************)

(* A worker that came with a file of the incoming folder is alone with it. *)
LEMMA IncomingAlone ==
    ASSUME Inv, NEW t \in Threads, NEW u \in Threads, t # u, Present(t), Present(u),
           th[t].orig.dir = "incoming", th[u].orig.dir = "incoming"
    PROVE  th[t].orig.file # th[u].orig.file
<1>1. \A v \in {t, u} : /\ v \in Workers /\ th[v].sub = th[v].orig /\ th[v].orig \in Paths
                        /\ th[v].orig.name = "local" /\ th[v].pc # "idle"
  BY DEF Inv, FlightInv, PathsInv, FromIncoming, IInv, ThreadInv, HoldsPaths, Present
<1>2. th[t].sub # th[u].sub
  BY <1>1 DEF Inv, PoolInv
<1> QED
  BY <1>1, <1>2, SamePath

(* The ways out of the incoming folder before the move, and the marking of the
   path as done, are no one else's business. *)
LEMMA ReadyKeeps ==
    ASSUME Plain, Inv, NEW t \in Threads, Ready(t)
    PROVE  FlightInv'
<1>a. th \in [Threads -> Locals] /\ FlightInv /\ Drain \in Threads
  BY PipelineAssumption DEF Inv, IInv, TypeOK, ThreadsOK, Threads
<1>b. th[t].pc = "ready" /\ UNCHANGED <<disk, jobs, rows, claims, arrived, phase>>
  BY DEF Ready, store, world
<1>c. PICK pc \in {"exit", "move"} :
        \/ th' = [th EXCEPT ![t].key = KeyOf(th[t].path), ![t].pc = pc]
        \/ pc = "exit" /\ th' = [th EXCEPT ![t].pc = pc]
  BY DEF Ready, Go
<1>d. /\ \A u \in Threads \ {t} : th'[u] = th[u]
      /\ th'[t].pc = pc
      /\ th'[t].sub = th[t].sub /\ th'[t].orig = th[t].orig /\ th'[t].path = th[t].path
      /\ pc = "move" => th'[t].key = KeyOf(th[t].path)
  BY <1>a, <1>c DEF Locals
<1>e. \A w \in Threads : /\ Present(w)' => Present(w)
                         /\ Active(w)' => Active(w)
                         /\ th'[w].orig = th[w].orig /\ th'[w].path = th[w].path
  BY <1>b, <1>d DEF Present, Active, Owner, Inside, PCs
<1>f. PathsInv(t) /\ PlaceInv(t) /\ ClaimInv(t) /\ Present(t)
  BY <1>a, <1>b DEF FlightInv, Present
<1>1. DiskInv' /\ JobInv'
  BY <1>a, <1>b DEF FlightInv, DiskInv, JobInv
<1>2. RowInv'
  BY <1>a, <1>b, <1>d DEF FlightInv, RowInv
<1>3. ASSUME NEW u \in Threads, u # t
      PROVE  PathsInv(u)' /\ PlaceInv(u)' /\ ClaimInv(u)' /\ HoldInv(u)'
  <2>1. PathsInv(u) /\ PlaceInv(u) /\ ClaimInv(u) /\ HoldInv(u) /\ th'[u] = th[u]
    BY <1>3, <1>a, <1>d DEF FlightInv
  <2>2. PathsInv(u)' /\ PlaceInv(u)' /\ HoldInv(u)'
    BY <1>b, <2>1 DEF PathsInv, FromIncoming, FromProcessing, PlaceInv, HoldInv, Present
  <2>3. ClaimInv(u)'
    BY <1>b, <1>e, <2>1 DEF ClaimInv, Present
  <2> QED
    BY <2>2, <2>3
<1>4. PathsInv(t)'
  BY <1>b, <1>d, <1>f DEF PathsInv, FromIncoming, FromProcessing, Owner, Inside, PCs, Present
<1>5. PlaceInv(t)' /\ HoldInv(t)'
  BY <1>b, <1>d, <1>f DEF PlaceInv, HoldInv, Owner, Moved, Inside, PCs, Bound, Renamed
<1>6. ClaimInv(t)'
  BY <1>b, <1>d, <1>e, <1>f DEF ClaimInv
<1>7. \A u, v \in Threads : PairInv(u, v)'
  BY <1>a, <1>e DEF FlightInv, PairInv
<1>8. phase' # "down"
  BY <1>a, <1>b DEF FlightInv
<1> QED
  BY <1>1, <1>2, <1>3, <1>4, <1>5, <1>6, <1>7, <1>8 DEF FlightInv

(* The move into the processing folder: no other thread has the recording. *)
LEMMA MoveInKeeps ==
    ASSUME Plain, Inv, NEW t \in Threads, MoveIn(t)
    PROVE  FlightInv'
<1> DEFINE p == th[t].path
           q == In(p, "processing")
           f == p.file
<1>a. /\ th \in [Threads -> Locals] /\ FlightInv /\ DiskInv /\ JobInv /\ Drain \in Threads
      /\ disk \subseteq Paths
  BY PipelineAssumption DEF Inv, IInv, TypeOK, ThreadsOK, Threads, FlightInv, DiskOK
<1>b. th[t].pc = "move" /\ UNCHANGED <<jobs, rows, claims, arrived, phase>> /\ Present(t)
  BY DEF MoveIn, store, world, memory, Present
<1>c. p \in Paths /\ th[t].orig \in Paths
  BY <1>b DEF Inv, IInv, ThreadInv, HoldsPaths
<1>d. /\ PathsInv(t) /\ PlaceInv(t) /\ ClaimInv(t) /\ HoldInv(t)
      /\ FromIncoming(t) /\ th[t].orig.dir = "incoming" /\ p.dir = "incoming" /\ p \in disk
      /\ p.name = "local" /\ th[t].orig.file = f /\ th[t].key = KeyOf(p)
  BY <1>a, <1>b DEF FlightInv, PathsInv, FromIncoming, FromProcessing, Owner, Inside, PCs, Present,
                    HoldInv
<1>e. q \in Paths /\ q.file = f /\ q.dir = "processing" /\ q.name = "local"
  BY <1>c, <1>d, MoveFields
<1>f. KeyOf(q) = KeyOf(p)
  BY <1>c, <1>d, <1>e, PlainKey DEF Names
<1>1. \A u \in Threads \ {t} : Present(u) => th[u].path.file # f
  <2> SUFFICES ASSUME NEW u \in Threads, u # t, Present(u), th[u].path.file = f PROVE FALSE
    OBVIOUS
  <2>1. PathsInv(u) /\ PlaceInv(u)
    BY <1>a DEF FlightInv
  <2>2. th[u].path.dir # "processing"
    BY <1>d, <2>1 DEF PlaceInv
  <2>3. th[u].orig.dir = "incoming" /\ th[u].orig.file = f
    BY <2>1, <2>2 DEF PathsInv, FromProcessing
  <2> QED
    BY <1>b, <1>d, <2>3, IncomingAlone
<1>2. CASE /\ disk' = (disk \ {p}) \cup {q}
           /\ th' = [th EXCEPT ![t].pc = "reclaim", ![t].path = q]
  <2>a. /\ \A u \in Threads \ {t} : th'[u] = th[u]
        /\ th'[t].pc = "reclaim" /\ th'[t].path = q /\ th'[t].key = th[t].key
        /\ th'[t].sub = th[t].sub /\ th'[t].orig = th[t].orig
    BY <1>a, <1>2 DEF Locals
  <2>b. /\ q \in disk' /\ \A r \in disk' : r.file = f => r = q
        /\ \A r : r.file # f => (r \in disk' => r \in disk) /\ (r \in disk => r \in disk')
    BY <1>a, <1>d, <1>e, <1>2, MovedDisk
  <2>1. DiskInv'
    <3>1. f \in arrived
      BY <1>a, <1>d DEF DiskInv
    <3> QED
      BY <1>a, <1>b, <1>e, <2>b, <3>1 DEF DiskInv, Names
  <2>2. JobInv'
    <3>1. \A j \in Keys : "renamed" \in jobs[j].flags =>
              \A r \in disk' : KeyOf(r) = j => r.name = "utc"
      BY <1>a, <1>d, <1>e, <1>f, <2>b DEF JobInv
    <3>2. \A r \in disk' : r.name = "utc" => jobs[KeyOf(r)].status # "none"
      BY <1>a, <1>e, <2>b DEF JobInv
    <3> QED
      BY <1>a, <1>b, <3>1, <3>2 DEF JobInv
  <2>3. RowInv'
    BY <1>a, <1>b, <2>a DEF FlightInv, RowInv
  <2>4. ASSUME NEW u \in Threads, u # t
        PROVE  PathsInv(u)' /\ PlaceInv(u)' /\ ClaimInv(u)' /\ HoldInv(u)'
    <3>1. PathsInv(u) /\ PlaceInv(u) /\ ClaimInv(u) /\ HoldInv(u) /\ th'[u] = th[u]
      BY <1>a, <2>4, <2>a DEF FlightInv
    <3>2. CASE Present(u)
      <4>1. th[u].path.file # f
        BY <1>1, <2>4, <3>2
      <4>2. PathsInv(u)'
        BY <1>b, <2>b, <3>1, <4>1 DEF PathsInv, FromIncoming, FromProcessing, Present
      <4>3. PlaceInv(u)'
        BY <1>b, <2>b, <3>1, <4>1 DEF PlaceInv, Present
      <4>4. ClaimInv(u)'
        BY <1>b, <2>a, <3>1 DEF ClaimInv, Present
      <4>5. HoldInv(u)'
        BY <1>b, <3>1 DEF HoldInv
      <4> QED
        BY <4>2, <4>3, <4>4, <4>5
    <3>3. CASE ~Present(u)
      BY <1>b, <3>1, <3>3 DEF PathsInv, PlaceInv, ClaimInv, HoldInv, Present
    <3> QED
      BY <3>2, <3>3
  <2>5. PathsInv(t)'
    BY <1>b, <1>d, <1>e, <2>a DEF PathsInv, FromIncoming, Names
  <2>6. PlaceInv(t)'
    BY <1>e, <2>a, <2>b DEF PlaceInv, Owner, Moved, Inside, PCs
  <2>7. ClaimInv(t)' /\ HoldInv(t)'
    BY <1>d, <1>e, <1>f, <2>a DEF ClaimInv, HoldInv, Owner, Inside, PCs, Bound, Renamed
  <2>8. ASSUME NEW u \in Threads, u # t PROVE PairInv(t, u)' /\ PairInv(u, t)'
    BY <1>1, <1>e, <2>8, <2>a DEF PairInv, Present
  <2>9. ASSUME NEW u \in Threads, NEW v \in Threads, u # t, v # t PROVE PairInv(u, v)'
    BY <1>a, <2>9, <2>a DEF FlightInv, PairInv, Present, Active
  <2>10. \A u, v \in Threads : PairInv(u, v)'
    BY <2>8, <2>9 DEF PairInv
  <2>11. phase' # "down"
    BY <1>a, <1>b DEF FlightInv
  <2> QED
    BY <2>1, <2>2, <2>3, <2>4, <2>5, <2>6, <2>7, <2>10, <2>11 DEF FlightInv
<1>3. CASE UNCHANGED disk /\ th' = [th EXCEPT ![t].pc = "exit"]
  <2>a. /\ \A u \in Threads \ {t} : th'[u] = th[u]
        /\ th'[t].pc = "exit" /\ th'[t].path = p
        /\ th'[t].sub = th[t].sub /\ th'[t].orig = th[t].orig
    BY <1>a, <1>3 DEF Locals
  <2>b. \A w \in Threads : /\ Present(w)' => Present(w)
                           /\ Active(w)' => Active(w)
                           /\ th'[w].orig = th[w].orig /\ th'[w].path = th[w].path
    BY <1>b, <2>a DEF Present, Active, Owner, Inside, PCs
  <2>1. DiskInv' /\ JobInv' /\ RowInv'
    BY <1>3, <1>a, <1>b, <2>a DEF FlightInv, DiskInv, JobInv, RowInv
  <2>2. ASSUME NEW u \in Threads, u # t
        PROVE  PathsInv(u)' /\ PlaceInv(u)' /\ ClaimInv(u)' /\ HoldInv(u)'
    <3>1. PathsInv(u) /\ PlaceInv(u) /\ ClaimInv(u) /\ HoldInv(u) /\ th'[u] = th[u]
      BY <1>a, <2>2, <2>a DEF FlightInv
    <3>2. PathsInv(u)'
      BY <1>3, <1>b, <3>1 DEF PathsInv, FromIncoming, FromProcessing, Present
    <3>4. PlaceInv(u)'
      <4>1. UNCHANGED disk
        BY <1>3
      <4> QED
        BY <1>b, <3>1, <4>1 DEF PlaceInv, Present
    <3>5. HoldInv(u)'
      BY <1>b, <3>1 DEF HoldInv
    <3>3. ClaimInv(u)'
      BY <1>b, <2>b, <3>1 DEF ClaimInv, Present
    <3> QED
      BY <3>2, <3>3, <3>4, <3>5
  <2>3. PathsInv(t)'
    BY <1>b, <1>d, <2>a DEF PathsInv, FromIncoming, Present
  <2>4. PlaceInv(t)' /\ HoldInv(t)' /\ ClaimInv(t)'
    BY <1>d, <2>a DEF PlaceInv, HoldInv, ClaimInv, Owner, Moved, Inside, PCs, Bound, Renamed
  <2>5. \A u, v \in Threads : PairInv(u, v)'
    BY <1>a, <2>b DEF FlightInv, PairInv
  <2>6. phase' # "down"
    BY <1>a, <1>b DEF FlightInv
  <2> QED
    BY <2>1, <2>2, <2>3, <2>4, <2>5, <2>6 DEF FlightInv
<1> QED
  BY <1>2, <1>3 DEF MoveIn, Go

(* The claim moves to the new path: whoever else has it is gone before long,
   and no one can come for the old one. *)
LEMMA ReclaimKeeps ==
    ASSUME Plain, Inv, NEW t \in Threads, Reclaim(t)
    PROVE  FlightInv'
<1> DEFINE q == th[t].path
           o == th[t].orig
           f == q.file
<1>a. /\ th \in [Threads -> Locals] /\ FlightInv /\ Drain \in Threads
      /\ DiskInv /\ JobInv
  BY PipelineAssumption DEF Inv, IInv, TypeOK, ThreadsOK, Threads, FlightInv
<1>b. /\ th[t].pc = "reclaim" /\ UNCHANGED <<disk, jobs, rows, arrived, phase>> /\ Present(t)
      /\ q \in Paths /\ o \in Paths
  BY DEF Reclaim, store, world, Present, Inv, IInv, ThreadInv, HoldsPaths
<1>c. /\ PathsInv(t) /\ PlaceInv(t) /\ ClaimInv(t) /\ HoldInv(t)
      /\ t \in Workers /\ o.dir = "incoming" /\ o.name = "local" /\ o.file = f
      /\ q.dir = "processing" /\ q.name = "local" /\ th[t].sub = o /\ f \in arrived
  BY <1>a, <1>b DEF FlightInv, PathsInv, FromIncoming, FromProcessing, Owner, Inside, PCs, Present
<1>d. o = Watched(f)
  BY <1>b, <1>c, WatchedIs
<1>e. \A u \in Threads \ {t} : Present(u) => th[u].path \in Paths /\ th[u].orig \in Paths
  BY DEF Inv, IInv, ThreadInv, HoldsPaths, Present
(* The old path was the thread's alone. *)
<1>f. ASSUME NEW u \in Threads, u # t, claims \ {o} \subseteq claims',
             \A v \in Threads \ {t} : th'[v] = th[v],
             Present(t)' => th'[t].orig = o \/ th'[t].orig.dir = "processing"
      PROVE  PathsInv(u)' /\ PlaceInv(u)' /\ ClaimInv(u)' /\ HoldInv(u)'
  <2>1. PathsInv(u) /\ PlaceInv(u) /\ ClaimInv(u) /\ HoldInv(u) /\ th'[u] = th[u]
    BY <1>a, <1>f DEF FlightInv
  <2>2. PathsInv(u)'
    <3>1. Present(u) /\ th[u].pc \in {"ready", "move"} => th[u].path # o
      <4>1. Present(u) /\ th[u].pc \in {"ready", "move"} => th[u].path \in disk
        BY <2>1 DEF PathsInv, FromIncoming, FromProcessing, Owner, Inside, PCs
      <4>2. o \notin disk
        BY <1>b, <1>c DEF PlaceInv
      <4> QED
        BY <4>1, <4>2
    <3> QED
      BY <1>b, <1>f, <2>1, <3>1 DEF PathsInv, FromIncoming, FromProcessing, Present
  <2>3. PlaceInv(u)'
    BY <1>b, <2>1 DEF PlaceInv, Present
  <2>4. ClaimInv(u)'
    <3>1. Present(u) /\ th[u].path.name = "utc" => th[u].path # o
      BY <1>c
    <3>2. Present(u) /\ th[u].orig.dir = "processing" /\ th[u].orig \notin claims' =>
              th[u].orig \notin claims
      BY <1>c, <1>f
    <3>3. ASSUME NEW v \in Threads, Present(v)', Present(u), th[u].orig.dir = "processing",
                 \A w \in Threads : Present(w) => th[w].orig # Watched(th[u].orig.file)
          PROVE  th'[v].orig # Watched(th[u].orig.file)
      <4>1. Watched(th[u].orig.file).dir = "incoming"
        BY DEF Watched
      <4> QED
        BY <1>b, <1>f, <3>3, <4>1 DEF Present
    <3> QED
      BY <1>f, <2>1, <3>1, <3>2, <3>3 DEF ClaimInv, Present
  <2>5. HoldInv(u)'
    BY <1>b, <2>1 DEF HoldInv
  <2> QED
    BY <2>2, <2>3, <2>4, <2>5
<1>1. CASE q \in claims \ {o} /\ claims' = claims \ {o} /\ th' = [th EXCEPT ![t].pc = "exit"]
  <2>a. /\ \A u \in Threads \ {t} : th'[u] = th[u]
        /\ th'[t].pc = "exit" /\ th'[t].path = q /\ th'[t].sub = o /\ th'[t].orig = o
    BY <1>a, <1>c, <1>1 DEF Locals
  <2>b. \A w \in Threads : /\ Present(w)' => Present(w)
                           /\ Active(w)' => Active(w)
                           /\ th'[w].orig = th[w].orig /\ th'[w].path = th[w].path
    BY <1>b, <2>a DEF Present, Active, Owner, Inside, PCs
  <2>1. DiskInv' /\ JobInv' /\ RowInv'
    BY <1>a, <1>b, <2>a DEF FlightInv, DiskInv, JobInv, RowInv
  <2>2. ASSUME NEW u \in Threads, u # t
        PROVE  PathsInv(u)' /\ PlaceInv(u)' /\ ClaimInv(u)' /\ HoldInv(u)'
    BY <1>1, <1>f, <2>2, <2>a
  <2>3. PathsInv(t)'
    BY <1>b, <1>c, <2>a DEF PathsInv, FromIncoming, Names
  <2>4. PlaceInv(t)' /\ HoldInv(t)' /\ ClaimInv(t)'
    BY <1>b, <1>c, <2>a DEF PlaceInv, HoldInv, ClaimInv, Owner, Moved, Inside, PCs, Bound, Renamed, Present
  <2>5. \A u, v \in Threads : PairInv(u, v)'
    BY <1>a, <2>b DEF FlightInv, PairInv
  <2>6. phase' # "down"
    BY <1>a, <1>b DEF FlightInv
  <2> QED
    BY <2>1, <2>2, <2>3, <2>4, <2>5, <2>6 DEF FlightInv
<1>2. CASE /\ q \notin claims \ {o} /\ claims' = (claims \ {o}) \cup {q}
           /\ th' = [th EXCEPT ![t].pc = "insert", ![t].orig = q]
  <2>a. /\ \A u \in Threads \ {t} : th'[u] = th[u]
        /\ th'[t].pc = "insert" /\ th'[t].path = q /\ th'[t].sub = o /\ th'[t].orig = q
        /\ th'[t].key = th[t].key
    BY <1>a, <1>c, <1>2 DEF Locals
  <2>b. q \notin claims
    BY <1>c, <1>2
  <2>1. DiskInv' /\ JobInv' /\ RowInv'
    BY <1>a, <1>b, <2>a DEF FlightInv, DiskInv, JobInv, RowInv
  <2>2. ASSUME NEW u \in Threads, u # t
        PROVE  PathsInv(u)' /\ PlaceInv(u)' /\ ClaimInv(u)' /\ HoldInv(u)'
    <3>1. claims \ {o} \subseteq claims'
      BY <1>2
    <3> QED
      BY <1>c, <1>f, <2>2, <2>a, <3>1
  <2>3. PathsInv(t)'
    BY <1>b, <1>c, <1>d, <2>a, PipelineAssumption DEF PathsInv, FromProcessing, Names
  <2>4. PlaceInv(t)'
    BY <1>b, <1>c, <2>a DEF PlaceInv, Owner, Moved, Inside, PCs, Present
  <2>5. HoldInv(t)'
    BY <1>c, <1>b, <2>a DEF HoldInv, Owner, Inside, PCs, Bound, Renamed
  <2>6. ClaimInv(t)'
    BY <1>2, <1>c, <2>a DEF ClaimInv
  <2>7. ASSUME NEW u \in Threads, u # t PROVE PairInv(t, u)' /\ PairInv(u, t)'
    <3> SUFFICES ASSUME Present(u), th[u].path.file = f
                 PROVE  th[u].orig.dir = "processing" => q \notin {th[u].orig, th[u].path}
      BY <2>7, <2>a DEF PairInv, Present, Active, Owner, Inside, PCs
    <3>1. PathsInv(u) /\ ClaimInv(u)
      BY <1>a DEF FlightInv
    <3>2. SUFFICES ASSUME th[u].orig.dir = "processing", q \in {th[u].orig, th[u].path}
                   PROVE  th[u].orig = q
      BY <1>b, <1>c, <1>d, <2>b, <3>1 DEF ClaimInv
    <3>3. /\ th[u].orig.file = f /\ th[u].orig.name \in Names
          /\ th[u].orig.name = "utc" => th[u].path.name = "utc"
      BY <3>1, <3>2 DEF PathsInv, FromProcessing
    <3>4. th[u].orig.name = "local"
      BY <1>c, <3>2, <3>3 DEF Names
    <3> QED
      BY <1>b, <1>c, <1>e, <2>7, <3>2, <3>3, <3>4, SamePath
  <2>8. ASSUME NEW u \in Threads, NEW v \in Threads, u # t, v # t PROVE PairInv(u, v)'
    BY <1>a, <2>8, <2>a DEF FlightInv, PairInv, Present, Active
  <2>9. \A u, v \in Threads : PairInv(u, v)'
    BY <2>7, <2>8 DEF PairInv
  <2>10. phase' # "down"
    BY <1>a, <1>b DEF FlightInv
  <2> QED
    BY <2>1, <2>2, <2>3, <2>4, <2>5, <2>6, <2>9, <2>10 DEF FlightInv
<1> QED
  BY <1>1, <1>2 DEF Reclaim, Go

(* A new job has no owner but the thread that wrote it. *)
LEMMA InsertKeeps ==
    ASSUME Plain, Inv, NEW t \in Threads, Insert(t), JobsGrow
    PROVE  FlightInv'
<1> DEFINE p == th[t].path
           k == th[t].key
<1>a. /\ th \in [Threads -> Locals] /\ FlightInv /\ Drain \in Threads
      /\ DiskInv /\ JobInv /\ JobsOK /\ jobs \in [Keys -> {NoJob} \cup Jobs] /\ disk \subseteq Paths
  BY PipelineAssumption
  DEF Inv, IInv, TypeOK, ThreadsOK, Threads, FlightInv, JobsOK, DiskOK
<1>b. /\ th[t].pc = "insert" /\ UNCHANGED <<disk, rows, claims, arrived, phase>> /\ Present(t)
      /\ p \in Paths
  BY DEF Insert, world, memory, Present, Inv, IInv, ThreadInv, HoldsPaths
<1>c. /\ PathsInv(t) /\ PlaceInv(t) /\ ClaimInv(t) /\ HoldInv(t) /\ FromProcessing(t)
      /\ th[t].orig.dir = "processing" /\ p.dir = "processing" /\ p.name = "local"
      /\ k = KeyOf(p) /\ k \in Keys /\ p.file \in arrived
  BY <1>a, <1>b, PathOps DEF FlightInv, PathsInv, FromIncoming, FromProcessing, HoldInv, Present
<1>d. PICK pc \in {"body", "exit"} :
        /\ th' = [th EXCEPT ![t].pc = pc]
        /\ pc = "exit" => UNCHANGED jobs
        /\ pc = "body" => jobs[k].status = "none" /\ jobs' = [jobs EXCEPT ![k] = NewJob(p)]
  BY DEF Insert, Go
<1>e. /\ \A u \in Threads \ {t} : th'[u] = th[u]
      /\ th'[t].pc = pc /\ th'[t].path = p /\ th'[t].key = k
      /\ th'[t].sub = th[t].sub /\ th'[t].orig = th[t].orig
  BY <1>a, <1>d DEF Locals
<1>f. \A w \in Threads : /\ Present(w)' => Present(w)
                         /\ th'[w].orig = th[w].orig /\ th'[w].path = th[w].path
  BY <1>b, <1>e DEF Present
<1>1. DiskInv' /\ RowInv'
  BY <1>a, <1>b, <1>e DEF FlightInv, DiskInv, RowInv
<1>2. JobInv'
  <2>1. CASE pc = "body"
    <3>1. NewJob(p) \in Jobs /\ NewJob(p).flags = {} /\ NewJob(p).path = p
      BY <1>b, NewJobType DEF NewJob, NoJob
    <3>2. JobFits(p, NewJob(p))
      BY <1>c, <3>1 DEF JobFits, Names
    <3> QED
      BY <1>a, <1>b, <1>c, <1>d, <2>1, <3>1, <3>2, JobInvMoves
  <2>2. CASE pc = "exit"
    BY <1>a, <1>b, <1>d, <2>2 DEF JobInv
  <2> QED
    BY <2>1, <2>2
<1>3. \A u \in Threads \ {t} : th[u].pc \in Inside \cup {"rebind", "reopen"} =>
          jobs'[th[u].key] = jobs[th[u].key]
  <2> SUFFICES ASSUME NEW u \in Threads \ {t}, th[u].pc \in JobPCs
               PROVE  jobs'[th[u].key] = jobs[th[u].key]
    BY DEF JobPCs
  <2>1. th[u].key \in Keys /\ jobs[th[u].key] \in Jobs
    BY Held DEF Inv
  <2>2. jobs[th[u].key].status # "none"
    BY <2>1 DEF Jobs
  <2> QED
    BY <1>a, <1>d, <2>1, <2>2
<1>4. ASSUME NEW u \in Threads, u # t
      PROVE  PathsInv(u)' /\ PlaceInv(u)' /\ ClaimInv(u)' /\ HoldInv(u)'
  <2>1. PathsInv(u) /\ PlaceInv(u) /\ ClaimInv(u) /\ HoldInv(u) /\ th'[u] = th[u]
    BY <1>a, <1>e, <1>4 DEF FlightInv
  <2>2. PathsInv(u)'
    BY <1>b, <2>1 DEF PathsInv, FromIncoming, FromProcessing, Present
  <2>3. PlaceInv(u)'
    <3>1. Present(u) => KeyOf(th[u].path) \in Keys
      BY PathOps DEF Inv, IInv, ThreadInv, HoldsPaths, Present
    <3>2. Present(u) /\ jobs[KeyOf(th[u].path)].status # "none" =>
              jobs'[KeyOf(th[u].path)].status # "none"
      BY <3>1 DEF JobsGrow
    <3> QED
      BY <1>b, <2>1, <3>2 DEF PlaceInv, Present
  <2>4. ClaimInv(u)'
    BY <1>b, <1>f, <2>1 DEF ClaimInv, Present
  <2>5. HoldInv(u)'
    <3>1. th[u].pc \in Bound \cup Inside \cup {"rebind", "reopen"} =>
              jobs'[th[u].key] = jobs[th[u].key]
      BY <1>3, <1>4 DEF Bound, Inside, PCs
    <3>2. th[u].pc \in Bound => jobs'[th[u].key].path = th[u].path
      BY <2>1, <3>1 DEF HoldInv
    <3>3. /\ th[u].pc \in {"rebind", "reopen"} => jobs'[th[u].key].status # "completed"
          /\ th[u].pc \in Inside \ {"defer_row", "final_del"} =>
               jobs'[th[u].key].status \in {"processing", "failed"}
      BY <2>1, <3>1 DEF HoldInv
    <3>4. /\ th[u].pc = "defer_row" =>
               jobs'[th[u].key].status \in {"processing", "failed", "pending_remote_sync"}
          /\ th[u].pc = "final_del" =>
               jobs'[th[u].key].status \in {"processing", "failed", "completed"}
      <4>1. {"defer_row", "final_del"} \subseteq Inside
        BY DEF Inside, PCs
      <4> QED
        BY <2>1, <3>1, <4>1 DEF HoldInv
    <3> QED
      BY <2>1, <3>2, <3>3, <3>4 DEF HoldInv
  <2> QED
    BY <2>2, <2>3, <2>4, <2>5
<1>5. PathsInv(t)'
  <2>1. th'[t].pc \in Owner \cup {"exit"} /\ th'[t].pc \notin {"insert", "resume"}
    BY <1>e DEF Owner, Inside, PCs
  <2> QED
    BY <1>b, <1>c, <1>e, <2>1 DEF PathsInv, FromProcessing, Present
<1>6. PlaceInv(t)' /\ ClaimInv(t)'
  <2>1. pc = "body" => p \in disk
    BY <1>b, <1>c, <1>d DEF PlaceInv
  <2>2. PlaceInv(t)'
    BY <1>b, <1>c, <1>e, <2>1 DEF PlaceInv, Owner, Moved, Inside, PCs
  <2>3. ClaimInv(t)'
    BY <1>b, <1>c, <1>e, <1>f DEF ClaimInv
  <2> QED
    BY <2>2, <2>3
<1>7. HoldInv(t)'
  <2>1. pc = "body" => jobs'[k].status = "processing" /\ jobs'[k].path = p
    BY <1>a, <1>b, <1>c, <1>d, NewJobType DEF NewJob, NoJob
  <2> QED
    BY <1>c, <1>e, <2>1 DEF HoldInv, Owner, Inside, PCs, Bound, Renamed
<1>8. ASSUME NEW u \in Threads, u # t PROVE PairInv(t, u)' /\ PairInv(u, t)'
  <2>1. PairInv(t, u) /\ PairInv(u, t) /\ PathsInv(u) /\ PlaceInv(u)
    BY <1>a DEF FlightInv
  (* Were another thread at work on it, it would have the file: the same one. *)
  <2>2. Present(u) /\ th[u].path.file = p.file /\ pc = "body" => ~Active(u)
    <3> SUFFICES ASSUME Active(u), th[u].path.file = p.file, pc = "body" PROVE FALSE
      OBVIOUS
    <3>1. th[u].pc \in {"resume", "adopt"}
      <4>1. th[u].pc \notin {"resume", "adopt"} => jobs[th[u].key] \in Jobs /\ th[u].key = KeyOf(th[u].path)
        BY OwnerHas
      <4>2. th[u].path \in Paths /\ th[u].path.name \in Names
        BY OwnerHas
      <4>3. KeyOf(th[u].path) = k
        BY <1>b, <1>c, <4>2, PlainKey DEF Names
      <4> QED
        BY <1>d, <4>1, <4>3 DEF Jobs
    <3>2. th[u].path \in disk
      BY <2>1, <3>1, OwnerHas DEF PlaceInv, Owner, Moved
    <3>3. p \in disk
      BY <1>b, <1>c, <1>d DEF PlaceInv
    <3>4. th[u].path = p
      BY <1>a, <3>2, <3>3 DEF DiskInv
    <3> QED
      BY <1>8, <1>b, <1>c, <2>1, <3>4, OwnerHas DEF PairInv
  <2>3. pc # "body" => ~Active(t)'
    BY <1>e DEF Active, Owner, Inside, PCs
  <2> QED
    BY <1>8, <1>b, <1>e, <2>1, <2>2, <2>3 DEF PairInv, Present, Active
<1>9. ASSUME NEW u \in Threads, NEW v \in Threads, u # t, v # t PROVE PairInv(u, v)'
  BY <1>a, <1>9, <1>e DEF FlightInv, PairInv, Present, Active
<1>10. \A u, v \in Threads : PairInv(u, v)'
  BY <1>8, <1>9 DEF PairInv
<1>11. phase' # "down"
  BY <1>a, <1>b DEF FlightInv
<1> QED
  BY <1>1, <1>2, <1>4, <1>5, <1>6, <1>7, <1>10, <1>11 DEF FlightInv

(* The two paths a thread releases when it leaves are not those another thread
   relies on; where another has claimed one of them too, no one can come for it
   any more. *)
LEMMA ExitKeeps ==
    ASSUME Plain, Inv, NEW t \in Threads, Exit(t)
    PROVE  FlightInv'
<1> DEFINE p == th[t].path
           o == th[t].orig
<1>a. th \in [Threads -> Locals] /\ FlightInv /\ Drain \in Threads /\ Drain \notin Workers
  BY PipelineAssumption DEF Inv, IInv, TypeOK, ThreadsOK, Threads
<1>b. /\ th[t].pc = "exit" /\ UNCHANGED <<disk, jobs, rows, arrived, phase>> /\ Present(t)
      /\ p \in Paths /\ o \in Paths /\ claims' = claims \ {o, p}
  BY DEF Exit, store, world, Present, Inv, IInv, ThreadInv, HoldsPaths
<1>c. /\ \A u \in Threads \ {t} : th'[u] = th[u]
      /\ th'[t].pc = "done"
  BY <1>a DEF Exit, Idle
<1>d. /\ PathsInv(t) /\ p.file = o.file
      /\ \/ /\ o.dir = "incoming" /\ o.name = "local" /\ p.name = "local"
            /\ t \in Workers /\ th[t].sub = o
         \/ o.dir = "processing" /\ p.dir = "processing"
  BY <1>a, <1>b DEF FlightInv, PathsInv, FromIncoming, FromProcessing, Present
<1>e. \A w \in Threads : Present(w)' => w # t /\ Present(w) /\ th'[w] = th[w]
  BY <1>c DEF Present
<1>1. DiskInv' /\ JobInv' /\ RowInv'
  BY <1>a, <1>b, <1>c DEF FlightInv, DiskInv, JobInv, RowInv
<1>2. ASSUME NEW u \in Threads, u # t, Present(u)
      PROVE  PathsInv(u)' /\ PlaceInv(u)' /\ ClaimInv(u)' /\ HoldInv(u)'
  <2>a. /\ PathsInv(u) /\ PlaceInv(u) /\ ClaimInv(u) /\ HoldInv(u) /\ th'[u] = th[u]
        /\ PairInv(t, u)
    BY <1>2, <1>a, <1>c DEF FlightInv
  <2>b. th[u].path \in Paths /\ th[u].orig \in Paths /\ th[u].path.file = th[u].orig.file
    BY <1>2, <2>a DEF Inv, IInv, ThreadInv, HoldsPaths, Present, PathsInv
  <2>c. o.dir = "incoming" /\ th[u].orig.dir = "incoming" => th[u].orig.file # o.file
    BY <1>2, <1>b, IncomingAlone
  <2>d. o.dir = "processing" /\ th[u].orig.dir = "processing" =>
            {o, p} \cap {th[u].orig, th[u].path} = {}
    BY <1>2, <1>b, <1>d, <2>a, <2>b DEF PairInv
  <2>1. PathsInv(u)'
    <3>1. ASSUME th[u].pc \in {"ready", "move"}
          PROVE  th[u].path \notin {o, p}
      <4>1. th[u].orig.dir = "incoming" /\ th[u].path.dir = "incoming"
        BY <1>2, <2>a, <3>1 DEF PathsInv, FromIncoming, FromProcessing, Owner, Inside, PCs
      <4> QED
        BY <1>d, <2>b, <2>c, <4>1
    <3> QED
      BY <1>b, <2>a, <3>1 DEF PathsInv, FromIncoming, FromProcessing, Present
  <2>2. PlaceInv(u)'
    BY <1>b, <2>a DEF PlaceInv, Present
  <2>3. HoldInv(u)'
    BY <1>b, <2>a DEF HoldInv
  <2>4. th[u].path.name = "utc" => th[u].path \notin {o, p}
    <3>1. th[u].path.name = "utc" => th[u].orig.dir = "processing"
      BY <1>2, <2>a DEF PathsInv, FromIncoming
    <3> QED
      BY <1>d, <2>d, <3>1
  <2>5. ASSUME th[u].orig.dir = "processing", th[u].orig \in {o, p}
        PROVE  /\ u \in Workers /\ th[u].sub = th[u].orig /\ th[u].orig.name = "local"
               /\ \A v \in Threads : Present(v)' => th'[v].orig # Watched(th[u].orig.file)
    <3>1. th[u].orig = p /\ o.dir = "incoming"
      BY <1>d, <2>5, <2>d
    <3>2. th[u].orig.name = "local" /\ o = Watched(p.file) /\ t \in Workers /\ th[t].sub = o
      BY <1>b, <1>d, <3>1, WatchedIs
    <3>3. u \in Workers
      BY <1>2, <1>a, <2>a, <2>5, <3>2 DEF PathsInv, FromProcessing, FromIncoming, Threads
    <3>4. th[u].sub = th[u].orig
      <4>1. th[t].sub # th[u].sub
        BY <1>2, <1>b, <3>2, <3>3 DEF Inv, PoolInv, Present
      <4> QED
        BY <1>2, <2>a, <2>5, <3>1, <3>2, <4>1 DEF PathsInv, FromProcessing, FromIncoming
    <3>5. ASSUME NEW v \in Threads, Present(v)' PROVE th'[v].orig # Watched(th[u].orig.file)
      <4>1. v # t /\ Present(v) /\ th'[v] = th[v] /\ th[u].orig.file = o.file
        BY <1>d, <1>e, <3>1, <3>5
      <4>2. th[v].orig.dir = "incoming" => th[v].orig.file # o.file
        BY <1>b, <3>1, <4>1, IncomingAlone
      <4> QED
        BY <4>1, <4>2 DEF Watched
    <3> QED
      BY <3>2, <3>3, <3>4, <3>5
  <2>6. ClaimInv(u)'
    BY <1>b, <1>e, <2>a, <2>4, <2>5 DEF ClaimInv, Present
  <2> QED
    BY <2>1, <2>2, <2>3, <2>6
<1>3. ASSUME NEW u \in Threads, ~Present(u) \/ u = t
      PROVE  PathsInv(u)' /\ PlaceInv(u)' /\ ClaimInv(u)' /\ HoldInv(u)'
  <2>1. th'[u].pc \in {"idle", "begin", "done"}
    BY <1>3, <1>c DEF Present
  <2> QED
    BY <2>1 DEF PathsInv, PlaceInv, ClaimInv, HoldInv, Present, Owner, Inside, PCs, Bound, Renamed
<1>4. \A u, v \in Threads : PairInv(u, v)'
  BY <1>a, <1>e DEF FlightInv, PairInv, Active
<1>5. phase' # "down"
  BY <1>a, <1>b DEF FlightInv
<1> QED
  BY <1>1, <1>2, <1>3, <1>4, <1>5 DEF FlightInv

(* A path of the processing folder that nothing claims, and that the queue or
   the drain offers, is in the hands of no thread that works there. *)
LEMMA UnclaimedFree ==
    ASSUME Inv, NEW p \in Paths, p \notin claims, p.dir = "processing",
           p.name = "utc" \/ p \in queued,
           NEW u \in Threads, Present(u), th[u].orig.dir = "processing"
    PROVE  p # th[u].orig /\ p # th[u].path
<1>a. /\ PathsInv(u) /\ ClaimInv(u) /\ th[u].path \in Paths /\ th[u].orig \in Paths
      /\ th[u].pc # "idle"
  BY DEF Inv, FlightInv, IInv, ThreadInv, HoldsPaths, Present
<1>1. p # th[u].orig
  <2> SUFFICES ASSUME p = th[u].orig PROVE FALSE
    OBVIOUS
  <2>1. u \in Workers /\ th[u].sub = p /\ p.name = "local"
    BY <1>a DEF ClaimInv
  <2>2. p \in pending \ queued
    BY <1>a, <2>1 DEF Inv, PoolInv
  <2> QED
    BY <2>1, <2>2
<1>2. p # th[u].path
  <2> SUFFICES ASSUME p = th[u].path PROVE FALSE
    OBVIOUS
  <2>1. p.name # "utc"
    BY <1>a DEF ClaimInv
  <2>2. /\ th[u].orig.file = p.file /\ th[u].orig.name \in Names /\ p.name \in Names
        /\ th[u].orig.name # "utc"
    BY <1>a, <2>1 DEF PathsInv, FromProcessing
  <2>3. th[u].orig = p
    BY <1>a, <2>1, <2>2, SamePath DEF Names
  <2> QED
    BY <1>1, <2>3
<1> QED
  BY <1>1, <1>2

(* A thread comes in: what it claims it has for itself. *)
LEMMA EnterFlight ==
    ASSUME Plain, Inv, NEW t \in Threads, ~Present(t), NEW p \in Paths, Enter(t, p),
           UNCHANGED <<disk, jobs, arrived, phase>>, phase # "down", RowInv',
           \/ t \in Workers /\ p \in queued
           \/ t = Drain /\ p.dir = "processing" /\ p.name = "utc"
    PROVE  FlightInv'
<1>a. /\ th \in [Threads -> Locals] /\ FlightInv /\ Drain \notin Workers
      /\ DiskInv /\ JobInv
  BY PipelineAssumption DEF Inv, IInv, TypeOK, ThreadsOK, FlightInv
<1>b. \A u \in Threads \ {t} : th'[u] = th[u]
  BY <1>a DEF Enter
<1>1. DiskInv' /\ JobInv'
  BY <1>a DEF DiskInv, JobInv
<1>2. ASSUME NEW u \in Threads, u # t, claims \subseteq claims',
             Present(t)' => th'[t].orig \in disk
      PROVE  PathsInv(u)' /\ PlaceInv(u)' /\ ClaimInv(u)' /\ HoldInv(u)'
  <2>1. PathsInv(u) /\ PlaceInv(u) /\ ClaimInv(u) /\ HoldInv(u) /\ th'[u] = th[u]
    BY <1>2, <1>a, <1>b DEF FlightInv
  <2>2. PathsInv(u)'
    BY <1>2, <2>1 DEF PathsInv, FromIncoming, FromProcessing, Present
  <2>3. PlaceInv(u)'
    BY <2>1 DEF PlaceInv, Present
  <2>4. ClaimInv(u)'
    <3> SUFFICES ASSUME Present(u), th[u].orig.dir = "processing", Present(t)'
                 PROVE  th'[t].orig # Watched(th[u].orig.file)
      BY <1>2, <1>b, <2>1 DEF ClaimInv, Present
    <3>1. Watched(th[u].orig.file) \notin disk
      BY <2>1 DEF PathsInv, FromProcessing, PlaceInv, Watched
    <3> QED
      BY <1>2, <3>1
  <2>5. HoldInv(u)'
    BY <2>1 DEF HoldInv
  <2> QED
    BY <2>2, <2>3, <2>4, <2>5
<1>3. CASE p \in disk /\ p.dir \in {"incoming", "processing"} /\ p \notin claims
  <2> DEFINE in == [Idle EXCEPT !.pc = IF p.dir = "incoming" THEN "ready" ELSE "resume",
                                !.sub = p, !.orig = p, !.path = p]
  <2>a. claims' = claims \cup {p} /\ th' = [th EXCEPT ![t] = in]
    BY <1>3 DEF Enter
  <2>b. /\ in.sub = p /\ in.orig = p /\ in.path = p
        /\ in.pc = IF p.dir = "incoming" THEN "ready" ELSE "resume"
    BY DEF Idle
  <2>c. /\ th'[t].sub = p /\ th'[t].orig = p /\ th'[t].path = p
        /\ th'[t].pc = IF p.dir = "incoming" THEN "ready" ELSE "resume"
    <3> HIDE DEF in
    <3> QED
      BY <1>a, <2>a, <2>b
  <2>d. /\ p.name \in Names /\ p.file \in arrived
        /\ p.dir = "incoming" => p.name = "local"
        /\ \A r \in disk : r.file = p.file => r = p
    BY <1>3, <1>a DEF DiskInv
  <2>1. PathsInv(t)'
    <3>1. CASE p.dir = "incoming"
      <4>a. p \in disk' /\ p \in claims' /\ t \in Workers
        BY <1>3, <2>a, <3>1
      <4>1. FromIncoming(t)'
        BY <2>c, <2>d, <3>1, <4>a DEF FromIncoming
      <4> QED
        BY <2>c, <2>d, <3>1, <4>1 DEF PathsInv
    <3>2. CASE p.dir = "processing"
      <4>1. FromProcessing(t)'
        BY <1>a, <2>c, <2>d, <3>2 DEF FromProcessing, Names, Owner
      <4> QED
        BY <2>c, <2>d, <3>2, <4>1 DEF PathsInv
    <3> QED
      BY <1>3, <3>1, <3>2
  <2>2. PlaceInv(t)'
    <3>1. p.name = "utc" => jobs[KeyOf(p)].status # "none"
      BY <1>3, <1>a DEF JobInv
    <3> QED
      BY <1>3, <2>c, <2>d, <3>1 DEF PlaceInv, Moved
  <2>3. ClaimInv(t)' /\ HoldInv(t)'
    BY <2>a, <2>c DEF ClaimInv, HoldInv, Owner, Inside, PCs, Bound, Renamed
  <2>4. ASSUME NEW u \in Threads, u # t
        PROVE  PathsInv(u)' /\ PlaceInv(u)' /\ ClaimInv(u)' /\ HoldInv(u)'
    BY <1>2, <1>3, <2>4, <2>a, <2>c
  <2>5. ASSUME NEW u \in Threads, u # t PROVE PairInv(t, u)' /\ PairInv(u, t)'
    <3> SUFFICES ASSUME Present(u), th[u].path.file = p.file, p.dir = "processing"
                 PROVE  /\ ~Active(u)
                        /\ th[u].orig.dir = "processing" => p \notin {th[u].orig, th[u].path}
      BY <1>3, <1>b, <2>5, <2>c DEF PairInv, Present, Active, Owner, Inside, PCs
    <3>1. th[u].orig.dir = "processing" => p \notin {th[u].orig, th[u].path}
      BY <1>3, UnclaimedFree
    <3>2. ~Active(u)
      <4> SUFFICES ASSUME Active(u) PROVE FALSE
        OBVIOUS
      <4>1. PlaceInv(u) /\ th[u].orig.dir = "processing"
        BY <1>a, OwnerHas DEF FlightInv
      <4>2. th[u].pc \notin Moved
        BY <1>3, <4>1 DEF PlaceInv
      <4>3. th[u].path = p
        BY <2>d, <4>1, <4>2 DEF PlaceInv, Active
      <4> QED
        BY <3>1, <4>1, <4>3
    <3> QED
      BY <3>1, <3>2
  <2>6. ASSUME NEW u \in Threads, NEW v \in Threads, u # t, v # t PROVE PairInv(u, v)'
    BY <1>a, <1>b, <2>6 DEF FlightInv, PairInv, Present, Active
  <2>7. \A u, v \in Threads : PairInv(u, v)'
    BY <2>5, <2>6 DEF PairInv
  <2> QED
    BY <1>1, <2>1, <2>2, <2>3, <2>4, <2>7 DEF FlightInv
<1>4. CASE UNCHANGED claims /\ th' = [th EXCEPT ![t] = [Idle EXCEPT !.pc = "done", !.sub = p]]
  <2>a. th'[t].pc = "done"
    BY <1>a, <1>4 DEF Idle
  <2>1. PathsInv(t)' /\ PlaceInv(t)' /\ ClaimInv(t)' /\ HoldInv(t)'
    BY <2>a DEF PathsInv, PlaceInv, ClaimInv, HoldInv, Present, Owner, Inside, PCs, Bound, Renamed
  <2>2. ASSUME NEW u \in Threads, u # t
        PROVE  PathsInv(u)' /\ PlaceInv(u)' /\ ClaimInv(u)' /\ HoldInv(u)'
    BY <1>2, <1>4, <2>2, <2>a DEF Present
  <2>3. \A w \in Threads : Present(w)' => Present(w) /\ th'[w] = th[w]
    BY <1>b, <2>a DEF Present
  <2>4. \A u, v \in Threads : PairInv(u, v)'
    BY <1>a, <2>3 DEF FlightInv, PairInv, Active
  <2> QED
    BY <1>1, <2>1, <2>2, <2>4 DEF FlightInv
<1> QED
  BY <1>3, <1>4 DEF Enter

(* Actions that move no file and enter no thread, and change of the jobs at
   most a status, which matters to those that work. *)
JobsStay ==
    \A k \in Keys :
        /\ jobs'[k].path = jobs[k].path
        /\ "renamed" \in jobs'[k].flags => "renamed" \in jobs[k].flags
        /\ jobs'[k].status = "none" => jobs[k].status = "none"
        /\ jobs[k].status = "none" => jobs'[k].status = "none"
        /\ \/ jobs'[k].status \in {jobs[k].status, "processing", "failed"}
           \/ \A t \in Threads : th'[t].pc = "idle"

LEMMA QuietFlight ==
    ASSUME Inv, UNCHANGED <<disk, claims, arrived>>, JobsStay,
           (\A k \in Keys : rows'[k].queued => rows[k].queued /\ rows'[k].path = rows[k].path),
           phase' = "down" => \A t \in Threads : th'[t].pc = "idle",
           \A t \in Threads : th'[t] = th[t] \/ th'[t].pc \in {"idle", "done"}
    PROVE  FlightInv'
<1>a. FlightInv /\ disk \subseteq Paths
  BY DEF Inv, IInv, TypeOK, DiskOK
<1>1. DiskInv'
  BY <1>a DEF FlightInv, DiskInv
<1>2. JobInv'
  <2>1. \A p \in disk : KeyOf(p) \in Keys
    BY <1>a, PathOps
  <2> QED
    BY <1>a, <2>1 DEF FlightInv, JobInv, JobsStay
<1>3. RowInv'
  BY <1>a, PipelineAssumption DEF FlightInv, RowInv, Threads
<1>4. \A w \in Threads : Present(w)' => Present(w) /\ th'[w] = th[w]
  BY DEF Present
<1>5. ASSUME NEW u \in Threads
      PROVE  PathsInv(u)' /\ PlaceInv(u)' /\ ClaimInv(u)' /\ HoldInv(u)'
  <2>1. PathsInv(u) /\ PlaceInv(u) /\ ClaimInv(u) /\ HoldInv(u)
    BY <1>a DEF FlightInv
  <2>2. PathsInv(u)' /\ ClaimInv(u)'
    BY <1>4, <2>1 DEF PathsInv, FromIncoming, FromProcessing, ClaimInv
  <2>3. PlaceInv(u)'
    <3>1. Present(u) => KeyOf(th[u].path) \in Keys
      BY PathOps DEF Inv, IInv, ThreadInv, HoldsPaths, Present
    <3>2. Present(u) => /\ jobs'[KeyOf(th[u].path)].status = "none" =>
                                jobs[KeyOf(th[u].path)].status = "none"
                        /\ jobs[KeyOf(th[u].path)].status = "none" =>
                                jobs'[KeyOf(th[u].path)].status = "none"
      BY <3>1 DEF JobsStay
    <3> QED
      BY <1>4, <2>1, <3>2 DEF PlaceInv
  <2>4. HoldInv(u)'
    <3>1. CASE th'[u] = th[u] /\ th'[u].pc # "idle"
      <4>1. th[u].pc \in JobPCs => th[u].key \in Keys
        BY DEF Inv, IInv, ThreadInv, HoldsKey
      <4>2. th[u].pc \in JobPCs =>
                /\ jobs'[th[u].key].path = jobs[th[u].key].path
                /\ jobs'[th[u].key].status \in {jobs[th[u].key].status, "processing", "failed"}
        BY <3>1, <4>1 DEF JobsStay
      <4>3. Bound \cup {"defer_row", "final_del"} \subseteq JobPCs /\ Inside \subseteq JobPCs
            /\ {"rebind", "reopen"} \subseteq JobPCs
        BY DEF Bound, JobPCs, Inside, PCs
      <4>4. th[u].pc \in Bound => jobs'[th[u].key].path = th[u].path
        BY <2>1, <4>2, <4>3 DEF HoldInv
      <4>5. /\ th[u].pc \in {"rebind", "reopen"} => jobs'[th[u].key].status # "completed"
            /\ th[u].pc \in Inside \ {"defer_row", "final_del"} =>
                 jobs'[th[u].key].status \in {"processing", "failed"}
        BY <2>1, <4>2, <4>3 DEF HoldInv
      <4>6. /\ th[u].pc = "defer_row" =>
                 jobs'[th[u].key].status \in {"processing", "failed", "pending_remote_sync"}
            /\ th[u].pc = "final_del" =>
                 jobs'[th[u].key].status \in {"processing", "failed", "completed"}
        BY <2>1, <4>2, <4>3 DEF HoldInv
      <4> QED
        BY <2>1, <3>1, <4>4, <4>5, <4>6 DEF HoldInv
    <3>2. CASE th'[u].pc \in {"idle", "done"}
      BY <3>2 DEF HoldInv, Owner, Inside, PCs, Bound, Renamed
    <3> QED
      BY <3>1, <3>2
  <2> QED
    BY <2>2, <2>3, <2>4
<1>6. \A u, v \in Threads : PairInv(u, v)'
  BY <1>a, <1>4 DEF FlightInv, PairInv, Active
<1> QED
  BY <1>1, <1>2, <1>3, <1>5, <1>6 DEF FlightInv

LEMMA SameJobsStay == ASSUME UNCHANGED jobs PROVE JobsStay
BY DEF JobsStay

(* A recording that appears is new to everyone. *)
LEMMA AppearFlight ==
    ASSUME Plain, Inv, NEW f \in Files, Appear(f)
    PROVE  FlightInv'
<1> DEFINE p == Watched(f)
<1>a. /\ FlightInv /\ DiskInv /\ JobInv /\ disk \subseteq Paths
      /\ f \notin arrived /\ arrived' = arrived \cup {f} /\ disk' = disk \cup {p}
      /\ UNCHANGED <<jobs, rows, claims, phase, th>>
  BY DEF Inv, IInv, TypeOK, DiskOK, FlightInv, Appear, store
<1>b. p \in Paths /\ p.file = f /\ p.dir = "incoming" /\ p.name = "local"
  BY DEF Watched, Paths
<1>c. \A r \in disk : r.file # f
  BY <1>a DEF DiskInv
<1>1. DiskInv'
  BY <1>a, <1>b, <1>c DEF DiskInv, Names
<1>2. JobInv'
  <2>1. \A k \in Keys : "renamed" \in jobs[k].flags => KeyOf(p) # k
    <3> SUFFICES ASSUME NEW k \in Keys, "renamed" \in jobs[k].flags, KeyOf(p) = k PROVE FALSE
      OBVIOUS
    <3>1. jobs[k] \in Jobs /\ jobs[k].status # "none"
      BY DEF Inv, IInv, TypeOK, JobsOK, NoJob, Jobs
    <3>2. jobs[k].path \in Paths /\ KeyOf(jobs[k].path) = k /\ jobs[k].path.file \in arrived
      BY <1>a, <3>1 DEF JobInv, Jobs
    <3> QED
      BY <1>a, <1>b, <3>2, PlainKey
  <2> QED
    BY <1>a, <1>b, <2>1 DEF JobInv
<1>3. RowInv'
  BY <1>a DEF FlightInv, RowInv
<1>4. ASSUME NEW u \in Threads
      PROVE  PathsInv(u)' /\ PlaceInv(u)' /\ ClaimInv(u)' /\ HoldInv(u)'
  <2>1. PathsInv(u) /\ PlaceInv(u) /\ ClaimInv(u) /\ HoldInv(u)
    BY <1>a DEF FlightInv
  <2>2. Present(u) => th[u].path.file # f
    BY <1>a, <2>1 DEF PathsInv
  <2>3. PathsInv(u)'
    BY <1>a, <2>1 DEF PathsInv, FromIncoming, FromProcessing, Present
  <2>4. PlaceInv(u)'
    BY <1>a, <1>b, <2>1, <2>2 DEF PlaceInv, Present
  <2>5. ClaimInv(u)' /\ HoldInv(u)'
    BY <1>a, <2>1 DEF ClaimInv, HoldInv, Present
  <2> QED
    BY <2>3, <2>4, <2>5
<1>5. \A u, v \in Threads : PairInv(u, v)'
  BY <1>a DEF FlightInv, PairInv, Active, Present
<1>6. phase' = "down" => \A t \in Threads : th'[t].pc = "idle"
  BY <1>a DEF FlightInv
<1> QED
  BY <1>1, <1>2, <1>3, <1>4, <1>5, <1>6 DEF FlightInv

LEMMA DrainFlight ==
    ASSUME Plain, Inv, DrainBegin \/ \E k \in Keys : DrainPick(k)
    PROVE  FlightInv'
<1>a. /\ th \in [Threads -> Locals] /\ FlightInv /\ Drain \in Threads
      /\ jobs \in [Keys -> {NoJob} \cup Jobs] /\ rows \in [Keys -> Rows]
  BY PipelineAssumption DEF Inv, IInv, TypeOK, ThreadsOK, Threads, JobsOK, RowsOK
<1>1. ASSUME NEW k \in Keys, DrainPick(k) PROVE FlightInv'
  <2> DEFINE new == [Idle EXCEPT !.pc = "begin", !.key = k, !.sub = rows[k].path]
  <2>1. /\ th' = [th EXCEPT ![Drain] = new] /\ th[Drain].pc = "idle" /\ rows[k].queued
        /\ phase # "down"
    BY <1>1 DEF DrainPick
  <2>u. UNCHANGED <<disk, jobs, rows, claims, arrived, phase>>
    BY <1>1 DEF DrainPick, world, store, memory
  <2>2. new.pc = "begin" /\ new.key = k /\ new.sub = rows[k].path
    BY DEF Idle
  <2>3. /\ th'[Drain].pc = "begin" /\ th'[Drain].key = k /\ th'[Drain].sub = rows[k].path
        /\ \A u \in Threads \ {Drain} : th'[u] = th[u]
    <3> HIDE DEF new
    <3> QED
      BY <1>a, <2>1, <2>2
  <2>4. \A w \in Threads : Present(w)' => Present(w) /\ th'[w] = th[w]
    BY <2>3 DEF Present
  <2>5. DiskInv' /\ JobInv'
    BY <1>a, <2>u DEF FlightInv, DiskInv, JobInv
  <2>6. RowInv'
    BY <1>a, <2>1, <2>u, <2>3 DEF FlightInv, RowInv
  <2>7. ASSUME NEW u \in Threads
        PROVE  PathsInv(u)' /\ PlaceInv(u)' /\ ClaimInv(u)' /\ HoldInv(u)'
    <3>1. PathsInv(u) /\ PlaceInv(u) /\ ClaimInv(u) /\ HoldInv(u)
      BY <1>a DEF FlightInv
    <3>2. PathsInv(u)'
      BY <2>u, <2>4, <3>1 DEF PathsInv, FromIncoming, FromProcessing
    <3>3. PlaceInv(u)'
      BY <2>u, <2>4, <3>1 DEF PlaceInv
    <3>4. ClaimInv(u)'
      BY <2>u, <2>4, <3>1 DEF ClaimInv
    <3>5. HoldInv(u)'
      <4>1. CASE u = Drain
        BY <2>3, <4>1 DEF HoldInv, Owner, Inside, PCs, Bound, Renamed
      <4>2. CASE u # Drain
        BY <2>u, <2>3, <3>1, <4>2 DEF HoldInv
      <4> QED
        BY <4>1, <4>2
    <3> QED
      BY <3>2, <3>3, <3>4, <3>5
  <2>8. \A u, v \in Threads : PairInv(u, v)'
    BY <1>a, <2>4 DEF FlightInv, PairInv, Active
  <2> QED
    BY <2>1, <2>u, <2>5, <2>6, <2>7, <2>8 DEF FlightInv
<1>2. CASE DrainBegin
  <2> DEFINE k == th[Drain].key
             p == th[Drain].sub
             spent == rows[k].queued /\ MaxDrain > 0 /\ rows[k].drained >= MaxDrain
  <2>1. /\ th[Drain].pc = "begin" /\ UNCHANGED <<disk, arrived, phase>>
        /\ k \in Keys /\ jobs[k].status # "none" /\ p \in Paths /\ Deferrable(p, k)
        /\ phase # "down"
    BY <1>2, <1>a DEF DrainBegin, world, Inv, IInv, ThreadInv, HoldsKey, HoldsPaths, FlightInv, RowInv
  <2>2. CASE th' = [th EXCEPT ![Drain] = Idle] /\ UNCHANGED <<store, claims>>
    <3>1. \A t \in Threads : th'[t] = th[t] \/ th'[t].pc \in {"idle", "done"}
      BY <1>a, <2>2 DEF Idle
    <3> QED
      BY <2>1, <2>2, <3>1, SameJobsStay, QuietFlight DEF store
  <2>3. CASE /\ rows' = [rows EXCEPT ![k] = NoRow]
             /\ jobs' = [jobs EXCEPT ![k].status = "failed"]
             /\ th' = [th EXCEPT ![Drain] = Idle]
             /\ UNCHANGED claims
    <3>1. \A t \in Threads : th'[t] = th[t] \/ th'[t].pc \in {"idle", "done"}
      BY <1>a, <2>3 DEF Idle
    <3>2. \A j \in Keys : rows'[j].queued => rows[j].queued /\ rows'[j].path = rows[j].path
      BY <1>a, <2>3 DEF NoRow
    <3>3. JobsStay
      <4> DEFINE new == [jobs[k] EXCEPT !.status = "failed"]
      <4>1. jobs[k] \in Jobs
        BY <1>a, <2>1 DEF NoJob
      <4>2. new.path = jobs[k].path /\ new.flags = jobs[k].flags /\ new.status = "failed"
        BY <4>1 DEF Jobs
      <4>3. jobs' = [jobs EXCEPT ![k] = new]
        BY <1>a, <2>1, <2>3
      <4> HIDE DEF new
      <4> QED
        BY <1>a, <2>1, <4>2, <4>3 DEF JobsStay
    <3> QED
      BY <2>1, <2>3, <3>1, <3>2, <3>3, QuietFlight
  <2>4. CASE /\ rows' = [rows EXCEPT ![k].drained = IF MaxDrain = 0 THEN 0 ELSE @ + 1]
             /\ Enter(Drain, p) /\ UNCHANGED jobs
    <3>1. \A j \in Keys : rows'[j].queued = rows[j].queued /\ rows'[j].path = rows[j].path
      BY <1>a, <2>4 DEF Rows
    <3>2. th'[Drain].pc \in {"ready", "resume", "done"}
      <4> DEFINE in == [Idle EXCEPT !.pc = IF p.dir = "incoming" THEN "ready" ELSE "resume",
                                    !.sub = p, !.orig = p, !.path = p]
                 out == [Idle EXCEPT !.pc = "done", !.sub = p]
      <4>1. in.pc \in {"ready", "resume"} /\ out.pc = "done"
        BY DEF Idle
      <4>2. th' = [th EXCEPT ![Drain] = in] \/ th' = [th EXCEPT ![Drain] = out]
        BY <2>4 DEF Enter
      <4> HIDE DEF in, out
      <4> QED
        BY <1>a, <4>1, <4>2
    <3>3. RowInv'
      BY <1>a, <3>1, <3>2 DEF FlightInv, RowInv
    <3> QED
      BY <1>a, <2>1, <2>4, <3>3, EnterFlight DEF Deferrable, Present
  <2> QED
    BY <1>2, <2>2, <2>3, <2>4 DEF DrainBegin
<1> QED
  BY <1>1, <1>2

LEMMA RestFlight ==
    ASSUME Plain, Inv,
           \/ RetryBooking
           \/ \E k \in Keys : BookingFallsDue(k) \/ BookingPoll(k) \/ RetryReads(k)
           \/ \E f \in Files : Finish(f)
           \/ \E p \in cooling : CooldownEnds(p)
           \/ GoesOffline \/ ComesOnline \/ Crash \/ Restart \/ Scan \/ UNCHANGED vars
    PROVE  FlightInv'
<1>a. /\ th \in [Threads -> Locals] /\ FlightInv /\ Drain \in Threads
      /\ jobs \in [Keys -> {NoJob} \cup Jobs]
  BY PipelineAssumption DEF Inv, IInv, TypeOK, ThreadsOK, Threads, JobsOK
<1>b. ASSUME UNCHANGED <<disk, claims, arrived, rows, th>>, JobsStay,
             phase' = "down" => phase = "down"
      PROVE  FlightInv'
  BY <1>a, <1>b, QuietFlight DEF FlightInv
<1>1. CASE \/ \E k \in Keys : BookingPoll(k) \/ RetryReads(k)
           \/ \E f \in Files : Finish(f)
           \/ \E p \in cooling : CooldownEnds(p)
           \/ GoesOffline \/ ComesOnline \/ Scan \/ UNCHANGED vars
  <2>1. /\ UNCHANGED <<disk, claims, arrived, rows, th, jobs>>
        /\ phase' = "down" => phase = "down"
    BY <1>1 DEF BookingPoll, RetryReads, Finish, CooldownEnds, GoesOffline, ComesOnline, Scan, vars, store,
                memory, world
  <2> QED
    BY <1>b, <2>1, SameJobsStay
<1>2. ASSUME NEW k \in Keys, BookingFallsDue(k) \/ (RetryBooking /\ k = cmd.key) PROVE FlightInv'
  <2>1. jobs[k] \in Jobs
    <3>1. NoJob.status = "none" /\ NoJob.bookAt = "never"
      BY DEF NoJob
    <3>2. jobs[k] # NoJob
      BY <1>2, <3>1 DEF BookingFallsDue, RetryBooking, Inv, IInv, CmdIsBacked
    <3> QED
      BY <1>a, <3>2
  <2>2. PICK new : /\ jobs' = [jobs EXCEPT ![k] = new] /\ new.path = jobs[k].path
                   /\ "renamed" \in new.flags => "renamed" \in jobs[k].flags
                   /\ new.status = jobs[k].status \/ new.status = "processing"
    <3> DEFINE due == [jobs[k] EXCEPT !.bookAt = "due"]
               again == [jobs[k] EXCEPT !.flags = cmd.flags \ {"booking"}, !.status = "processing",
                                        !.bookAt = "due"]
    <3>1. /\ due.path = jobs[k].path /\ due.flags = jobs[k].flags /\ due.status = jobs[k].status
          /\ again.path = jobs[k].path /\ again.flags = cmd.flags \ {"booking"}
          /\ again.status = "processing"
      BY <2>1 DEF Jobs
    <3>2. \/ jobs' = [jobs EXCEPT ![k] = due]
          \/ /\ jobs' = [jobs EXCEPT ![k] = again]
             /\ "renamed" \in cmd.flags => "renamed" \in jobs[k].flags
      BY <1>a, <1>2 DEF BookingFallsDue, RetryBooking, Inv, CmdInv
    <3> HIDE DEF due, again
    <3> QED
      BY <3>1, <3>2
  <2>3. JobsStay
    <3>1. jobs[k].status # "none" /\ new.status # "none"
      BY <2>1, <2>2 DEF Jobs
    <3> QED
      BY <1>a, <2>2, <3>1 DEF JobsStay
  <2>4. UNCHANGED <<disk, claims, arrived, rows, th, phase>>
    BY <1>2 DEF BookingFallsDue, RetryBooking, memory, world
  <2> QED
    BY <1>b, <2>3, <2>4
<1>3. CASE Restart
  <2>1. PICK stale \in SUBSET {k \in Keys : FlagStale /\ jobs[k].status = "processing"
                                            /\ "final" \notin jobs[k].flags} :
          jobs' = [k \in Keys |-> IF k \in stale THEN [jobs[k] EXCEPT !.status = "stale"]
                                 ELSE jobs[k]]
    BY <1>3 DEF Restart
  <2>2. /\ UNCHANGED <<disk, claims, arrived, rows, th>> /\ phase' # "down"
        /\ \A t \in Threads : th'[t].pc = "idle"
    BY <1>3, <1>a DEF Restart, memory, FlightInv
  <2>3. JobsStay
    <3>1. \A k \in Keys : jobs[k].status = "processing" =>
              /\ [jobs[k] EXCEPT !.status = "stale"].path = jobs[k].path
              /\ [jobs[k] EXCEPT !.status = "stale"].flags = jobs[k].flags
              /\ [jobs[k] EXCEPT !.status = "stale"].status = "stale"
      <4>1. \A k \in Keys : jobs[k].status = "processing" => jobs[k] \in Jobs
        BY <1>a DEF NoJob
      <4> QED
        BY <4>1 DEF Jobs
    <3> QED
      BY <2>1, <2>2, <3>1 DEF JobsStay
  <2> QED
    BY <1>b, <2>2, <2>3
<1>4. CASE Crash
  <2>1. /\ UNCHANGED <<disk, arrived, jobs, rows>> /\ \A t \in Threads : th'[t].pc = "idle"
    BY <1>4 DEF Crash, store, Idle
  <2>2. DiskInv' /\ JobInv'
    BY <1>a, <2>1 DEF FlightInv, DiskInv, JobInv
  <2>3. RowInv'
    BY <1>a, <2>1 DEF FlightInv, RowInv
  <2>4. \A u, v \in Threads : PathsInv(u)' /\ PlaceInv(u)' /\ ClaimInv(u)' /\ PairInv(u, v)'
    BY <2>1 DEF PathsInv, PlaceInv, ClaimInv, PairInv, Present
  <2>5. \A u \in Threads : HoldInv(u)'
    BY <2>1 DEF HoldInv, Owner, Inside, PCs, Bound, Renamed
  <2> QED
    BY <2>1, <2>2, <2>3, <2>4, <2>5 DEF FlightInv
<1>5. RetryBooking => cmd.key \in Keys
  BY DEF RetryBooking, Inv, IInv, TypeOK, WorldOK
<1> QED
  BY <1>1, <1>2, <1>3, <1>4, <1>5

LEMMA FlightKept ==
    ASSUME Plain, Inv, [Next]_vars
    PROVE  FlightInv'
<1>1. ASSUME NEW t \in Threads, Step(t) PROVE FlightInv'
  <2>a. JobsGrow
    BY <1>1, Effects DEF StepEffects, Inv
  <2>1. CASE Active(t)
    BY <1>1, <2>1, <2>a, OwnerStep, WorksKeeps, RenamesKeeps, LeavesKeeps
  <2>2. CASE ~Active(t) /\ ~Done(t)
    BY <1>1, <2>2, <2>a, GuestSteps, ReadyKeeps, MoveInKeeps, ReclaimKeeps, InsertKeeps, ExitKeeps
  <2>3. CASE Done(t)
    <3>1. /\ UNCHANGED <<disk, claims, arrived, rows, jobs, phase>>
          /\ \A u \in Threads : th'[u] = th[u] \/ th'[u].pc \in {"idle", "done"}
      BY <2>3 DEF Done, Idle, store, world, Inv, IInv, TypeOK, ThreadsOK
    <3>2. phase # "down"
      BY <2>3 DEF Done, Inv, FlightInv
    <3> QED
      BY <3>1, <3>2, SameJobsStay, QuietFlight
  <2> QED
    BY <2>1, <2>2, <2>3
<1>2. ASSUME NEW t \in Threads, NEW p \in queued, Take(t, p) PROVE FlightInv'
  <2>1. /\ t \in Workers /\ th[t].pc = "idle" /\ phase # "down" /\ Enter(t, p) /\ p \in Paths
        /\ UNCHANGED <<disk, jobs, rows, arrived, phase>> /\ ~Present(t) /\ t # Drain
    BY <1>2, PipelineAssumption DEF Take, store, world, Present, Inv, IInv, TypeOK, MemoryOK
  <2>2. th'[Drain] = th[Drain]
    BY <2>1, PipelineAssumption DEF Enter, Threads, Inv, IInv, TypeOK, ThreadsOK
  <2>3. RowInv'
    BY <2>1, <2>2 DEF Inv, FlightInv, RowInv
  <2> QED
    BY <2>1, <2>3, EnterFlight
<1> QED
  BY <1>1, <1>2, DrainFlight, AppearFlight, RestFlight DEF Next

(* Once renamed, always renamed: the flag is never taken back. *)
MarksStay == \A k \in Keys : "renamed" \in jobs[k].flags => "renamed" \in jobs'[k].flags

LEMMA StepMarks ==
    ASSUME Plain, Inv, NEW t \in Threads, Step(t)
    PROVE  MarksStay
<1> DEFINE k == th[t].key
<1>a. /\ jobs \in [Keys -> {NoJob} \cup Jobs] /\ NoJob.flags = {}
      /\ \A j \in Keys : jobs[j].status = "none" => jobs[j] = NoJob
  BY DEF Inv, IInv, TypeOK, JobsOK, NoJob, Jobs
<1>b. CASE UNCHANGED jobs
  BY <1>b DEF MarksStay
<1>c. ASSUME NEW new, jobs' = [jobs EXCEPT ![k] = new],
             "renamed" \in jobs[k].flags => "renamed" \in new.flags
      PROVE  MarksStay
  BY <1>a, <1>c DEF MarksStay
<1>d. ASSUME jobs' = [jobs EXCEPT ![k] = NewJob(th[t].path)], jobs[k].status = "none", k \in Keys
      PROVE  MarksStay
  BY <1>a, <1>c, <1>d
<1>1. CASE Active(t)
  <2>1. CASE Renames(t) \/ Leaves(t)
    BY <1>b, <2>1 DEF Renames, Leaves, Moves
  <2>2. ASSUME NEW status, NEW path, JobGets(k, status, path) PROVE MarksStay
    BY <1>c, <2>2 DEF JobGets
  <2>3. ASSUME JobSame(k) PROVE MarksStay
    BY <1>b, <2>2, <2>3 DEF JobSame
  <2>4. CASE FindsJob(t) \/ ReadsJob(t)
    BY <1>b, <2>4 DEF FindsJob, ReadsJob, store
  <2>5. CASE TakesJob(t)
    <3>1. th[t].pc = "adopt" => k \in Keys
      BY <1>1, OwnerHas
    <3> QED
      BY <1>b, <1>d, <2>2, <2>5, <3>1 DEF TakesJob, Hop
  <2>6. CASE WritesJob(t)
    BY <1>b, <1>c, <2>2, <2>3, <2>6 DEF WritesJob
  <2> QED
    BY <1>1, <2>1, <2>4, <2>5, <2>6, OwnerStep DEF Works
<1>2. CASE ~Active(t)
  <2>1. CASE Insert(t)
    <3>1. k \in Keys
      BY <2>1 DEF Insert, Inv, IInv, ThreadInv, HoldsKey
    <3> QED
      BY <1>b, <1>d, <2>1, <3>1 DEF Insert
  <2>2. CASE Ready(t) \/ MoveIn(t) \/ Reclaim(t) \/ Exit(t) \/ Done(t)
    BY <1>b, <2>2 DEF Ready, MoveIn, Reclaim, Exit, Done, store
  <2> QED
    BY <1>2, <2>1, <2>2, GuestSteps
<1> QED
  BY <1>1, <1>2

LEMMA CmdKept ==
    ASSUME Plain, Inv, [Next]_vars
    PROVE  CmdInv'
<1>a. /\ jobs \in [Keys -> {NoJob} \cup Jobs] /\ NoJob.flags = {} /\ CmdInv
      /\ \A k \in Keys : jobs[k] \in Jobs \/ jobs[k] = NoJob
      /\ cmd # NoCmd => cmd.key \in Keys
  BY DEF Inv, IInv, TypeOK, JobsOK, NoJob, WorldOK
<1>b. ASSUME MarksStay, cmd' = cmd PROVE CmdInv'
  BY <1>a, <1>b DEF CmdInv, MarksStay
<1>1. ASSUME NEW t \in Threads, Step(t) PROVE CmdInv'
  BY <1>1, <1>b, StepMarks, Effects DEF StepEffects, Inv
<1>2. CASE RetryBooking \/ \E k \in Keys : RetryReads(k)
  BY <1>2 DEF RetryBooking, RetryReads, CmdInv, store
<1>3. CASE \/ \E t \in Threads, p \in queued : Take(t, p)
           \/ \E k \in Keys : DrainPick(k) \/ BookingPoll(k)
           \/ \E f \in Files : Appear(f) \/ Finish(f)
           \/ \E p \in cooling : CooldownEnds(p)
           \/ GoesOffline \/ ComesOnline \/ Crash \/ Scan \/ UNCHANGED vars
  <2>1. UNCHANGED <<jobs, cmd>>
    BY <1>3 DEF Take, DrainPick, BookingPoll, Appear, Finish, CooldownEnds, GoesOffline,
       ComesOnline, Crash, Scan, vars, store, world
  <2> QED
    BY <1>b, <2>1 DEF MarksStay
<1>4. CASE DrainBegin \/ \E k \in Keys : BookingFallsDue(k)
  <2>1. /\ cmd' = cmd
        /\ \/ UNCHANGED jobs
           \/ \E k \in Keys : jobs' = [jobs EXCEPT ![k].status = "failed"]
           \/ \E k \in Keys : jobs' = [jobs EXCEPT ![k].bookAt = "due"]
    <3>1. DrainBegin => th[Drain].key \in Keys
      BY DEF DrainBegin, Inv, IInv, ThreadInv, HoldsKey, Threads
    <3> QED
      BY <1>4, <3>1 DEF DrainBegin, BookingFallsDue, store, world
  <2>2. \A k \in Keys : /\ [jobs[k] EXCEPT !.status = "failed"].flags = jobs[k].flags
                       /\ [jobs[k] EXCEPT !.bookAt = "due"].flags = jobs[k].flags
    BY <1>a DEF Jobs, NoJob
  <2> QED
    BY <1>a, <1>b, <2>1, <2>2 DEF MarksStay
<1>5. CASE Restart
  <2>1. PICK stale \in SUBSET Keys :
          jobs' = [k \in Keys |-> IF k \in stale THEN [jobs[k] EXCEPT !.status = "stale"]
                                 ELSE jobs[k]]
    BY <1>5 DEF Restart
  <2>2. \A k \in Keys : [jobs[k] EXCEPT !.status = "stale"].flags = jobs[k].flags
    BY <1>a DEF Jobs, NoJob
  <2>3. cmd' = cmd
    BY <1>5 DEF Restart
  <2> QED
    BY <1>a, <1>b, <2>1, <2>2, <2>3 DEF MarksStay
<1> QED
  BY <1>1, <1>2, <1>3, <1>4, <1>5 DEF Next

LEMMA InitFlight == Init => PoolInv /\ FlightInv /\ CmdInv
<1> SUFFICES ASSUME Init PROVE PoolInv /\ FlightInv /\ CmdInv
  OBVIOUS
<1>1. /\ \A t \in Threads : th[t].pc = "idle"
      /\ disk = {} /\ queued = {} /\ pending = {} /\ Workers \subseteq Threads /\ Drain \in Threads
  BY DEF Init, Idle, Threads
<1>2. \A k \in Keys : jobs[k].status = "none" /\ jobs[k].flags = {} /\ ~rows[k].queued
  BY DEF Init, NoJob, NoRow
<1>3. PoolInv
  BY <1>1 DEF PoolInv
<1>4. DiskInv /\ JobInv /\ RowInv
  BY <1>1, <1>2 DEF DiskInv, JobInv, RowInv
<1>5. ASSUME NEW t \in Threads PROVE PathsInv(t) /\ PlaceInv(t) /\ ClaimInv(t) /\ HoldInv(t)
  BY <1>1 DEF PathsInv, PlaceInv, ClaimInv, HoldInv, Present, Owner, Inside, PCs, Bound, Renamed
<1>6. \A t, u \in Threads : PairInv(t, u)
  BY <1>1 DEF PairInv, Present
<1>7. CmdInv
  BY DEF Init, CmdInv
<1> QED
  BY <1>1, <1>3, <1>4, <1>5, <1>6, <1>7 DEF FlightInv

LEMMA InvKept == Plain /\ Inv /\ [Next]_vars => Inv'
<1> SUFFICES ASSUME Plain, Inv, [Next]_vars PROVE Inv'
  OBVIOUS
<1>1. IInv'
  BY NextKeeps DEF Inv
<1>2. PoolInv'
  BY PoolKept DEF Inv, IInv
<1>3. FlightInv' /\ CmdInv'
  BY FlightKept, CmdKept
<1> QED
  BY <1>1, <1>2, <1>3 DEF Inv

LEMMA InitInv == Init => Inv
BY InitHolds, InitFlight DEF Inv

LEMMA FlightAlways == Plain => (Spec => []Inv)
<1> SUFFICES ASSUME Plain PROVE Spec => []Inv
  OBVIOUS
<1>1. Inv /\ [Next]_vars => Inv'
  BY InvKept
<1> QED
  BY <1>1, InitInv, PTL DEF Spec

(* The claims of process_clip, which are on paths, come down to one owner of
   each clip: no two threads are ever inside the body with the same job,
   although paths are dropped, renamed and released meanwhile.  (Plain only:
   nothing claims the name of a remuxed copy.) *)
PROPOSITION OneThreadPerClip == Plain => (Spec => []SingleFlight)
<1> SUFFICES ASSUME Plain PROVE Spec => []SingleFlight
  OBVIOUS
<1>1. Inv => SingleFlight
  <2> SUFFICES ASSUME Inv, NEW t \in Threads, NEW u \in Threads, t # u,
                      th[t].pc \in Inside, th[u].pc \in Inside
               PROVE  th[t].key # th[u].key
    BY DEF SingleFlight
  <2>1. Active(t) /\ Active(u) /\ th[t].pc # "resume" /\ th[u].pc # "resume"
    BY DEF Active, Owner, Inside
  <2> QED
    BY <2>1, OwnerHas, OtherJob
<1> QED
  BY <1>1, FlightAlways, PTL

(***************************************************************************)
(* One row for a recording                                                 *)
(***************************************************************************)

(* What the services are told of a clip goes by its second name; its original
   comes before its row. *)
RemoteInv ==
    /\ \A s \in RemoteSteps : \A o \in remote[s] :
           o.name = "utc" /\ o.key.content = ContentOf[o.file]
    /\ \A o \in remote["row"] : \E u \in remote["original"] : u.key = o.key

(* What is told where, and what is behind it. *)
LEMMA ToldOf ==
    ASSUME Inv, NEW t \in Threads, NEW s \in RemoteSteps, At(t, s), Told(t, s)
    PROVE  /\ th[t].key \in Keys /\ th[t].key = KeyOf(th[t].path) /\ th[t].path \in Paths
           /\ th[t].path.name = "utc" /\ jobs[th[t].key].status \in {"processing", "failed"}
           /\ \A r \in Published \cap Before(s, th[t].path.file) : Has(th[t].key, r)
           /\ Object(t).key = th[t].key /\ Object(t).file = th[t].path.file
           /\ Object(t).name = "utc"
           /\ remote'[s] = remote[s] \cup {Object(t)}
           /\ \A r \in RemoteSteps \ {s} : remote'[r] = remote[r]
<1>1. th[t].pc = "work" /\ Before(s, th[t].path.file) \subseteq th[t].flags
  BY DEF At
<1>2. Active(t) /\ th[t].pc \in Renamed /\ th[t].pc \in JobPCs \ {"reopen", "rebind", "body"}
      /\ th[t].pc \in Inside \ {"defer_row", "final_del"}
  BY <1>1 DEF Active, Owner, Inside, PCs, Renamed, JobPCs
<1>3. /\ th[t].key = KeyOf(th[t].path) /\ th[t].path \in Paths /\ th[t].key \in Keys
      /\ th[t].path.name = "utc" /\ jobs[th[t].key].status \in {"processing", "failed"}
  BY <1>1, <1>2, OwnerHas DEF Inv, FlightInv, HoldInv
<1>4. \A r \in Published \cap Before(s, th[t].path.file) : Has(th[t].key, r)
  BY <1>1, <1>2, <1>3 DEF Inv, IInv, ThreadInv, HoldsFlags, backed
<1>5. remote \in [RemoteSteps -> SUBSET Objects]
  BY DEF Inv, IInv, TypeOK, RemoteOK
<1> QED
  BY <1>3, <1>4, <1>5 DEF Told, Object

LEMMA RemoteKept ==
    ASSUME Plain, Inv, RemoteInv, [Next]_vars
    PROVE  RemoteInv'
<1>1. CASE UNCHANGED remote
  BY <1>1 DEF RemoteInv
<1>2. ASSUME NEW t \in Threads, NEW s \in RemoteSteps, At(t, s), Told(t, s) PROVE RemoteInv'
  <2> DEFINE o == Object(t)
  <2>1. /\ o.name = "utc" /\ o.key = KeyOf(th[t].path) /\ o.file = th[t].path.file
        /\ o.key = th[t].key
        /\ remote'[s] = remote[s] \cup {o} /\ \A r \in RemoteSteps \ {s} : remote'[r] = remote[r]
        /\ \A r \in Published \cap Before(s, o.file) : Has(o.key, r)
    BY <1>2, ToldOf
  <2>2. o.key.content = ContentOf[o.file]
    BY <2>1 DEF KeyOf
  <2>3. "original" \in RemoteSteps /\ "row" \in RemoteSteps
    BY DEF RemoteSteps
  <2>4. s = "row" => Has(o.key, "original")
    <3>1. "original" \in Published /\ (s = "row" => "original" \in Before(s, o.file))
      BY DEF Published, Before
    <3> QED
      BY <2>1, <3>1
  <2> HIDE DEF o
  <2>5. \A r \in RemoteSteps : \A x \in remote'[r] : x.name = "utc" /\ x.key.content = ContentOf[x.file]
    BY <2>1, <2>2 DEF RemoteInv
  <2>6. ASSUME NEW x \in remote'["row"] PROVE \E u \in remote'["original"] : u.key = x.key
    <3>1. remote["original"] \subseteq remote'["original"]
      BY <2>1, <2>3
    <3>2. CASE x \in remote["row"]
      BY <3>1, <3>2 DEF RemoteInv
    <3>3. CASE x \notin remote["row"]
      <4>1. x = o /\ s = "row"
        BY <2>1, <2>3, <2>6, <3>3
      <4> QED
        BY <2>4, <3>1, <4>1 DEF Has
    <3> QED
      BY <3>2, <3>3
  <2> QED
    BY <2>5, <2>6 DEF RemoteInv
<1>3. ASSUME ~ \E t \in Threads : Step(t) PROVE UNCHANGED remote
  BY <1>3 DEF Next, vars, Take, DrainBegin, DrainPick, BookingFallsDue, BookingPoll, RetryBooking,
     RetryReads, Appear, Finish, CooldownEnds, GoesOffline, ComesOnline, Crash, Restart, Scan
<1> QED
  BY <1>1, <1>2, <1>3, TellsAt

LEMMA RemoteAlways == Plain => (Spec => [](Inv /\ RemoteInv))
<1> SUFFICES ASSUME Plain PROVE Spec => [](Inv /\ RemoteInv)
  OBVIOUS
<1>1. Init => RemoteInv
  BY DEF Init, RemoteInv, RemoteSteps
<1>2. Inv /\ RemoteInv /\ [Next]_vars => RemoteInv'
  BY RemoteKept
<1> QED
  BY <1>1, <1>2, FlightAlways, PTL DEF Spec

(* upsert_clip_record goes by the name of the file: a recording never gets two
   rows, as long as it is not renamed between two upserts.  (Plain only: a remux
   between two upserts gives it a second row.) *)
PROPOSITION OneRow == Plain => (Spec => []UniqueRow)
<1> SUFFICES ASSUME Plain PROVE Spec => []UniqueRow
  OBVIOUS
<1>1. RemoteInv => UniqueRow
  BY DEF RemoteInv, UniqueRow, RemoteSteps
<1> QED
  BY <1>1, RemoteAlways, PTL

(* The row of a clip never names an object that was not uploaded before it,
   for that very recording and under that very name.  (Plain only: with twins or
   a remux the object may bear another name.) *)
PROPOSITION RowsAreBacked == Plain => (Spec => []RowHasOriginal)
<1> SUFFICES ASSUME Plain PROVE Spec => []RowHasOriginal
  OBVIOUS
<1>1. ASSUME Inv, RemoteInv, NEW o \in remote["row"]
      PROVE  \E u \in remote["original"] : u.file = o.file /\ u.name = o.name
  <2>1. PICK u \in remote["original"] : u.key = o.key
    BY <1>1 DEF RemoteInv
  <2>2. /\ "original" \in RemoteSteps /\ "row" \in RemoteSteps
        /\ remote \in [RemoteSteps -> SUBSET Objects]
    BY <1>1 DEF RemoteSteps, Inv, IInv, TypeOK, RemoteOK
  <2>3. u.file \in Files /\ o.file \in Files
    BY <2>2, <1>1 DEF Objects
  <2>4. u.name = "utc" /\ o.name = "utc" /\ ContentOf[u.file] = ContentOf[o.file]
    BY <1>1, <2>1, <2>2 DEF RemoteInv
  <2> QED
    BY <2>3, <2>4 DEF Plain
<1>2. Inv /\ RemoteInv => RowHasOriginal
  BY <1>1 DEF RowHasOriginal
<1> QED
  BY <1>2, RemoteAlways, PTL

(***************************************************************************)
(* The ledger                                                              *)
(***************************************************************************)

(* The entries and the calls of the ledger, as the refinement maps them. *)
Status == [k \in Keys |-> Entry(jobs[k].status)]
ToldOfSteps == [s \in RemoteSteps |-> {k \in Keys : \E o \in remote[s] : o.key = k}]
SameCalls == UNCHANGED ToldOfSteps /\ budget'.cmds = budget.cmds

LEMMA LedgerStays ==
    ASSUME UNCHANGED Status, SameCalls
    PROVE  UNCHANGED Ledger!vars
BY DEF Ledger!vars, SameCalls, Status, ToldOfSteps

(* What the ledger allows an entry to become, nothing else changing. *)
LEMMA LedgerEntry ==
    ASSUME NEW k \in Keys, NEW e, Status' = [Status EXCEPT ![k] = e], SameCalls,
           \/ Status[k] = "none" /\ e = "open"
           \/ Status[k] = "failed" /\ e = "open"
           \/ Status[k] # "none" /\ e = "failed"
           \/ /\ Status[k] # "none" /\ e = "completed"
              /\ \A s \in Published : k \in ToldOfSteps[s]
    PROVE  Ledger!Next
<1>1. CASE Status[k] = "none" /\ e = "open"
  <2>1. Ledger!Register(k)
    BY <1>1 DEF Ledger!Register, Ledger!Set, Status, ToldOfSteps, SameCalls
  <2> QED
    BY <2>1 DEF Ledger!Next
<1>2. CASE Status[k] = "failed" /\ e = "open"
  <2>1. Ledger!Revive(k)
    BY <1>2 DEF Ledger!Revive, Ledger!Set, Status, ToldOfSteps, SameCalls
  <2> QED
    BY <2>1 DEF Ledger!Next
<1>3. CASE Status[k] # "none" /\ e = "failed"
  <2>1. Ledger!Fail(k)
    BY <1>3 DEF Ledger!Fail, Ledger!Set, Status, ToldOfSteps, SameCalls
  <2> QED
    BY <2>1 DEF Ledger!Next
<1>4. CASE /\ Status[k] # "none" /\ e = "completed"
           /\ \A s \in Published : k \in ToldOfSteps[s]
  <2>1. Ledger!Complete(k)
    BY <1>4 DEF Ledger!Complete, Ledger!Set, Ledger!Required, Published, Status, ToldOfSteps, SameCalls
  <2> QED
    BY <2>1 DEF Ledger!Next
<1> QED
  BY <1>1, <1>2, <1>3, <1>4

LEMMA LedgerTells ==
    ASSUME NEW k \in Keys, NEW s \in RemoteSteps, UNCHANGED Status, Status[k] # "none",
           budget'.cmds = budget.cmds,
           ToldOfSteps' = [ToldOfSteps EXCEPT ![s] = @ \cup {k}],
           \A r \in Ledger!After[s] : k \in ToldOfSteps[r]
    PROVE  Ledger!Next
<1>1. Ledger!Tell(k, s)
  BY DEF Ledger!Tell, Status, ToldOfSteps
<1>2. s \in Ledger!Services
  BY DEF Ledger!Services, Ledger!After, RemoteSteps
<1> QED
  BY <1>1, <1>2 DEF Ledger!Next

LEMMA LedgerCommand ==
    ASSUME NEW k \in Keys, Status[k] # "none", Status' = [Status EXCEPT ![k] = "open"],
           UNCHANGED ToldOfSteps, budget'.cmds = budget.cmds + 1
    PROVE  Ledger!Next
<1>1. Ledger!Command(k)
  BY DEF Ledger!Command, Ledger!Set, Status, ToldOfSteps
<1> QED
  BY <1>1 DEF Ledger!Next

(* A job that changes, in the ledger. *)
LEMMA StatusOf ==
    /\ \A k \in Keys : Status[k] = Entry(jobs[k].status)
    /\ \A k \in Keys : Status'[k] = Entry(jobs'[k].status)
BY DEF Status

LEMMA JobInLedger ==
    ASSUME JobsOK, NEW k \in Keys, NEW new, jobs' = [jobs EXCEPT ![k] = new]
    PROVE  /\ Status' = [Status EXCEPT ![k] = Entry(new.status)]
           /\ Entry(new.status) = Entry(jobs[k].status) => UNCHANGED Status
BY DEF JobsOK, Status

LEMMA EntryIs ==
    ASSUME NEW st \in {"none", "processing", "pending_remote_sync", "completed", "failed", "stale"}
    PROVE  /\ Entry(st) = "none" <=> st = "none"
           /\ Entry(st) = "failed" <=> st = "failed"
           /\ Entry(st) = "completed" <=> st = "completed"
           /\ st \in {"processing", "pending_remote_sync", "stale"} => Entry(st) = "open"
BY DEF Entry

LEMMA LedgerInit == Init => Ledger!Init
<1> SUFFICES ASSUME Init PROVE Ledger!Init
  OBVIOUS
<1>1. [k \in Keys |-> Entry(jobs[k].status)] = [k \in Keys |-> "none"]
  BY DEF Init, NoJob, Entry
<1>2. [s \in RemoteSteps |-> {k \in Keys : \E o \in remote[s] : o.key = k}]
        = [s \in Ledger!Services |-> {}]
  <2>1. RemoteSteps = Ledger!Services
    BY DEF RemoteSteps, Ledger!Services, Ledger!After
  <2>2. \A s \in RemoteSteps : remote[s] = {}
    BY DEF Init
  <2> QED
    BY <2>1, <2>2
<1>3. budget.cmds = 0
  BY DEF Init
<1> QED
  BY <1>1, <1>2, <1>3 DEF Ledger!Init

LEMMA StepSpends ==
    ASSUME WorldOK, NEW t \in Threads, Step(t)
    PROVE  budget'.cmds = budget.cmds
<1>1. CASE Ready(t) \/ MoveIn(t) \/ Reclaim(t) \/ Insert(t) \/ Resume(t) \/ Adopt(t) \/ Rebind(t)
           \/ Reopen(t) \/ Body(t) \/ Gate(t) \/ RenameUtc(t) \/ RecordUtc(t)
  <2>1. UNCHANGED budget \/ Fault
    BY <1>1 DEF Ready, MoveIn, Reclaim, Insert, Resume, Adopt, Rebind, Reopen, Body, Gate,
       RenameUtc, RecordUtc
  <2> QED
    BY <2>1 DEF Fault, Spend, WorldOK
<1>2. CASE Remux(t) \/ RecordRemux(t) \/ RemoveSource(t) \/ Preview(t) \/ MoveBad(t)
           \/ RecordBad(t) \/ Record(t) \/ BookingMatched(t) \/ BookingUnmatched(t)
           \/ BookingRaises(t) \/ DeferJob(t) \/ DeferRow(t)
  <2>1. UNCHANGED budget \/ Fault
    BY <1>2 DEF Remux, RecordRemux, RemoveSource, Preview, MoveBad, RecordBad, Record,
       BookingMatched, BookingUnmatched, BookingRaises, DeferJob, DeferRow
  <2> QED
    BY <2>1 DEF Fault, Spend, WorldOK
<1>3. CASE Finalize(t) \/ RecordFinal(t) \/ DeleteRow(t) \/ NothingLeft(t) \/ MoveFailed(t)
           \/ RecordFailed(t) \/ MoveOrphan(t) \/ Exit(t) \/ Done(t)
  <2>1. UNCHANGED budget \/ Fault
    BY <1>3 DEF Finalize, RecordFinal, DeleteRow, NothingLeft, MoveFailed, RecordFailed, MoveOrphan,
       Exit, Done
  <2> QED
    BY <2>1 DEF Fault, Spend, WorldOK
<1>4. ASSUME NEW s \in RemoteSteps, Call(t, s) \/ CallRaises(t, s) \/ Deferred(t, s)
      PROVE  budget'.cmds = budget.cmds
  <2>1. UNCHANGED budget \/ Fault
    BY <1>4 DEF Call, CallRaises, Deferred
  <2> QED
    BY <2>1 DEF Fault, Spend, WorldOK
<1>5. {"original", "previewUp", "row"} \subseteq RemoteSteps
  BY DEF RemoteSteps
<1> QED
  BY <1>1, <1>2, <1>3, <1>4, <1>5 DEF Step

(* The steps outside the body: they find a job, at most. *)
LEMMA OutsideLedger ==
    ASSUME Inv, NEW t \in Threads, ~Active(t), Step(t), SameCalls
    PROVE  Ledger!Next \/ UNCHANGED Ledger!vars
<1>1. CASE UNCHANGED jobs
  BY <1>1, LedgerStays DEF Status
<1>2. CASE Insert(t) /\ jobs' # jobs
  <2> DEFINE k == th[t].key
  <2>1. k \in Keys /\ jobs[k].status = "none" /\ jobs' = [jobs EXCEPT ![k] = NewJob(th[t].path)]
    BY <1>2 DEF Insert, Inv, IInv, ThreadInv, HoldsKey
  <2>2. NewJob(th[t].path).status = "processing"
    BY DEF NewJob, NoJob
  <2>3. Status' = [Status EXCEPT ![k] = "open"] /\ Status[k] = "none"
    <3>1. JobsOK /\ Entry("none") = "none" /\ Entry("processing") = "open"
      BY EntryIs DEF Inv, IInv, TypeOK
    <3> HIDE DEF k
    <3>2. Status' = [Status EXCEPT ![k] = Entry(NewJob(th[t].path).status)]
      BY <2>1, <3>1, JobInLedger
    <3>3. Status[k] = Entry(jobs[k].status)
      BY <2>1, StatusOf
    <3> QED
      BY <2>1, <2>2, <3>1, <3>2, <3>3
  <2> QED
    BY <2>1, <2>3, LedgerEntry
<1>3. CASE ~Insert(t)
  <2>1. UNCHANGED jobs
    BY <1>3, GuestSteps DEF Ready, MoveIn, Reclaim, Exit, Done, store
  <2> QED
    BY <1>1, <2>1
<1> QED
  BY <1>1, <1>2, <1>3

(* The steps of an owner that call nobody: a status that changes changes as
   the ledger allows. *)
LEMMA OwnerLedger ==
    ASSUME Plain, Inv, Inv', NEW t \in Threads, Active(t), Step(t), SameCalls, UNCHANGED remote
    PROVE  Ledger!Next \/ UNCHANGED Ledger!vars
<1> DEFINE k == th[t].key
<1>a. /\ JobsOK /\ Active(t) /\ HoldInv(t)
      /\ th[t].pc # "resume" => k \in Keys
      /\ th[t].pc \notin {"resume", "adopt"} =>
             jobs[k].status \in {"processing", "pending_remote_sync", "completed", "failed", "stale"}
  BY OwnerHas DEF Inv, FlightInv, IInv, TypeOK, Jobs
<1>b. CASE UNCHANGED jobs
  BY <1>b, LedgerStays DEF Status
<1>c. ASSUME NEW new, jobs' = [jobs EXCEPT ![k] = new], new.status = jobs[k].status,
             th[t].pc # "resume"
      PROVE  UNCHANGED Ledger!vars
  BY <1>a, <1>c, JobInLedger, LedgerStays
<1>d. ASSUME NEW new, jobs' = [jobs EXCEPT ![k] = new], th[t].pc \notin {"resume", "adopt"},
             \/ new.status \in {"processing", "pending_remote_sync"} /\ jobs[k].status # "completed"
             \/ new.status = "failed"
             \/ new.status = "completed"
      PROVE  Ledger!Next \/ UNCHANGED Ledger!vars
  <2>1. k \in Keys /\ Status' = [Status EXCEPT ![k] = Entry(new.status)]
    BY <1>a, <1>d, JobInLedger
  <2>2. Status[k] = Entry(jobs[k].status)
    BY <2>1, StatusOf
  <2>3. CASE new.status \in {"processing", "pending_remote_sync"} /\ jobs[k].status = "failed"
    BY <1>a, <1>d, <2>1, <2>2, <2>3, EntryIs, LedgerEntry
  <2>4. CASE new.status \in {"processing", "pending_remote_sync"}
             /\ jobs[k].status \notin {"completed", "failed"}
    <3>1. Entry(new.status) = "open" /\ Entry(jobs[k].status) = "open"
      BY <1>a, <1>d, <2>4, EntryIs
    <3> QED
      BY <1>a, <1>d, <2>1, <3>1, JobInLedger, LedgerStays
  <2>5. CASE new.status = "failed"
    BY <1>a, <1>d, <2>1, <2>2, <2>5, EntryIs, LedgerEntry
  <2>6. CASE new.status = "completed"
    <3>1. jobs'[k].status = "completed"
      BY <1>a, <1>d, <2>1, <2>6 DEF JobsOK
    <3>2. \A s \in Published : Has(k, s)
      <4>1. \A j \in Keys : jobs'[j].status = "completed" =>
                \A s \in Published : \E o \in remote'[s] : o.key = j
        BY DEF Inv, IInv, CompletedIsBacked, backed, Has
      <4> QED
        BY <2>1, <3>1, <4>1 DEF Has
    <3>3. \A s \in Published : k \in ToldOfSteps[s]
      BY <2>1, <3>2 DEF ToldOfSteps, Has, Published, RemoteSteps
    <3> QED
      BY <1>a, <1>d, <2>1, <2>2, <2>6, <3>3, EntryIs, LedgerEntry
  <2> QED
    BY <1>d, <2>3, <2>4, <2>5, <2>6
<1>1. CASE Renames(t) \/ Leaves(t)
  BY <1>b, <1>1 DEF Renames, Leaves, Moves
<1>2. CASE Works(t)
  <2>1. CASE FindsJob(t) \/ ReadsJob(t)
    BY <1>b, <2>1 DEF FindsJob, ReadsJob, store
  <2>2. CASE TakesJob(t)
    <3>1. CASE th[t].pc = "adopt" /\ jobs[k].status = "none"
               /\ jobs' = [jobs EXCEPT ![k] = NewJob(th[t].path)]
      <4>1. NewJob(th[t].path).status = "processing"
        BY DEF NewJob, NoJob
      <4>2. k \in Keys /\ Status' = [Status EXCEPT ![k] = "open"] /\ Status[k] = "none"
        <5>1. JobsOK /\ k \in Keys /\ Entry("none") = "none" /\ Entry("processing") = "open"
          BY <1>a, <3>1, EntryIs
        <5> HIDE DEF k
        <5>2. Status' = [Status EXCEPT ![k] = Entry(NewJob(th[t].path).status)]
          BY <3>1, <5>1, JobInLedger
        <5>3. Status[k] = Entry(jobs[k].status)
          BY <5>1, StatusOf
        <5> QED
          BY <3>1, <4>1, <5>1, <5>2, <5>3
      <4> QED
        BY <4>2, LedgerEntry
    <3>2. CASE th[t].pc = "rebind" /\ JobGets(k, jobs[k].status, th[t].path)
      BY <1>c, <3>2 DEF JobGets
    <3>3. CASE th[t].pc = "reopen" /\ JobGets(k, "processing", jobs[k].path)
      BY <1>a, <1>d, <3>3 DEF JobGets, HoldInv
    <3> QED
      BY <1>b, <2>2, <3>1, <3>2, <3>3 DEF TakesJob, Hop
  <2>3. CASE WritesJob(t)
    <3> DEFINE job == jobs[k]
    <3>1. ASSUME JobSame(k), th[t].pc # "resume" PROVE UNCHANGED Ledger!vars
      BY <1>b, <1>c, <3>1, LedgerStays DEF JobSame, JobGets, Status
    <3>2. CASE th[t].pc = "defer" /\ JobGets(k, "pending_remote_sync", job.path)
      <4>1. jobs[k].status # "completed"
        BY <1>a, <3>2 DEF HoldInv, Inside, PCs
      <4> QED
        BY <1>d, <3>2, <4>1 DEF JobGets
    <3>3. CASE th[t].pc \in {"bad_rec", "fail_rec"} /\ \E path : JobGets(k, "failed", path)
      BY <1>d, <3>3 DEF JobGets
    <3>4. CASE th[t].pc = "final_rec" /\ \E path : JobGets(k, "completed", path)
      BY <1>d, <3>4 DEF JobGets
    <3>5. CASE /\ th[t].pc = "utc_rec"
               /\ \E new \in Jobs : jobs' = [jobs EXCEPT ![k] = new] /\ new.status = job.status
      BY <1>c, <3>5
    <3> QED
      BY <1>b, <2>3, <3>1, <3>2, <3>3, <3>4, <3>5 DEF WritesJob, Hop
  <2> QED
    BY <1>2, <2>1, <2>2, <2>3 DEF Works
<1> QED
  BY <1>1, <1>2, OwnerStep

LEMMA TellLedger ==
    ASSUME Plain, Inv, NEW t \in Threads, NEW s \in RemoteSteps, Step(t), At(t, s), Told(t, s),
           budget'.cmds = budget.cmds
    PROVE  Ledger!Next
<1> DEFINE k == th[t].key
<1>a. th[t].pc = "work" /\ Active(t)
  BY DEF At, Active, Owner, Inside, PCs
<1>b. /\ k \in Keys /\ jobs[k].status \in {"processing", "failed"}
      /\ \A r \in Published \cap Before(s, th[t].path.file) : Has(k, r)
      /\ Object(t).key = k
      /\ remote'[s] = remote[s] \cup {Object(t)}
      /\ \A r \in RemoteSteps \ {s} : remote'[r] = remote[r]
  BY ToldOf
<1>1. UNCHANGED Status
  <2>1. UNCHANGED jobs \/ JobSame(k)
    BY <1>a, OwnerStep
    DEF Works, FindsJob, TakesJob, ReadsJob, WritesJob, Hop, Renames, Leaves, Moves, store
  <2>2. ASSUME JobSame(k) PROVE UNCHANGED Status
    <3>1. JobsOK
      BY DEF Inv, IInv, TypeOK
    <3> QED
      BY <1>b, <2>2, <3>1, JobInLedger DEF JobSame, JobGets, Status
  <2> QED
    BY <2>1, <2>2 DEF Status
<1>2. Status[k] # "none"
  BY <1>b, StatusOf, EntryIs
<1>3. ToldOfSteps' = [ToldOfSteps EXCEPT ![s] = @ \cup {k}]
  <2> DEFINE o == Object(t)
             j == th[t].key
             Of(r) == {i \in Keys : \E x \in remote[r] : x.key = i}
             New(r) == {i \in Keys : \E x \in remote'[r] : x.key = i}
  <2>1. New(s) = Of(s) \cup {k}
    BY <1>b
  <2>2. \A r \in RemoteSteps \ {s} : New(r) = Of(r)
    BY <1>b
  <2>3. ToldOfSteps' = [r \in RemoteSteps |-> New(r)] /\ ToldOfSteps = [r \in RemoteSteps |-> Of(r)]
    BY DEF ToldOfSteps
  <2> HIDE DEF New, Of
  <2> QED
    BY <2>1, <2>2, <2>3
<1>4. \A r \in Ledger!After[s] : k \in ToldOfSteps[r]
  <2>1. Ledger!After[s] \subseteq Published \cap Before(s, th[t].path.file)
        /\ Ledger!After[s] \subseteq RemoteSteps
    BY DEF Ledger!After, Published, Before, RemoteSteps
  <2> QED
    BY <1>b, <2>1 DEF ToldOfSteps, Has
<1> QED
  <2> HIDE DEF k
  <2> QED
    BY <1>b, <1>1, <1>2, <1>3, <1>4, LedgerTells

LEMMA StepLedger ==
    ASSUME Plain, Inv, Inv', NEW t \in Threads, Step(t)
    PROVE  Ledger!Next \/ UNCHANGED Ledger!vars
<1>1. budget'.cmds = budget.cmds
  BY StepSpends DEF Inv, IInv, TypeOK
<1>2. CASE UNCHANGED remote
  <2>1. SameCalls
    BY <1>1, <1>2 DEF SameCalls, ToldOfSteps
  <2> QED
    BY <1>2, <2>1, OutsideLedger, OwnerLedger
<1>3. ASSUME NEW s \in RemoteSteps, At(t, s), Told(t, s) PROVE Ledger!Next
  BY <1>1, <1>3, TellLedger
<1> QED
  BY <1>2, <1>3, TellsAt

LEMMA RestLedger ==
    ASSUME Inv, Next, ~ \E t \in Threads : Step(t)
    PROVE  Ledger!Next \/ UNCHANGED Ledger!vars
<1>a. /\ JobsOK /\ Drain \in Threads
      /\ budget \in [crashes : Nat, faults : Nat, outages : Nat, cmds : Nat]
  BY DEF Inv, IInv, TypeOK, WorldOK, Threads
<1>b. UNCHANGED remote
  BY DEF Next, vars, Take, DrainBegin, DrainPick, BookingFallsDue, BookingPoll, RetryBooking,
     RetryReads, Appear, Finish, CooldownEnds, GoesOffline, ComesOnline, Crash, Restart, Scan
<1>1. ASSUME UNCHANGED jobs, budget'.cmds = budget.cmds PROVE UNCHANGED Ledger!vars
  <2>1. SameCalls /\ UNCHANGED Status
    BY <1>b, <1>1 DEF SameCalls, ToldOfSteps, Status
  <2> QED
    BY <2>1, LedgerStays
<1>2. CASE \/ \E t \in Threads, p \in queued : Take(t, p)
           \/ \E k \in Keys : DrainPick(k) \/ BookingPoll(k) \/ RetryReads(k)
           \/ \E f \in Files : Appear(f) \/ Finish(f)
           \/ \E p \in cooling : CooldownEnds(p)
           \/ ComesOnline \/ Scan
  BY <1>1, <1>2 DEF Take, DrainPick, BookingPoll, RetryReads, Appear, Finish, CooldownEnds, ComesOnline, Scan, store
<1>3. CASE GoesOffline \/ Crash
  <2>1. budget'.cmds = budget.cmds
    BY <1>a, <1>3 DEF GoesOffline, Crash, Spend
  <2> QED
    BY <1>1, <1>3, <2>1 DEF GoesOffline, Crash, store
<1>4. CASE DrainBegin
  <2> DEFINE k == th[Drain].key
             new == [jobs[k] EXCEPT !.status = "failed"]
  <2>1. k \in Keys /\ jobs[k].status # "none" /\ SameCalls
    BY <1>4, <1>a, <1>b DEF DrainBegin, Inv, IInv, ThreadInv, HoldsKey, SameCalls, ToldOfSteps
  <2>2. UNCHANGED jobs \/ jobs' = [jobs EXCEPT ![k].status = "failed"]
    BY <1>4 DEF DrainBegin, store
  <2>3. CASE jobs' = [jobs EXCEPT ![k].status = "failed"]
    <3>1. jobs[k] \in Jobs
      BY <1>a, <2>1 DEF JobsOK, NoJob
    <3>2. new.status = "failed" /\ jobs' = [jobs EXCEPT ![k] = new]
      BY <1>a, <2>1, <2>3, <3>1 DEF Jobs, JobsOK
    <3>3. Status[k] = Entry(jobs[k].status) /\ Entry(jobs[k].status) # "none" /\ Entry("failed") = "failed"
      BY <2>1, <3>1, StatusOf, EntryIs DEF Jobs
    <3> HIDE DEF new, k
    <3>4. Status' = [Status EXCEPT ![k] = Entry(new.status)]
      BY <1>a, <2>1, <3>2, JobInLedger
    <3> QED
      BY <2>1, <3>2, <3>3, <3>4, LedgerEntry
  <2> QED
    BY <1>1, <1>4, <2>2, <2>3 DEF DrainBegin
<1>5. ASSUME NEW k \in Keys, BookingFallsDue(k) PROVE UNCHANGED Ledger!vars
  <2> DEFINE new == [jobs[k] EXCEPT !.bookAt = "due"]
  <2>1. NoJob.bookAt = "never"
    BY DEF NoJob
  <2>2. jobs[k] \in Jobs
    BY <1>a, <1>5, <2>1 DEF BookingFallsDue, JobsOK
  <2>3. jobs' = [jobs EXCEPT ![k] = new] /\ new.status = jobs[k].status /\ SameCalls
    BY <1>5, <1>a, <1>b, <2>2 DEF BookingFallsDue, Jobs, JobsOK, SameCalls, ToldOfSteps
  <2> HIDE DEF new
  <2>4. UNCHANGED Status
    BY <1>a, <2>3, JobInLedger
  <2> QED
    BY <2>3, <2>4, LedgerStays
<1>6. CASE RetryBooking
  <2> DEFINE k == cmd.key
             new == [jobs[k] EXCEPT !.flags = cmd.flags \ {"booking"}, !.status = "processing",
                                    !.bookAt = "due"]
  <2>1. k \in Keys /\ jobs[k] \in Jobs /\ budget'.cmds = budget.cmds + 1
    BY <1>a, <1>6 DEF RetryBooking, JobsOK, NoJob, Spend, Inv, IInv, CmdIsBacked, TypeOK, WorldOK
  <2>2. jobs' = [jobs EXCEPT ![k] = new] /\ new.status = "processing"
    BY <1>6, <1>a, <2>1 DEF RetryBooking, Jobs, JobsOK
  <2>3. Status[k] = Entry(jobs[k].status) /\ Entry(jobs[k].status) # "none"
    BY <2>1, StatusOf, EntryIs DEF Jobs
  <2> HIDE DEF new, k
  <2>4. Status' = [Status EXCEPT ![k] = Entry(new.status)] /\ Entry("processing") = "open"
    BY <1>a, <2>1, <2>2, JobInLedger, EntryIs
  <2>5. UNCHANGED ToldOfSteps
    BY <1>b DEF ToldOfSteps
  <2> QED
    BY <2>1, <2>2, <2>3, <2>4, <2>5, LedgerCommand
<1>7. CASE Restart
  <2>1. PICK stale \in SUBSET {k \in Keys : FlagStale /\ jobs[k].status = "processing"
                                            /\ "final" \notin jobs[k].flags} :
          jobs' = [k \in Keys |-> IF k \in stale THEN [jobs[k] EXCEPT !.status = "stale"]
                                 ELSE jobs[k]]
    BY <1>7 DEF Restart
  <2>2. ASSUME NEW k \in Keys PROVE Entry(jobs'[k].status) = Entry(jobs[k].status)
    <3>1. CASE k \notin stale
      BY <2>1, <3>1
    <3>2. CASE k \in stale
      <4>1. jobs[k] \in Jobs /\ jobs[k].status = "processing"
        BY <1>a, <3>2 DEF JobsOK, NoJob
      <4>2. jobs'[k].status = "stale"
        BY <2>1, <3>2, <4>1 DEF Jobs
      <4> QED
        BY <4>1, <4>2 DEF Entry
    <3> QED
      BY <3>1, <3>2
  <2>3. UNCHANGED Status /\ SameCalls
    BY <1>7, <1>b, <2>2 DEF Status, Restart, SameCalls, ToldOfSteps
  <2> QED
    BY <2>3, LedgerStays
<1> QED
  BY <1>2, <1>3, <1>4, <1>5, <1>6, <1>7 DEF Next

(* The job store and the services, seen from outside, are ClipLedger: the
   workers, the drain, the retries and the restarts of main.py tell S3, the
   database and the booking API of a clip in that order and only after it was
   registered; and of the entries only those the ledger lets move, move.  (Plain
   only: with two threads on a remuxed clip, a completed job may be deferred.) *)
PROPOSITION LedgerIsKept == Plain => (Spec => ImplementsLedger)
<1> SUFFICES ASSUME Plain PROVE Spec => Ledger!Spec
  BY DEF ImplementsLedger
<1>1. Init => Ledger!Init
  BY LedgerInit
<1>2. Inv /\ Inv' /\ [Next]_vars => [Ledger!Next]_(Ledger!vars)
  <2> SUFFICES ASSUME Inv, Inv', [Next]_vars PROVE Ledger!Next \/ UNCHANGED Ledger!vars
    OBVIOUS
  <2>1. CASE UNCHANGED vars
    <3>1. SameCalls /\ UNCHANGED Status
      BY <2>1 DEF vars, SameCalls, ToldOfSteps, Status
    <3> QED
      BY <3>1, LedgerStays
  <2> QED
    BY <2>1, StepLedger, RestLedger
<1> QED
  BY <1>1, <1>2, FlightAlways, PTL DEF Spec, Ledger!Spec

(***************************************************************************)
(* The way back of a deferred clip                                         *)
(***************************************************************************)

Waiting(k) == jobs[k].status = "pending_remote_sync"
Busy(k) == \E t \in Threads : Active(t) /\ KeyOf(th[t].path) = k

(* A deferred clip is where its job says.  As long as its row is not written,
   an owner has it, or a scan is to come, or nobody has claimed it and it is in
   the queue. *)
WayDisk == \A k \in Keys : Waiting(k) => jobs[k].path \in disk /\ Deferrable(jobs[k].path, k)
WayDrain == th[Drain].pc = "resume" => rows[KeyOf(th[Drain].path)].queued
WayBack(k) ==
    Waiting(k) /\ ~rows[k].queued =>
        /\ jobs[k].path \in claims => Busy(k)
        /\ jobs[k].path \in pending \ queued => Busy(k)
        /\ phase = "up" => jobs[k].path \in pending \/ Busy(k)
WayInv == WayDisk /\ WayDrain /\ \A k \in Keys : WayBack(k)

(* An owner that lets go of a job has not left it deferred without a row. *)
LEMMA OwnerLetsGo ==
    ASSUME Plain, Inv, NEW t \in Threads, Active(t), Works(t), ~Active(t)',
           NEW k, k = KeyOf(th[t].path)
    PROVE  Waiting(k)' => rows'[k].queued
<1> DEFINE key == th[t].key
<1>a. /\ k \in Keys /\ HoldInv(t) /\ JobsOK /\ RowsOK
      /\ th[t].pc # "resume" => key = k
  BY OwnerHas DEF Inv, FlightInv, IInv, TypeOK
<1>b. th'[t].pc \notin Owner
  BY DEF Active
<1>s. ASSUME NEW j \in Keys, NEW status, NEW path, JobGets(j, status, path)
      PROVE  jobs'[j].status = status
  BY <1>a, <1>s DEF JobGets, JobsOK
<1> SUFFICES jobs'[k].status # "pending_remote_sync" \/ rows'[k].queued
  BY DEF Waiting
<1>1. CASE FindsJob(t)
  BY <1>1, <1>b DEF FindsJob, store, Owner
<1>2. CASE TakesJob(t)
  BY <1>2, <1>a, <1>b, <1>s DEF TakesJob, Hop, Owner, Inside, PCs
<1>3. CASE ReadsJob(t)
  <2>1. th[t].pc \in {"bad", "fail"} /\ UNCHANGED store
    BY <1>3, <1>b DEF ReadsJob, Hop, Owner, Inside, PCs
  <2> QED
    BY <1>a, <2>1 DEF HoldInv, Inside, PCs, store
<1>4. CASE WritesJob(t)
  <2>1. \/ th[t].pc = "work" /\ JobSame(key)
        \/ th[t].pc \in {"bad_rec", "fail_rec"} /\ \E path : JobGets(key, "failed", path)
        \/ th[t].pc = "defer_row" /\ rows' = [rows EXCEPT ![key].queued = TRUE, ![key].path = th[t].src]
        \/ th[t].pc = "final_del" /\ UNCHANGED jobs
    BY <1>4, <1>b DEF WritesJob, Hop, Owner, Inside, PCs
  <2>2. CASE th[t].pc = "work" /\ JobSame(key)
    <3>1. jobs[key].status \in {"processing", "failed"} /\ key = k
      BY <1>a, <2>2 DEF HoldInv, Inside, PCs
    <3> QED
      BY <1>a, <1>s, <2>2, <3>1 DEF JobSame
  <2>3. CASE th[t].pc \in {"bad_rec", "fail_rec"} /\ \E path : JobGets(key, "failed", path)
    BY <1>a, <1>s, <2>3
  <2>4. CASE /\ th[t].pc = "defer_row"
             /\ rows' = [rows EXCEPT ![key].queued = TRUE, ![key].path = th[t].src]
    BY <1>a, <2>4 DEF RowsOK, Rows
  <2>5. CASE th[t].pc = "final_del" /\ UNCHANGED jobs
    BY <1>a, <2>5 DEF HoldInv
  <2> QED
    BY <2>1, <2>2, <2>3, <2>4, <2>5
<1> QED
  BY <1>1, <1>2, <1>3, <1>4 DEF Works

(* The others' jobs and rows an owner leaves alone. *)
LEMMA WorksApart ==
    ASSUME Plain, Inv, NEW t \in Threads, Active(t), Works(t),
           NEW k \in Keys, k # KeyOf(th[t].path)
    PROVE  jobs'[k] = jobs[k] /\ rows'[k] = rows[k]
<1>a. /\ JobsOK /\ RowsOK
      /\ th[t].pc # "resume" => th[t].key = KeyOf(th[t].path)
  BY OwnerHas DEF Inv, IInv, TypeOK
<1>1. jobs'[k] = jobs[k]
  BY <1>a, WorksJob DEF JobMoves, JobsOK
<1>2. \/ UNCHANGED rows
      \/ th[t].pc # "resume" /\ \E row : rows' = [rows EXCEPT ![th[t].key] = row]
      \/ th[t].pc = "defer_row"
         /\ rows' = [rows EXCEPT ![th[t].key].queued = TRUE, ![th[t].key].path = th[t].src]
  BY DEF Works, FindsJob, TakesJob, ReadsJob, WritesJob, Hop, store
<1> QED
  BY <1>a, <1>1, <1>2 DEF RowsOK

(* A job that an owner leaves deferred has the owner's own path. *)
LEMMA WorksWaiting ==
    ASSUME Plain, Inv, WayDisk, NEW t \in Threads, Active(t), Works(t),
           NEW k \in Keys, k = KeyOf(th[t].path), Waiting(k)'
    PROVE  \/ Waiting(k) /\ jobs'[k].path = jobs[k].path
           \/ jobs'[k].path = th[t].path /\ th[t].path \in disk /\ Deferrable(th[t].path, k)
<1> DEFINE p == th[t].path
<1>a. /\ JobsOK /\ HoldInv(t) /\ PlaceInv(t) /\ DiskInv /\ disk \subseteq Paths
      /\ th[t].pc # "resume" => th[t].key = k
      /\ p \in Paths /\ p.dir = "processing" /\ Present(t)
  BY OwnerHas DEF Inv, FlightInv, IInv, TypeOK, DiskOK
<1>s. ASSUME NEW status, NEW path, JobGets(k, status, path)
      PROVE  jobs'[k].status = status /\ jobs'[k].path = path
  BY <1>s, <1>a DEF JobGets, JobsOK
<1>w. jobs'[k].status = "pending_remote_sync"
  BY DEF Waiting
<1>1. CASE UNCHANGED jobs \/ JobSame(k)
  BY <1>1, <1>s, <1>w DEF JobSame, Waiting
<1>2. CASE TakesJob(t)
  <2>1. CASE th[t].pc = "rebind" /\ JobGets(k, jobs[k].status, p)
    <3>1. Waiting(k) /\ jobs[k].path \in disk /\ KeyOf(jobs[k].path) = k
      BY <1>s, <1>w, <2>1 DEF WayDisk, Waiting, Deferrable
    <3>2. p \in disk
      BY <1>a, <2>1 DEF PlaceInv, Owner, Moved
    <3>3. jobs[k].path = p
      BY <1>a, <3>1, <3>2, PlainKey DEF DiskInv
    <3> QED
      BY <1>s, <2>1, <3>1, <3>3
  <2>2. CASE th[t].pc = "reopen" /\ JobGets(k, "processing", jobs[k].path)
    BY <1>s, <1>w, <2>2
  <2>3. CASE th[t].pc = "adopt" /\ jobs' = [jobs EXCEPT ![k] = NewJob(p)]
    <3>1. jobs'[k].status = "processing"
      BY <1>a, <2>3 DEF JobsOK, NewJob, NoJob
    <3> QED
      BY <1>w, <3>1
  <2> QED
    BY <1>1, <1>2, <1>a, <2>1, <2>2, <2>3 DEF TakesJob, Hop
<1>3. CASE WritesJob(t)
  <2>1. CASE th[t].pc = "defer" /\ JobGets(k, "pending_remote_sync", jobs[k].path)
    <3>1. jobs[k].path = p /\ p.name = "utc" /\ p \in disk
      BY <1>a, <2>1 DEF HoldInv, Bound, Renamed, PlaceInv, Owner, Moved, Inside, PCs
    <3> QED
      BY <1>a, <1>s, <2>1, <3>1 DEF Deferrable
  <2>2. CASE \E status \in {"failed", "completed"} : \E path : JobGets(k, status, path)
    BY <1>s, <1>w, <2>2
  <2>3. CASE th[t].pc = "utc_rec" /\ \E new \in Jobs : jobs' = [jobs EXCEPT ![k] = new]
                                                      /\ new.status = jobs[k].status
    <3>1. jobs[k].status \in {"processing", "failed"}
      BY <1>a, <2>3 DEF HoldInv, Inside, PCs
    <3>2. jobs'[k].status = jobs[k].status
      BY <1>a, <2>3 DEF JobsOK
    <3> QED
      BY <1>w, <3>1, <3>2
  <2> QED
    BY <1>1, <1>3, <1>a, <2>1, <2>2, <2>3 DEF WritesJob, Hop
<1> QED
  BY <1>1, <1>2, <1>3 DEF Works, FindsJob, ReadsJob, store

LEMMA OwnerWay ==
    ASSUME Plain, Inv, WayInv, NEW t \in Threads, Active(t), Works(t) \/ Renames(t) \/ Leaves(t)
    PROVE  WayInv'
<1> DEFINE p == th[t].path
           q == As(p, "utc")
<1>a. /\ p \in Paths /\ KeyOf(p) \in Keys /\ OthersSame(t) /\ UNCHANGED <<queued, pending, phase>>
      /\ th \in [Threads -> Locals] /\ JobsOK /\ Drain \in Threads
      /\ DiskInv /\ HoldInv(t) /\ p.name \in Names
      /\ th[t].pc # "resume" => th[t].key = KeyOf(p)
  BY OwnerHas DEF Works, Keeps, Renames, Leaves, Moves, Inv, IInv, TypeOK, ThreadsOK, FlightInv, Threads
<1>b. KeyOf(th'[t].path) = KeyOf(p)
  <2>1. Renames(t) => q \in Paths /\ q.file = p.file /\ q.name = "utc"
    BY <1>a, MoveFields
  <2>2. Renames(t) => KeyOf(q) = KeyOf(p)
    BY <1>a, <2>1, PlainKey DEF Names
  <2> QED
    BY <2>2 DEF Works, Keeps, Renames, Leaves
<1>c. \A k \in Keys \ {KeyOf(p)} : jobs'[k] = jobs[k] /\ rows'[k] = rows[k]
  BY <1>a, WorksApart DEF Renames, Leaves, Moves
(* The disk *)
<1>1. WayDisk'
  <2> SUFFICES ASSUME NEW k \in Keys, Waiting(k)'
               PROVE  jobs'[k].path \in disk' /\ Deferrable(jobs'[k].path, k)
    BY DEF WayDisk, Deferrable
  <2>1. CASE Works(t)
    <3>1. disk' = disk
      BY <2>1 DEF Works, Keeps
    <3>2. CASE k = KeyOf(p)
      BY <2>1, <3>1, <3>2, WorksWaiting DEF WayInv, WayDisk
    <3>3. CASE k # KeyOf(p)
      BY <1>c, <3>1, <3>3 DEF WayInv, WayDisk, Waiting
    <3> QED
      BY <3>2, <3>3
  <2>2. CASE Renames(t) \/ Leaves(t)
    <3>1. jobs' = jobs /\ disk \ {p} \subseteq disk'
      BY <2>2 DEF Renames, Leaves, Moves
    <3>2. jobs[k].path \in disk /\ Deferrable(jobs[k].path, k) /\ Waiting(k)
      BY <3>1 DEF WayInv, WayDisk, Waiting
    <3>3. jobs[k].path # p
      <4>1. CASE Renames(t)
        BY <3>2, <4>1 DEF Renames, Deferrable
      <4>2. CASE Leaves(t)
        <5>1. th[t].pc \in {"work", "bad", "fail"}
          BY <4>2 DEF Leaves
        <5>2. jobs[KeyOf(p)].status # "pending_remote_sync"
          BY <1>a, <5>1 DEF HoldInv, Inside, PCs
        <5> QED
          BY <3>2, <5>2 DEF Waiting, Deferrable
      <4> QED
        BY <2>2, <4>1, <4>2
    <3> QED
      BY <3>1, <3>2, <3>3
  <2> QED
    BY <2>1, <2>2
(* The drain *)
<1>2. WayDrain'
  <2> SUFFICES ASSUME th'[Drain].pc = "resume" PROVE rows'[KeyOf(th'[Drain].path)].queued
    BY DEF WayDrain
  <2>1. t # Drain
    <3>1. th'[t].pc # "resume"
      BY WorksPC DEF Renames, Leaves
    <3> QED
      BY <3>1
  <2>2. th'[Drain] = th[Drain] /\ Active(Drain)
    BY <1>a, <2>1 DEF OthersSame, Active, Owner
  <2>3. KeyOf(th[Drain].path) # KeyOf(p) /\ KeyOf(th[Drain].path) \in Keys
    BY <1>a, <2>1, <2>2, OtherJob, OwnerHas
  <2> QED
    BY <1>c, <2>2, <2>3 DEF WayInv, WayDrain
(* The way back *)
<1>3. ASSUME NEW k \in Keys PROVE WayBack(k)'
  <2>1. CASE k = KeyOf(p) /\ Active(t)'
    BY <1>b, <2>1 DEF WayBack, Busy
  <2>2. CASE k = KeyOf(p) /\ ~Active(t)'
    <3>1. Works(t)
      BY <2>2 DEF Renames, Leaves, Active, Owner, Inside, PCs
    <3> QED
      BY <2>2, <3>1, OwnerLetsGo DEF WayBack
  <2>3. CASE k # KeyOf(p)
    <3>1. jobs'[k] = jobs[k] /\ rows'[k] = rows[k]
      BY <1>c, <2>3
    <3>2. Busy(k) => Busy(k)'
      BY <1>a, <2>3 DEF Busy, Active, OthersSame
    <3>3. Waiting(k) => jobs[k].path \notin claims' \ claims
      <4>1. claims' \subseteq claims \cup {q}
        BY DEF Works, Keeps, Renames, Leaves
      <4>2. CASE claims' = claims
        BY <4>2
      <4>3. CASE Renames(t)
        <5>1. KeyOf(q) = KeyOf(p)
          BY <1>b, <4>3 DEF Renames
        <5> QED
          BY <2>3, <4>1, <5>1 DEF WayInv, WayDisk, Deferrable
      <4> QED
        BY <4>2, <4>3 DEF Works, Keeps, Leaves
    <3> QED
      BY <1>a, <3>1, <3>2, <3>3 DEF WayInv, WayBack, Waiting
  <2> QED
    BY <2>1, <2>2, <2>3
<1> QED
  BY <1>1, <1>2, <1>3 DEF WayInv

(* What the others do to a deferred clip: nothing that takes its way back. *)
LEMMA WayStays ==
    ASSUME WayInv, NEW k \in Keys,
           Waiting(k)' /\ ~rows'[k].queued =>
               /\ Waiting(k) /\ ~rows[k].queued /\ jobs'[k].path = jobs[k].path
               /\ Busy(k) => Busy(k)'
               /\ jobs[k].path \in claims' \ claims => Busy(k)'
               /\ jobs[k].path \in (pending' \ queued') \ (pending \ queued) => Busy(k)'
               /\ jobs[k].path \in pending \ pending' => Busy(k)'
               /\ phase' = "up" /\ phase # "up" => jobs[k].path \in pending' \/ Busy(k)'
    PROVE  WayBack(k)'
<1>1. WayBack(k)
  BY DEF WayInv
<1> QED
  BY <1>1 DEF WayBack

(* A thread that is no owner. *)
LEMMA GuestWay ==
    ASSUME Plain, Inv, WayInv, NEW t \in Threads, Step(t), ~Active(t)
    PROVE  WayInv'
<1>a. /\ th \in [Threads -> Locals] /\ JobsOK /\ Drain \in Threads /\ Drain \notin Workers
      /\ PathsInv(t)
  BY PipelineAssumption DEF Inv, IInv, TypeOK, ThreadsOK, Threads, FlightInv
<1>1. Ready(t) \/ MoveIn(t) \/ Reclaim(t) \/ Insert(t) \/ Exit(t) \/ Done(t)
  <2>1. /\ th[t].pc \notin {"resume", "adopt", "rebind", "reopen"}
        /\ th[t].pc \notin Inside
    BY DEF Active, Owner
  <2>2. th[t].pc \notin {"remux_rec", "remux_rm", "orphan"}
    BY <1>a DEF PathsInv, Present
  <2> QED
    BY <2>1, <2>2 DEF Step, Inside, PCs, Resume, Adopt, Rebind, Reopen, Body, Gate, RenameUtc,
       RecordUtc, Remux, RecordRemux, RemoveSource, Preview, At, MoveBad, RecordBad, Call, CallRaises,
       Deferred, Record, BookingMatched, BookingUnmatched, BookingRaises, DeferJob, DeferRow,
       Finalize, RecordFinal, DeleteRow, NothingLeft, MoveFailed, RecordFailed, MoveOrphan
<1>2. /\ OthersSame(t) /\ th'[t].pc # "resume" /\ UNCHANGED <<rows, queued, phase>>
  <2>1. th'[t].pc # "resume"
    <3>1. CASE Ready(t)
      BY <1>a, <3>1 DEF Ready, Go, Locals
    <3>2. CASE MoveIn(t) \/ Reclaim(t) \/ Insert(t)
      BY <1>a, <3>2 DEF MoveIn, Reclaim, Insert, Go, Locals
    <3>3. CASE Exit(t) \/ Done(t)
      <4>1. [Idle EXCEPT !.pc = "done", !.sub = th[t].sub].pc = "done" /\ Idle.pc = "idle"
        BY DEF Idle
      <4> QED
        BY <1>a, <3>3, <4>1 DEF Exit, Done
    <3> QED
      BY <1>1, <3>1, <3>2, <3>3
  <2>2. OthersSame(t)
    BY <1>a, <1>1 DEF Ready, MoveIn, Reclaim, Insert, Exit, Done, Go, OthersSame
  <2>3. UNCHANGED <<rows, queued, phase>>
    BY <1>1 DEF Ready, MoveIn, Reclaim, Insert, Exit, Done, store, world, memory, queue
  <2> QED
    BY <2>1, <2>2, <2>3
<1>3. WayDrain'
  BY <1>a, <1>2 DEF WayInv, WayDrain, OthersSame
<1>4. \A k \in Keys : Busy(k) => Busy(k)'
  BY <1>2 DEF Busy, Active, OthersSame
<1>5. \A k \in Keys : Waiting(k)' => Waiting(k) /\ jobs'[k].path = jobs[k].path
  <2>1. CASE Insert(t)
    <3>1. NewJob(th[t].path).status = "processing"
      BY DEF NewJob, NoJob
    <3>2. th[t].key \in Keys
      BY <2>1 DEF Insert, Inv, IInv, ThreadInv, HoldsKey
    <3> QED
      BY <1>a, <2>1, <3>1, <3>2 DEF Insert, JobsOK, Waiting
  <2>2. CASE ~Insert(t)
    <3>1. UNCHANGED jobs
      BY <1>1, <2>2 DEF Ready, MoveIn, Reclaim, Exit, Done, store
    <3> QED
      BY <3>1 DEF Waiting
  <2> QED
    BY <2>1, <2>2
<1>6. WayDisk'
  <2>1. \A p \in disk : p.dir = "processing" => p \in disk'
    <3>1. CASE MoveIn(t)
      <4>1. th[t].pc = "move"
        BY <3>1 DEF MoveIn
      <4>2. th[t].path.dir = "incoming"
        BY <1>a, <4>1 DEF PathsInv, Present, FromIncoming, FromProcessing, Owner, Inside, PCs
      <4> QED
        BY <3>1, <4>2 DEF MoveIn
    <3>2. CASE ~MoveIn(t)
      BY <1>1, <3>2 DEF Ready, Reclaim, Insert, Exit, Done
    <3> QED
      BY <3>1, <3>2
  <2> QED
    BY <1>5, <2>1 DEF WayInv, WayDisk, Deferrable
<1>7. \A k \in Keys : Waiting(k) => jobs[k].path \notin claims' \ claims
  <2>1. CASE Reclaim(t)
    <3>1. th[t].path.name = "local"
      <4>1. th[t].pc = "reclaim"
        BY <2>1 DEF Reclaim
      <4> QED
        BY <1>a, <4>1 DEF PathsInv, Present, FromIncoming, FromProcessing, Owner, Inside, PCs
    <3>2. claims' \subseteq claims \cup {th[t].path}
      BY <2>1 DEF Reclaim
    <3> QED
      BY <3>1, <3>2 DEF WayInv, WayDisk, Deferrable
  <2>2. CASE ~Reclaim(t)
    <3>1. claims' \subseteq claims
      BY <1>1, <2>2 DEF Ready, MoveIn, Insert, Exit, Done, memory
    <3> QED
      BY <3>1
  <2> QED
    BY <2>1, <2>2
<1>8. /\ pending' \subseteq pending /\ pending \ pending' \subseteq pending \ queued
  <2>1. CASE Done(t)
    BY <1>a, <2>1 DEF Done, Inv, PoolInv
  <2>2. CASE ~Done(t)
    BY <1>1, <2>2 DEF Ready, MoveIn, Reclaim, Insert, Exit, memory, queue
  <2> QED
    BY <2>1, <2>2
<1>9. ASSUME NEW k \in Keys PROVE WayBack(k)'
  <2>1. Waiting(k) /\ ~rows[k].queued /\ jobs[k].path \in pending \ queued => Busy(k)
    BY DEF WayInv, WayBack
  <2> QED
    BY <1>2, <1>4, <1>5, <1>7, <1>8, <2>1, WayStays
<1> QED
  BY <1>3, <1>6, <1>9 DEF WayInv

(* A thread comes in, with a path from the queue or with a row. *)
LEMMA EnterWay ==
    ASSUME Plain, Inv, WayInv, NEW t \in Threads, ~Present(t), NEW p \in Paths, Enter(t, p),
           UNCHANGED <<disk, phase, jobs, pending>>,
           \A k \in Keys : rows'[k].queued = rows[k].queued,
           \/ t \in Workers /\ p \in queued /\ queued' = queued \ {p}
           \/ t = Drain /\ rows[KeyOf(p)].queued /\ UNCHANGED queued
    PROVE  WayInv'
<1>a. /\ th \in [Threads -> Locals] /\ Drain \in Threads /\ Drain \notin Workers
      /\ KeyOf(p) \in Keys
  BY PathOps, PipelineAssumption DEF Inv, IInv, TypeOK, ThreadsOK, Threads
<1> DEFINE in == [Idle EXCEPT !.pc = IF p.dir = "incoming" THEN "ready" ELSE "resume",
                              !.sub = p, !.orig = p, !.path = p]
           out == [Idle EXCEPT !.pc = "done", !.sub = p]
<1>b. /\ in.pc = (IF p.dir = "incoming" THEN "ready" ELSE "resume") /\ in.path = p
      /\ out.pc = "done"
  BY DEF Idle
<1>c. \/ /\ p \in disk /\ p.dir \in {"incoming", "processing"} /\ p \notin claims
         /\ claims' = claims \cup {p} /\ th' = [th EXCEPT ![t] = in]
      \/ /\ ~(p \in disk /\ p.dir \in {"incoming", "processing"} /\ p \notin claims)
         /\ claims' = claims /\ th' = [th EXCEPT ![t] = out]
  BY DEF Enter
<1> HIDE DEF in, out
<1>1. OthersSame(t) /\ ~Active(t)
  BY <1>a, <1>c DEF OthersSame, Active, Present, Owner, Inside, PCs
<1>2. \A k \in Keys : Busy(k) => Busy(k)'
  BY <1>1 DEF Busy, Active, OthersSame
<1>3. WayDisk'
  BY DEF WayInv, WayDisk, Waiting
<1>4. WayDrain'
  <2>1. CASE t = Drain
    <3>1. th'[Drain].pc = "resume" => th'[Drain].path = p
      BY <1>a, <1>b, <1>c, <2>1
    <3> QED
      BY <1>a, <2>1, <3>1 DEF WayDrain
  <2>2. CASE t # Drain
    <3>1. th'[Drain] = th[Drain]
      BY <1>a, <1>1, <2>2 DEF OthersSame
    <3>2. th[Drain].pc = "resume" => KeyOf(th[Drain].path) \in Keys
      BY <1>a, PathOps DEF Inv, IInv, ThreadInv, HoldsPaths
    <3> QED
      BY <3>1, <3>2 DEF WayInv, WayDrain
  <2> QED
    BY <2>1, <2>2
<1>5. ASSUME NEW k \in Keys PROVE WayBack(k)'
  <2> SUFFICES ASSUME Waiting(k), ~rows[k].queued PROVE WayBack(k)'
    BY DEF WayBack, Waiting
  <2>1. jobs[k].path \in disk /\ jobs[k].path.dir = "processing" /\ KeyOf(jobs[k].path) = k
    BY DEF WayInv, WayDisk, Deferrable
  <2>2. jobs[k].path = p => Busy(k)'
    <3> SUFFICES ASSUME jobs[k].path = p PROVE Busy(k)'
      OBVIOUS
    <3>1. CASE p \in claims
      BY <1>2, <3>1 DEF WayInv, WayBack
    <3>2. CASE p \notin claims
      <4>1. th'[t].pc = "resume" /\ th'[t].path = p
        BY <1>a, <1>b, <1>c, <2>1, <3>2
      <4>2. Active(t)'
        BY <4>1 DEF Active, Owner
      <4> QED
        BY <2>1, <4>1, <4>2 DEF Busy
    <3> QED
      BY <3>1, <3>2
  <2>3. claims' \subseteq claims \cup {p} /\ (pending' \ queued') \subseteq (pending \ queued) \cup {p}
    BY <1>c
  <2> QED
    BY <1>2, <2>2, <2>3, WayStays DEF Waiting
<1> QED
  BY <1>3, <1>4, <1>5 DEF WayInv

(* Everything else. *)
LEMMA RestWay ==
    ASSUME Inv, WayInv,
           \A k \in Keys : Waiting(k)' => Waiting(k) /\ jobs'[k].path = jobs[k].path,
           \A k \in Keys : rows'[k] = rows[k] \/ (~Waiting(k)' /\ th'[Drain].pc # "resume"),
           disk \subseteq disk', claims' \subseteq claims,
           \A t \in Threads : th'[t] = th[t] \/ (~Active(t) /\ ~Active(t)'),
           \/ UNCHANGED <<pending, queued, phase>>
           \/ UNCHANGED phase /\ \E ps : Submit(ps)
           \/ /\ UNCHANGED claims /\ Submit({p \in disk : p.dir \in {"incoming", "processing"}})
           \/ phase' # "up" /\ UNCHANGED <<pending, queued>>
    PROVE  WayInv'
<1>a. Drain \in Threads
  BY DEF Threads
<1>1. \A k \in Keys : Busy(k) => Busy(k)'
  BY DEF Busy, Active
<1>2. WayDisk'
  BY DEF WayInv, WayDisk, Deferrable
<1>3. WayDrain'
  <2> SUFFICES ASSUME th'[Drain].pc = "resume" PROVE rows'[KeyOf(th'[Drain].path)].queued
    BY DEF WayDrain
  <2>1. th'[Drain] = th[Drain]
    BY <1>a DEF Active, Owner
  <2>2. KeyOf(th[Drain].path) \in Keys
    BY <1>a, <2>1, PathOps DEF Inv, IInv, ThreadInv, HoldsPaths
  <2> QED
    BY <2>1, <2>2 DEF WayInv, WayDrain
<1>4. (pending' \ queued') \subseteq (pending \ queued) /\ pending \subseteq pending'
  BY DEF Submit
<1>5. ASSUME NEW k \in Keys PROVE WayBack(k)'
  <2> SUFFICES ASSUME Waiting(k)', ~rows'[k].queued PROVE WayBack(k)'
    BY DEF WayBack
  <2>1. Waiting(k) /\ ~rows[k].queued /\ jobs'[k].path = jobs[k].path
    OBVIOUS
  <2>2. jobs[k].path \in disk /\ jobs[k].path.dir = "processing"
    BY <2>1 DEF WayInv, WayDisk, Deferrable
  <2>3. phase' = "up" /\ phase # "up" => jobs[k].path \in pending' \/ Busy(k)'
    <3> SUFFICES ASSUME phase' = "up", phase # "up" PROVE jobs[k].path \in pending' \/ Busy(k)'
      OBVIOUS
    <3>1. jobs[k].path \in claims \/ jobs[k].path \in pending'
      BY <2>2 DEF Submit
    <3> QED
      BY <1>1, <2>1, <3>1 DEF WayInv, WayBack
  <2> QED
    BY <1>1, <1>4, <2>1, <2>3, WayStays
<1> QED
  BY <1>2, <1>3, <1>5 DEF WayInv

LEMMA WayKept ==
    ASSUME Plain, Inv, WayInv, [Next]_vars
    PROVE  WayInv'
<1>a. /\ th \in [Threads -> Locals] /\ JobsOK /\ RowsOK /\ Drain \in Threads /\ Drain \notin Workers
      /\ \A t \in Threads : th[t].pc \in {"idle", "begin", "done"} => ~Active(t)
  BY PipelineAssumption
  DEF Inv, IInv, TypeOK, ThreadsOK, Threads, Active, Owner, Inside, PCs
<1>1. ASSUME NEW t \in Threads, Step(t) PROVE WayInv'
  BY <1>1, OwnerStep, OwnerWay, GuestWay
<1>2. ASSUME NEW t \in Threads, NEW p \in queued, Take(t, p) PROVE WayInv'
  <2>1. /\ ~Present(t) /\ p \in Paths /\ Enter(t, p) /\ t \in Workers /\ queued' = queued \ {p}
        /\ UNCHANGED <<disk, phase, jobs, pending, rows>>
    BY <1>2 DEF Take, Present, store, world, Inv, IInv, TypeOK, MemoryOK
  <2> QED
    BY <2>1, EnterWay
<1>3. CASE DrainBegin
  <2> DEFINE k == th[Drain].key
             p == th[Drain].sub
  <2>1. /\ th[Drain].pc = "begin" /\ k \in Keys /\ p \in Paths /\ KeyOf(p) = k
        /\ ~Present(Drain) /\ ~Active(Drain)
    BY <1>3, <1>a DEF DrainBegin, Present, Deferrable, Inv, IInv, ThreadInv, HoldsKey, HoldsPaths,
       FlightInv, RowInv
  <2>2. UNCHANGED <<disk, phase, pending, queued>>
    BY <1>3 DEF DrainBegin, world, queue
  <2>3. ASSUME th' = [th EXCEPT ![Drain] = Idle], UNCHANGED claims,
               \/ UNCHANGED store
               \/ /\ jobs' = [jobs EXCEPT ![k].status = "failed"]
                  /\ rows' = [rows EXCEPT ![k] = NoRow]
        PROVE  WayInv'
    <3>1. th'[Drain].pc = "idle" /\ \A t \in Threads \ {Drain} : th'[t] = th[t]
      BY <1>a, <2>3 DEF Idle
    <3>2. \A t \in Threads : th'[t] = th[t] \/ (~Active(t) /\ ~Active(t)')
      BY <2>1, <3>1 DEF Active, Owner, Inside, PCs
    <3>3. \A j \in Keys : Waiting(j)' => Waiting(j) /\ jobs'[j].path = jobs[j].path
      BY <1>a, <2>1, <2>3 DEF Waiting, JobsOK, NoJob, Jobs, store
    <3>4. \A j \in Keys : rows'[j] = rows[j] \/ ~Waiting(j)'
      BY <1>a, <2>1, <2>3 DEF Waiting, JobsOK, RowsOK, NoJob, Jobs, store
    <3> QED
      BY <2>2, <2>3, <3>1, <3>2, <3>3, <3>4, RestWay
  <2>4. CASE /\ rows[k].queued
             /\ rows' = [rows EXCEPT ![k].drained = IF MaxDrain = 0 THEN 0 ELSE @ + 1]
             /\ Enter(Drain, p) /\ UNCHANGED jobs
    <3>1. \A j \in Keys : rows'[j].queued = rows[j].queued
      BY <1>a, <2>1, <2>4 DEF RowsOK, Rows
    <3> QED
      BY <1>a, <2>1, <2>2, <2>4, <3>1, EnterWay
  <2> QED
    BY <1>3, <2>3, <2>4 DEF DrainBegin
<1>4. ASSUME NEW k \in Keys, DrainPick(k) PROVE WayInv'
  <2>1. /\ th' = [th EXCEPT ![Drain] = [Idle EXCEPT !.pc = "begin", !.key = k, !.sub = rows[k].path]]
        /\ th[Drain].pc = "idle"
    BY <1>4 DEF DrainPick
  <2>2. UNCHANGED <<disk, phase, pending, queued, claims, jobs, rows>>
    BY <1>4 DEF DrainPick, world, memory, store
  <2>3. [Idle EXCEPT !.pc = "begin", !.key = k, !.sub = rows[k].path].pc = "begin"
    BY DEF Idle
  <2>4. \A t \in Threads : th'[t] = th[t] \/ (~Active(t) /\ ~Active(t)')
    BY <1>a, <2>1, <2>3 DEF Active, Owner, Inside, PCs
  <2> QED
    BY <2>2, <2>4, RestWay DEF Waiting
<1>5. ASSUME NEW k \in Keys, BookingFallsDue(k) \/ (RetryBooking /\ k = cmd.key) PROVE WayInv'
  <2>1. jobs[k] \in Jobs
    <3>1. NoJob.status = "none" /\ NoJob.bookAt = "never"
      BY DEF NoJob
    <3> QED
      BY <1>5, <1>a, <3>1 DEF BookingFallsDue, RetryBooking, JobsOK, Inv, IInv, CmdIsBacked
  <2>2. \A j \in Keys : Waiting(j)' => Waiting(j) /\ jobs'[j].path = jobs[j].path
    BY <1>5, <1>a, <2>1 DEF BookingFallsDue, RetryBooking, Waiting, JobsOK, Jobs
  <2>3. UNCHANGED <<disk, phase, pending, queued, claims, rows, th>>
    BY <1>5 DEF BookingFallsDue, RetryBooking, world, memory
  <2> QED
    BY <2>2, <2>3, RestWay
<1>6. CASE \/ \E k \in Keys : BookingPoll(k) \/ RetryReads(k)
           \/ \E f \in Files : Appear(f) \/ Finish(f)
           \/ \E p \in cooling : CooldownEnds(p)
           \/ GoesOffline \/ ComesOnline \/ UNCHANGED vars
  <2>1. UNCHANGED <<jobs, rows, th, claims, phase>> /\ disk \subseteq disk'
    BY <1>6 DEF BookingPoll, RetryReads, Appear, Finish, CooldownEnds, GoesOffline, ComesOnline, vars,
       store, world, memory
  <2>2. UNCHANGED <<pending, queued>> \/ \E ps : Submit(ps)
    BY <1>6 DEF BookingPoll, RetryReads, Appear, Finish, CooldownEnds, GoesOffline, ComesOnline, vars, queue, memory
  <2> QED
    BY <2>1, <2>2, RestWay DEF Waiting
<1>7. CASE Scan
  BY <1>7, RestWay DEF Scan, store, Waiting
<1>8. CASE Restart
  <2>1. PICK stale \in SUBSET {k \in Keys : FlagStale /\ jobs[k].status = "processing"
                                            /\ "final" \notin jobs[k].flags} :
          jobs' = [k \in Keys |-> IF k \in stale THEN [jobs[k] EXCEPT !.status = "stale"]
                                 ELSE jobs[k]]
    BY <1>8 DEF Restart
  <2>2. ASSUME NEW k \in Keys, Waiting(k)' PROVE jobs'[k] = jobs[k]
    <3>1. k \in stale => jobs[k] \in Jobs
      BY <1>a DEF JobsOK, NoJob
    <3> QED
      BY <2>1, <2>2, <3>1 DEF Waiting, Jobs
  <2>3. UNCHANGED <<disk, pending, queued, claims, rows, th>> /\ phase' # "up"
    BY <1>8 DEF Restart, memory
  <2> QED
    BY <2>2, <2>3, RestWay DEF Waiting
<1>9. CASE Crash
  <2>1. /\ UNCHANGED <<disk, jobs, rows>> /\ claims' = {} /\ pending' = {} /\ phase' # "up"
        /\ th'[Drain].pc = "idle"
    BY <1>9, <1>a DEF Crash, store, Idle
  <2>2. WayDisk' /\ WayDrain'
    BY <2>1 DEF WayInv, WayDisk, WayDrain, Waiting
  <2>3. ASSUME NEW k \in Keys PROVE WayBack(k)'
    BY <2>1 DEF WayBack
  <2> QED
    BY <2>2, <2>3 DEF WayInv
<1>10. RetryBooking => cmd.key \in Keys
  BY DEF RetryBooking, Inv, IInv, TypeOK, WorldOK
<1> QED
  BY <1>1, <1>2, <1>3, <1>4, <1>5, <1>6, <1>7, <1>8, <1>9, <1>10 DEF Next

(* _defer_remote_sync writes the job and its queue row in two transactions, and
   the queue drops a path that is claimed: still a deferred clip never loses
   its way back, through the drain, the queue, the scan after a restart, or the
   thread that has it.  (Plain only.) *)
PROPOSITION DeferredComesBack == Plain => (Spec => []DeferredHasRetry)
<1> SUFFICES ASSUME Plain PROVE Spec => []DeferredHasRetry
  OBVIOUS
<1>1. Init => WayInv
  BY DEF Init, WayInv, WayDisk, WayDrain, WayBack, Waiting, NoJob, Idle, Threads
<1>2. Inv /\ WayInv /\ [Next]_vars => WayInv'
  BY WayKept
<1>3. Inv /\ WayInv => DeferredHasRetry
  <2> SUFFICES ASSUME Inv, WayInv, NEW k \in Keys, Waiting(k), phase = "up",
                      jobs[k].path \notin pending, \A t \in Threads : th[t].key # k
               PROVE  rows[k].queued /\ rows[k].path \in disk
    BY DEF DeferredHasRetry, Waiting
  <2>a. /\ jobs[k].path \in disk /\ Deferrable(jobs[k].path, k)
        /\ DiskInv /\ RowInv /\ disk \subseteq Paths /\ RowsOK
    BY DEF WayInv, WayDisk, Inv, FlightInv, IInv, TypeOK, DiskOK
  <2>1. rows[k].queued
    <3> SUFFICES ASSUME ~rows[k].queued PROVE FALSE
      OBVIOUS
    <3>1. PICK t \in Threads : Active(t) /\ KeyOf(th[t].path) = k
      BY DEF WayInv, WayBack, Busy
    <3>2. th[t].pc = "resume"
      BY <3>1, OwnerHas
    <3>3. t # Drain
      BY <3>1, <3>2 DEF WayInv, WayDrain
    <3>4. th[t].sub = th[t].path /\ th[t].path \in Paths
      BY <3>1, <3>2, OwnerHas DEF FromProcessing
    <3>5. th[t].path \in disk
      BY <3>1, <3>2, OwnerHas DEF Inv, FlightInv, PlaceInv, Owner, Moved
    <3>6. th[t].path = jobs[k].path
      BY <2>a, <3>1, <3>4, <3>5, PlainKey DEF DiskInv, Deferrable
    <3>7. th[t].sub \in pending
      BY <3>2, <3>3 DEF Inv, PoolInv, Threads
    <3> QED
      BY <3>4, <3>6, <3>7
  <2>2. rows[k].path = jobs[k].path
    <3>1. Deferrable(rows[k].path, k) /\ rows[k].path \in Paths
      BY <2>a, <2>1 DEF RowInv, RowsOK
    <3>2. rows[k].path.file = jobs[k].path.file
      BY <2>a, <3>1, PlainKey DEF Deferrable
    <3> QED
      BY <2>a, <3>1, <3>2, SamePath DEF Deferrable
  <2> QED
    BY <2>a, <2>1, <2>2
<1> QED
  BY <1>1, <1>2, <1>3, FlightAlways, PTL DEF Spec

(***************************************************************************)
(* Open jobs have their files                                              *)
(***************************************************************************)

Open == {"processing", "pending_remote_sync", "stale"}
FileAt(k) == \E p \in disk : p.dir = "processing" /\ KeyOf(p) = k
AwayWith(k) == \E t \in Threads : th[t].pc \in Moved /\ th[t].key = k

(* A crash between the move and its record, or a retry-booking on a completed
   job, leaves an open job whose file is in another folder; nothing else does. *)
Untroubled == budget.crashes = 0 /\ budget.cmds = 0
RecInv == Untroubled =>
    /\ \A k \in Keys : jobs[k].status \in Open => FileAt(k) \/ AwayWith(k)
    /\ \A t \in Threads : th[t].pc = "final_del" =>
           jobs[th[t].key].status \in {"failed", "completed"}

(* The budget only grows, so what is untroubled was. *)
LEMMA TroubleStays ==
    ASSUME WorldOK, [Next]_vars, Untroubled'
    PROVE  Untroubled /\ ~Crash /\ ~RetryBooking
<1>a. budget \in [crashes : Nat, faults : Nat, outages : Nat, cmds : Nat]
  BY DEF WorldOK
<1>b. UNCHANGED budget \/ Fault => budget'.cmds = budget.cmds /\ budget'.crashes = budget.crashes
  BY <1>a DEF Fault, Spend
<1>1. ASSUME NEW t \in Threads, Step(t) PROVE UNCHANGED budget \/ Fault
  <2>1. CASE Ready(t) \/ MoveIn(t) \/ Reclaim(t) \/ Insert(t) \/ Resume(t) \/ Adopt(t) \/ Rebind(t)
             \/ Reopen(t) \/ Body(t) \/ Gate(t) \/ RenameUtc(t) \/ RecordUtc(t)
    BY <2>1 DEF Ready, MoveIn, Reclaim, Insert, Resume, Adopt, Rebind, Reopen, Body, Gate,
       RenameUtc, RecordUtc
  <2>2. CASE Remux(t) \/ RecordRemux(t) \/ RemoveSource(t) \/ Preview(t) \/ MoveBad(t)
             \/ RecordBad(t) \/ Record(t) \/ BookingMatched(t) \/ BookingUnmatched(t)
             \/ BookingRaises(t) \/ DeferJob(t) \/ DeferRow(t)
    BY <2>2 DEF Remux, RecordRemux, RemoveSource, Preview, MoveBad, RecordBad, Record,
       BookingMatched, BookingUnmatched, BookingRaises, DeferJob, DeferRow
  <2>3. CASE Finalize(t) \/ RecordFinal(t) \/ DeleteRow(t) \/ NothingLeft(t) \/ MoveFailed(t)
             \/ RecordFailed(t) \/ MoveOrphan(t) \/ Exit(t) \/ Done(t)
    BY <2>3 DEF Finalize, RecordFinal, DeleteRow, NothingLeft, MoveFailed, RecordFailed, MoveOrphan,
       Exit, Done
  <2>4. \A s \in RemoteSteps : Call(t, s) \/ CallRaises(t, s) \/ Deferred(t, s) =>
            UNCHANGED budget \/ Fault
    BY DEF Call, CallRaises, Deferred
  <2>5. {"original", "previewUp", "row"} \subseteq RemoteSteps
    BY DEF RemoteSteps
  <2> QED
    BY <1>1, <2>1, <2>2, <2>3, <2>4, <2>5 DEF Step
<1>2. ~Crash
  <2>1. Crash => budget'.crashes = budget.crashes + 1
    BY <1>a DEF Crash, Spend
  <2> QED
    BY <1>a, <2>1 DEF Untroubled
<1>3. ~RetryBooking
  <2>1. RetryBooking => budget'.cmds = budget.cmds + 1
    BY <1>a DEF RetryBooking, Spend
  <2> QED
    BY <1>a, <2>1 DEF Untroubled
<1>4. CASE GoesOffline
  <2>1. budget'.cmds = budget.cmds /\ budget'.crashes = budget.crashes
    BY <1>4, <1>a DEF GoesOffline, Spend
  <2> QED
    BY <1>2, <1>3, <2>1 DEF Untroubled
<1>5. CASE UNCHANGED budget \/ Fault
  BY <1>2, <1>3, <1>b, <1>5 DEF Untroubled
<1>6. CASE \/ \E t \in Threads, p \in queued : Take(t, p)
           \/ DrainBegin
           \/ \E k \in Keys : DrainPick(k) \/ BookingPoll(k) \/ BookingFallsDue(k) \/ RetryReads(k)
           \/ \E f \in Files : Appear(f) \/ Finish(f)
           \/ \E p \in cooling : CooldownEnds(p)
           \/ ComesOnline \/ Scan \/ Restart \/ UNCHANGED vars
  <2>1. UNCHANGED budget
    BY <1>6 DEF Take, DrainBegin, DrainPick, BookingPoll, BookingFallsDue, RetryReads, Appear, Finish,
       CooldownEnds, ComesOnline, Scan, Restart, vars
  <2> QED
    BY <1>5, <2>1
<1> QED
  BY <1>1, <1>2, <1>3, <1>4, <1>5, <1>6 DEF Next

(* An owner that has not moved its file away has it in the folder. *)
LEMMA OwnerFile ==
    ASSUME Inv, NEW t \in Threads, Active(t), th[t].pc \notin Moved
    PROVE  FileAt(KeyOf(th[t].path))
BY OwnerHas DEF Inv, FlightInv, PlaceInv, FileAt, Active

LEMMA OwnerRec ==
    ASSUME Plain, Inv, Untroubled, RecInv, NEW t \in Threads, Active(t),
           Works(t) \/ Renames(t) \/ Leaves(t)
    PROVE  RecInv'
<1> DEFINE p == th[t].path
           key == th[t].key
<1>a. /\ p \in Paths /\ KeyOf(p) \in Keys /\ p.dir = "processing" /\ OthersSame(t)
      /\ JobsOK /\ HoldInv(t) /\ p.name \in Names
      /\ th[t].pc # "resume" => key = KeyOf(p)
  BY OwnerHas DEF Works, Keeps, Renames, Leaves, Moves, Inv, IInv, TypeOK, FlightInv
<1>c. \A k \in Keys \ {KeyOf(p)} : jobs'[k] = jobs[k]
  BY <1>a, WorksApart DEF Renames, Leaves, Moves
<1>s. ASSUME NEW k \in Keys, NEW status, NEW path, JobGets(k, status, path)
      PROVE  jobs'[k].status = status
  BY <1>s, <1>a DEF JobGets, JobsOK
(* Its file, and the files of the others *)
<1>1. CASE Works(t) /\ th[t].pc \notin Moved
  <2>1. disk' = disk /\ FileAt(KeyOf(p)) /\ th'[t].pc # "final_del"
    BY <1>1, OwnerFile, WorksPC DEF Works, Keeps, Moved
  <2>2. ASSUME NEW k \in Keys, jobs'[k].status \in Open PROVE FileAt(k)' \/ AwayWith(k)'
    <3>1. CASE k = KeyOf(p)
      BY <2>1, <3>1 DEF FileAt
    <3>2. CASE k # KeyOf(p)
      <4>1. FileAt(k) \/ AwayWith(k)
        BY <1>c, <2>2, <3>2 DEF RecInv
      <4>2. AwayWith(k) => AwayWith(k)'
        BY <1>1, <1>a DEF AwayWith, OthersSame
      <4> QED
        BY <2>1, <4>1, <4>2 DEF FileAt
    <3> QED
      BY <3>1, <3>2
  <2>3. ASSUME NEW u \in Threads, th'[u].pc = "final_del"
        PROVE  jobs'[th'[u].key].status \in {"failed", "completed"}
    <3>1. u # t /\ th'[u] = th[u] /\ Active(u)
      BY <1>a, <2>1, <2>3 DEF OthersSame, Active, Owner, Inside, PCs
    <3>2. th[u].key \in Keys /\ th[u].key # KeyOf(p)
      BY <2>3, <3>1, OwnerHas, OtherJob
    <3> QED
      BY <1>c, <2>3, <3>1, <3>2 DEF RecInv
  <2> QED
    BY <2>2, <2>3 DEF RecInv
<1>2. CASE Works(t) /\ th[t].pc \in Moved
  <2>1. disk' = disk /\ key = KeyOf(p) /\ key \in Keys
    BY <1>a, <1>2 DEF Works, Keeps, Moved
  <2>2. /\ th'[t].pc \in {"exit", "final_del"}
        /\ th'[t].key = key
        /\ jobs'[key].status \in {"failed", "completed"}
    <3>1. \/ th[t].pc \in {"bad_rec", "fail_rec"} /\ Hop(t, th[t].pc, {"exit"})
             /\ \E path : JobGets(key, "failed", path)
          \/ Hop(t, "final_rec", {"final_del"}) /\ \E path : JobGets(key, "completed", path)
          \/ Hop(t, "final_del", {"exit"}) /\ UNCHANGED jobs
      BY <1>2 DEF Works, FindsJob, TakesJob, ReadsJob, WritesJob, Hop, Moved
    <3> QED
      BY <1>s, <2>1, <3>1 DEF Hop, RecInv
  <2>3. ASSUME NEW k \in Keys, jobs'[k].status \in Open PROVE FileAt(k)' \/ AwayWith(k)'
    <3>1. k # KeyOf(p)
      BY <2>1, <2>2, <2>3 DEF Open
    <3>2. FileAt(k) \/ AwayWith(k)
      BY <1>c, <2>3, <3>1 DEF RecInv
    <3>3. AwayWith(k) => AwayWith(k)'
      BY <1>a, <2>1, <3>1 DEF AwayWith, OthersSame
    <3> QED
      BY <2>1, <3>2, <3>3 DEF FileAt
  <2>4. ASSUME NEW u \in Threads, th'[u].pc = "final_del"
        PROVE  jobs'[th'[u].key].status \in {"failed", "completed"}
    <3>1. CASE u = t
      BY <2>2, <3>1
    <3>2. CASE u # t
      <4>1. th'[u] = th[u] /\ Active(u)
        BY <1>a, <2>4, <3>2 DEF OthersSame, Active, Owner, Inside, PCs
      <4>2. th[u].key \in Keys /\ th[u].key # KeyOf(p)
        BY <2>4, <3>2, <4>1, OwnerHas, OtherJob
      <4> QED
        BY <1>c, <2>4, <4>1, <4>2 DEF RecInv
    <3> QED
      BY <3>1, <3>2
  <2> QED
    BY <2>3, <2>4 DEF RecInv
<1>3. CASE Renames(t) \/ Leaves(t)
  <2>1. /\ UNCHANGED jobs /\ th'[t].key = key /\ th'[t].pc # "final_del"
        /\ key = KeyOf(p) /\ th[t].pc \notin Moved
    BY <1>3, <1>a DEF Renames, Leaves, Moves, Moved
  <2>2. ASSUME NEW k \in Keys, k = KeyOf(p) PROVE FileAt(k)' \/ AwayWith(k)'
    <3>1. CASE Renames(t)
      <4>1. /\ As(p, "utc") \in disk' /\ As(p, "utc").dir = "processing"
            /\ KeyOf(As(p, "utc")) = k
        BY <1>a, <2>2, <3>1, MoveFields, PlainKey DEF Renames, Moves, Names
      <4> QED
        BY <4>1 DEF FileAt
    <3>2. CASE Leaves(t)
      BY <2>1, <2>2, <3>2 DEF Leaves, Moved, AwayWith
    <3> QED
      BY <1>3, <3>1, <3>2
  <2>3. ASSUME NEW k \in Keys, k # KeyOf(p), jobs'[k].status \in Open
        PROVE  FileAt(k)' \/ AwayWith(k)'
    <3>1. FileAt(k) \/ AwayWith(k)
      BY <2>1, <2>3 DEF RecInv
    <3>2. disk \ {p} \subseteq disk'
      BY <1>3 DEF Renames, Leaves, Moves
    <3>3. FileAt(k) => FileAt(k)'
      BY <2>3, <3>2 DEF FileAt
    <3>4. AwayWith(k) => AwayWith(k)'
      BY <1>a, <2>1 DEF AwayWith, OthersSame
    <3> QED
      BY <3>1, <3>3, <3>4
  <2>4. ASSUME NEW u \in Threads, th'[u].pc = "final_del"
        PROVE  jobs'[th'[u].key].status \in {"failed", "completed"}
    BY <1>a, <2>1, <2>4 DEF OthersSame, RecInv
  <2> QED
    BY <2>2, <2>3, <2>4 DEF RecInv
<1> QED
  BY <1>1, <1>2, <1>3

(* The others: they open a job for the file they have, or none. *)
LEMMA GuestRec ==
    ASSUME Plain, Inv, Untroubled, RecInv, NEW t \in Threads, Step(t), ~Active(t)
    PROVE  RecInv'
<1>a. th \in [Threads -> Locals] /\ JobsOK /\ PathsInv(t) /\ PlaceInv(t) /\ HoldInv(t)
  BY DEF Inv, IInv, TypeOK, ThreadsOK, FlightInv
<1>1. Ready(t) \/ MoveIn(t) \/ Reclaim(t) \/ Insert(t) \/ Exit(t) \/ Done(t)
  <2>1. /\ th[t].pc \notin {"resume", "adopt", "rebind", "reopen"}
        /\ th[t].pc \notin Inside
    BY DEF Active, Owner
  <2>2. th[t].pc \notin {"remux_rec", "remux_rm", "orphan"}
    BY <1>a DEF PathsInv, Present
  <2> QED
    BY <2>1, <2>2 DEF Step, Inside, PCs, Resume, Adopt, Rebind, Reopen, Body, Gate, RenameUtc,
       RecordUtc, Remux, RecordRemux, RemoveSource, Preview, At, MoveBad, RecordBad, Call, CallRaises,
       Deferred, Record, BookingMatched, BookingUnmatched, BookingRaises, DeferJob, DeferRow,
       Finalize, RecordFinal, DeleteRow, NothingLeft, MoveFailed, RecordFailed, MoveOrphan
<1>2. OthersSame(t) /\ th'[t].pc # "final_del" /\ th[t].pc \notin Moved
  <2>1. OthersSame(t)
    BY <1>a, <1>1 DEF Ready, MoveIn, Reclaim, Insert, Exit, Done, Go, OthersSame
  <2>2. th'[t].pc # "final_del"
    <3>1. CASE Ready(t)
      BY <1>a, <3>1 DEF Ready, Go, Locals
    <3>2. CASE MoveIn(t) \/ Reclaim(t) \/ Insert(t)
      BY <1>a, <3>2 DEF MoveIn, Reclaim, Insert, Go, Locals
    <3>3. CASE Exit(t) \/ Done(t)
      <4>1. [Idle EXCEPT !.pc = "done", !.sub = th[t].sub].pc = "done" /\ Idle.pc = "idle"
        BY DEF Idle
      <4> QED
        BY <1>a, <3>3, <4>1 DEF Exit, Done
    <3> QED
      BY <1>1, <3>1, <3>2, <3>3
  <2>3. th[t].pc \notin Moved
    BY <1>1 DEF Ready, MoveIn, Reclaim, Insert, Exit, Done, Moved
  <2> QED
    BY <2>1, <2>2, <2>3
<1>3. \A k \in Keys : AwayWith(k) => AwayWith(k)'
  BY <1>2 DEF AwayWith, OthersSame
<1>4. \A k \in Keys : FileAt(k) => FileAt(k)'
  <2>1. CASE MoveIn(t)
    <3>1. th[t].pc = "move"
      BY <2>1 DEF MoveIn
    <3>2. th[t].path.dir = "incoming"
      BY <1>a, <3>1 DEF PathsInv, Present, FromIncoming, FromProcessing, Owner, Inside, PCs
    <3>3. disk \ {th[t].path} \subseteq disk'
      BY <2>1 DEF MoveIn
    <3> QED
      BY <3>2, <3>3 DEF FileAt
  <2>2. CASE ~MoveIn(t)
    <3>1. disk' = disk
      BY <1>1, <2>2 DEF Ready, Reclaim, Insert, Exit, Done
    <3> QED
      BY <3>1 DEF FileAt
  <2> QED
    BY <2>1, <2>2
<1>5. ASSUME NEW k \in Keys, jobs'[k] # jobs[k]
      PROVE  jobs[k].status = "none" /\ FileAt(k)'
  <2>1. Insert(t) /\ k = th[t].key /\ jobs[k].status = "none" /\ UNCHANGED disk
    BY <1>1, <1>5, <1>a DEF Ready, MoveIn, Reclaim, Insert, Exit, Done, store, JobsOK
  <2>2. th[t].pc = "insert" /\ k = KeyOf(th[t].path)
    BY <1>a, <2>1 DEF Insert, HoldInv
  <2>3. th[t].path \in disk /\ th[t].path.dir = "processing"
    BY <1>a, <2>1, <2>2 DEF PlaceInv, PathsInv, Present, FromIncoming, FromProcessing
  <2> QED
    BY <2>1, <2>2, <2>3 DEF FileAt
<1>6. \A k \in Keys : jobs'[k].status \in Open => FileAt(k)' \/ AwayWith(k)'
  BY <1>3, <1>4, <1>5 DEF RecInv
<1>7. ASSUME NEW u \in Threads, th'[u].pc = "final_del"
      PROVE  jobs'[th'[u].key].status \in {"failed", "completed"}
  <2>1. u # t /\ th'[u] = th[u] /\ jobs[th[u].key].status \in {"failed", "completed"}
    BY <1>2, <1>7 DEF OthersSame, RecInv
  <2>2. th[u].key \in Keys
    BY <1>7, <2>1, OwnerHas DEF Active, Owner, Inside, PCs
  <2> QED
    BY <1>5, <2>1, <2>2
<1> QED
  BY <1>6, <1>7 DEF RecInv

LEMMA RestRec ==
    ASSUME RecInv, Untroubled,
           \A k \in Keys : \/ jobs'[k].status = jobs[k].status
                           \/ jobs'[k].status = "failed"
                           \/ jobs'[k].status \in Open /\ jobs[k].status \in Open,
           \A t \in Threads : \/ th'[t] = th[t]
                              \/ th[t].pc \notin Moved /\ th'[t].pc \notin Moved,
           \A t \in Threads : th[t].pc = "final_del" => th[t].key \in Keys,
           disk \subseteq disk'
    PROVE  RecInv'
<1>1. \A k \in Keys : (FileAt(k) => FileAt(k)') /\ (AwayWith(k) => AwayWith(k)')
  BY DEF FileAt, AwayWith
<1>2. \A k \in Keys : jobs'[k].status \in Open => FileAt(k)' \/ AwayWith(k)'
  BY <1>1 DEF RecInv, Open
<1>3. ASSUME NEW t \in Threads, th'[t].pc = "final_del"
      PROVE  jobs'[th'[t].key].status \in {"failed", "completed"}
  <2>1. th'[t] = th[t] /\ jobs[th[t].key].status \in {"failed", "completed"} /\ th[t].key \in Keys
    BY <1>3 DEF RecInv, Moved
  <2> QED
    BY <2>1 DEF Open
<1> QED
  BY <1>2, <1>3 DEF RecInv

LEMMA RecKept ==
    ASSUME Plain, Inv, RecInv, [Next]_vars
    PROVE  RecInv'
<1> SUFFICES ASSUME Untroubled' PROVE RecInv'
  BY DEF RecInv
<1>u. Untroubled /\ ~Crash /\ ~RetryBooking
  BY TroubleStays DEF Inv, IInv, TypeOK
<1>a. /\ th \in [Threads -> Locals] /\ JobsOK /\ Drain \in Threads
      /\ \A t \in Threads : th[t].pc = "final_del" => th[t].key \in Keys
      /\ \A t \in Threads : th[t].pc \in {"idle", "begin"} => th[t].pc \notin Moved
  BY OwnerHas DEF Inv, IInv, TypeOK, ThreadsOK, Threads, Active, Owner, Inside, PCs, Moved
<1>1. ASSUME NEW t \in Threads, Step(t) PROVE RecInv'
  BY <1>1, <1>u, OwnerStep, OwnerRec, GuestRec
<1>e. ASSUME NEW t \in Threads, th[t].pc \in {"idle", "begin"}, NEW p, Enter(t, p)
      PROVE  \A u \in Threads : th'[u] = th[u] \/ {th[u].pc, th'[u].pc} \cap Moved = {}
  <2> DEFINE in == [Idle EXCEPT !.pc = IF p.dir = "incoming" THEN "ready" ELSE "resume",
                                !.sub = p, !.orig = p, !.path = p]
             out == [Idle EXCEPT !.pc = "done", !.sub = p]
  <2>1. in.pc \notin Moved /\ out.pc \notin Moved
    BY DEF Idle, Moved
  <2>2. th' = [th EXCEPT ![t] = in] \/ th' = [th EXCEPT ![t] = out]
    BY <1>e DEF Enter
  <2> HIDE DEF in, out
  <2> QED
    BY <1>a, <1>e, <2>1, <2>2
<1>2. ASSUME NEW t \in Threads, NEW p \in queued, Take(t, p) PROVE RecInv'
  <2>1. /\ th[t].pc = "idle" /\ Enter(t, p) /\ UNCHANGED <<disk, jobs>>
    BY <1>2 DEF Take, store
  <2> QED
    BY <1>a, <1>e, <1>u, <2>1, RestRec
<1>3. CASE DrainBegin
  <2> DEFINE k == th[Drain].key
  <2>1. th[Drain].pc = "begin" /\ k \in Keys /\ disk' = disk
    BY <1>3, <1>a DEF DrainBegin, Inv, IInv, ThreadInv, HoldsKey
  <2>2. \A t \in Threads : th'[t] = th[t] \/ {th[t].pc, th'[t].pc} \cap Moved = {}
    <3>1. CASE th' = [th EXCEPT ![Drain] = Idle]
      <4>1. Idle.pc \notin Moved
        BY DEF Idle, Moved
      <4> QED
        BY <1>a, <2>1, <3>1, <4>1
    <3>2. CASE Enter(Drain, th[Drain].sub)
      BY <1>a, <1>e, <2>1, <3>2
    <3> QED
      BY <1>3, <3>1, <3>2 DEF DrainBegin
  <2>3. UNCHANGED jobs \/ jobs' = [jobs EXCEPT ![k].status = "failed"]
    BY <1>3 DEF DrainBegin, store
  <2>4. \A j \in Keys : jobs'[j].status = jobs[j].status \/ jobs'[j].status = "failed"
    BY <1>a, <2>1, <2>3 DEF JobsOK, NoJob, Jobs
  <2> QED
    BY <1>a, <1>u, <2>1, <2>2, <2>4, RestRec
<1>4. ASSUME NEW k \in Keys, DrainPick(k) PROVE RecInv'
  <2>1. /\ th' = [th EXCEPT ![Drain] = [Idle EXCEPT !.pc = "begin", !.key = k, !.sub = rows[k].path]]
        /\ th[Drain].pc = "idle"
    BY <1>4 DEF DrainPick
  <2>2. [Idle EXCEPT !.pc = "begin", !.key = k, !.sub = rows[k].path].pc \notin Moved
    BY DEF Idle, Moved
  <2>3. UNCHANGED <<disk, jobs>>
    BY <1>4 DEF DrainPick, store
  <2>4. \A t \in Threads : th'[t] = th[t] \/ {th[t].pc, th'[t].pc} \cap Moved = {}
    BY <1>a, <2>1, <2>2
  <2> QED
    BY <1>a, <1>u, <2>3, <2>4, RestRec
<1>5. ASSUME NEW k \in Keys, BookingFallsDue(k) PROVE RecInv'
  <2>1. NoJob.bookAt = "never"
    BY DEF NoJob
  <2>2. jobs[k] \in Jobs /\ UNCHANGED <<disk, th>>
    BY <1>5, <1>a, <2>1 DEF BookingFallsDue, JobsOK
  <2>3. \A j \in Keys : jobs'[j].status = jobs[j].status
    BY <1>5, <1>a, <2>2 DEF BookingFallsDue, JobsOK, Jobs
  <2> QED
    BY <1>a, <1>u, <2>2, <2>3, RestRec
<1>6. CASE \/ \E k \in Keys : BookingPoll(k) \/ RetryReads(k)
           \/ \E f \in Files : Appear(f) \/ Finish(f)
           \/ \E p \in cooling : CooldownEnds(p)
           \/ GoesOffline \/ ComesOnline \/ Scan \/ UNCHANGED vars
  <2>1. UNCHANGED <<jobs, th>> /\ disk \subseteq disk'
    BY <1>6 DEF BookingPoll, RetryReads, Appear, Finish, CooldownEnds, GoesOffline, ComesOnline, Scan, vars, store
  <2> QED
    BY <1>a, <1>u, <2>1, RestRec
<1>7. CASE Restart
  <2>1. PICK stale \in SUBSET {k \in Keys : FlagStale /\ jobs[k].status = "processing"
                                            /\ "final" \notin jobs[k].flags} :
          jobs' = [k \in Keys |-> IF k \in stale THEN [jobs[k] EXCEPT !.status = "stale"]
                                 ELSE jobs[k]]
    BY <1>7 DEF Restart
  <2>2. ASSUME NEW k \in Keys
        PROVE  \/ jobs'[k].status = jobs[k].status
               \/ jobs'[k].status \in Open /\ jobs[k].status \in Open
    <3>1. k \in stale => jobs[k] \in Jobs /\ jobs[k].status = "processing"
      BY <1>a DEF JobsOK, NoJob
    <3> QED
      BY <2>1, <3>1 DEF Jobs, Open
  <2>3. UNCHANGED <<disk, th>>
    BY <1>7 DEF Restart
  <2> QED
    BY <1>a, <1>u, <2>2, <2>3, RestRec
<1> QED
  BY <1>u, <1>1, <1>2, <1>3, <1>4, <1>5, <1>6, <1>7 DEF Next

(* An open job, whatever is deferred, fails or is locked, keeps a file that a
   restart takes up again: without a crash between a move and its record, and
   without a retry-booking on what is completed, no open job is stranded.  (Plain
   only: of two threads on a remuxed clip one may move the file away as an
   orphan.) *)
PROPOSITION NoneStranded == Plain => (Spec => []NoneIsStranded)
<1> SUFFICES ASSUME Plain
             PROVE  Spec => []NoneIsStranded
  OBVIOUS
<1>1. Init => RecInv
  BY DEF Init, RecInv, NoJob, Idle, Open
<1>2. Inv /\ RecInv /\ [Next]_vars => RecInv'
  BY RecKept
<1>3. RecInv => NoneIsStranded
  BY DEF RecInv, Untroubled, Open, FileAt, AwayWith, Recoverable, NoneIsStranded
<1> QED
  BY <1>1, <1>2, <1>3, FlightAlways, PTL DEF Spec
=============================================================================
