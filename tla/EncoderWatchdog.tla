--------------------------- MODULE EncoderWatchdog ---------------------------
(***************************************************************************)
(* encoder/encoder_watchdog.py supervising encoder/operator_long_only.py.  *)
(* The watchdog polls: it asks the operator's HTTP ping for a payload the  *)
(* operator cached earlier, falls back to encoder_state.json, and kills    *)
(* and respawns the operator when either asks for it.  The operator is     *)
(* modelled as far as the watchdog can see it: what it is doing, and the   *)
(* snapshots of that which it last published.                              *)
(*                                                                         *)
(* One unit of time is one sleep of the watchdog's loop.  The operator's   *)
(* Tk tick (1 s) is shorter than the poll (2 s), so an operator whose tick *)
(* is alive publishes during every sleep.                                  *)
(***************************************************************************)
EXTENDS Integers, FiniteSets

CONSTANTS
    PingEnabled,    \* ENCODER_WATCHDOG_HTTP_PORT > 0
    RestartOnZero,  \* WATCHDOG_RESTART_ON_ZERO_EXIT
    KillMayFail,    \* whether taskkill and the 20 s wait may leave the child alive
    PublishMayFail, \* whether os.replace may raise while a reader holds the file
    StaleAfter,     \* WATCHDOG_STALE_STATE_SECONDS
    StaleLimit,     \* WATCHDOG_STALE_CONSECUTIVE_LIMIT
    ShortProtect,   \* WATCHDOG_RECORDING_SHORT_PROTECT_SECONDS
    Blackout,       \* WATCHDOG_RECORDING_BLACKOUT_MAX_SECONDS
    Grace,          \* WATCHDOG_STARTUP_GRACE_SECONDS
    MaxRestarts,    \* WATCHDOG_MAX_RESTARTS
    Window          \* WATCHDOG_RESTART_WINDOW_SECONDS

ASSUME WatchdogAssumption ==
    /\ {PingEnabled, RestartOnZero, KillMayFail, PublishMayFail} \subseteq BOOLEAN
    /\ {StaleAfter, ShortProtect, Blackout, Grace, Window} \subseteq Nat
    /\ {StaleLimit, MaxRestarts} \subseteq Nat \ {0}

VARIABLES
    op,         \* the operator process, and the exit code of the watchdog's child
    file,       \* encoder_state.json as last written, and its age
    ping,       \* _watchdog_ping_payload, the payload the ping thread serves
    wd,         \* the watchdog's program counter and local variables
    restarts,   \* restart_times: the ages of the counted restarts
                \* (a sleep lies between any two of them, so no two are equal)
    \* History, read by the properties only:
    takeSeen,   \* polls since a file read showed this child recording
    spawns      \* the ages of the spawns, up to Window

vars == <<op, file, ping, wd, restarts, takeSeen, spawns>>

Never == -1
Nobody == [schema |-> FALSE, ok |-> FALSE, rec |-> FALSE, restart |-> FALSE]
OpDown(code) == [phase |-> "down", ticking |-> FALSE, rec |-> FALSE, degraded |-> FALSE,
                 blocked |-> FALSE, restarting |-> FALSE, kin |-> "child", code |-> code]
OpBooting == [OpDown(0) EXCEPT !.phase = "booting"]
Up == op.phase # "down"

(* op.kin: an operator is the watchdog's child, or has survived its kill, or
   has taken over from either by a restart of its own.  Popen knows only the
   first. *)
ChildUp == Up /\ op.kin = "child"

(* Age by one unit, saturating at the first value nothing distinguishes. *)
Older(n, cap) == IF n < cap THEN n + 1 ELSE n

(***************************************************************************)
(* The operator                                                            *)
(***************************************************************************)

Ending(o) == o.phase \in {"quitting", "leaving"}   \* _shutting_down

FileOf(o) ==
    [age |-> 0, rec |-> o.rec, degraded |-> o.degraded,
     state |-> IF o.phase = "booting" THEN "starting"
               ELSE IF Ending(o)      THEN "shutting_down"
               ELSE IF o.blocked      THEN "blocked"
               ELSE IF o.rec          THEN "recording"
               ELSE "ready"]

(* Mutant: a startup block is left out of restart_recommended. *)
PingOf_NoBlocked(o) ==
    [schema |-> TRUE, ok |-> ~Ending(o), rec |-> o.rec,
     restart |-> o.restarting \/ (o.degraded /\ ~o.rec)]

(* _refresh_watchdog_ping_payload *)
PingOf(o) ==
    [schema |-> TRUE, ok |-> ~Ending(o), rec |-> o.rec,
     restart |-> o.restarting \/ o.blocked \/ (o.degraded /\ ~o.rec)]

(* _publish_state: the file first; when os.replace raises, the ping payload
   behind it is not refreshed either. *)
Publish(o) == file' = FileOf(o) /\ ping' = PingOf(o)
NoPublish == UNCHANGED <<file, ping>>
TryPublish(o) == Publish(o) \/ (PublishMayFail /\ NoPublish)

OperatorOnly == UNCHANGED <<wd, restarts, takeSeen, spawns>>

(* The startup phase ends: validation passed, or the operator is blocked. *)
OpBoot(blocked) ==
    /\ op.phase = "booting"
    /\ op' = [op EXCEPT !.phase = "running", !.ticking = TRUE, !.blocked = blocked]
    /\ Publish(op')
    /\ OperatorOnly

(* start_long.  process_command_file catches an exception of the publish. *)
OpStart ==
    /\ op.phase = "running" /\ ~op.blocked /\ ~op.rec
    /\ op' = [op EXCEPT !.rec = TRUE]
    /\ TryPublish(op')
    /\ OperatorOnly

(* The take ends by operator request, and _on_stop_sequence_complete publishes. *)
OpStop ==
    /\ op.rec
    /\ op' = [op EXCEPT !.rec = FALSE]
    /\ TryPublish(op')
    /\ OperatorOnly

(* ffmpeg ends by itself (maximum duration, fault); only the tick will tell. *)
OpTakeEnds ==
    /\ op.rec
    /\ op' = [op EXCEPT !.rec = FALSE]
    /\ NoPublish
    /\ OperatorOnly

(* The health check of _tick: the output stalls, or grows again. *)
OpTickHealth ==
    /\ op.ticking /\ op.rec
    /\ op' = [op EXCEPT !.degraded = ~@]
    /\ Publish(op')
    /\ OperatorOnly

(* os.replace raises inside _tick, before `root.after(1000, self._tick)`:
   nothing reschedules the tick. *)
OpTickDies ==
    /\ PublishMayFail /\ op.ticking
    /\ op' = [op EXCEPT !.ticking = FALSE]
    /\ NoPublish
    /\ OperatorOnly

(* on_quit, up to the end of the stop sequence it may have to run first. *)
OpQuit ==
    /\ op.phase = "running"
    /\ op' = [op EXCEPT !.phase = "quitting"]
    /\ TryPublish(op')
    /\ OperatorOnly

(* _restart_app: the take is stopped, the state published, and the window
   destroyed.  When the publish raises, process_command_file catches it and
   the operator stays as it is, shutting down. *)
OpRestart ==
    /\ op.phase = "running"
    /\ \/ /\ op' = [op EXCEPT !.phase = "leaving", !.restarting = TRUE,
                              !.rec = FALSE, !.ticking = FALSE]
          /\ Publish(op')
       \/ /\ PublishMayFail
          /\ op' = [op EXCEPT !.phase = "quitting", !.restarting = TRUE, !.rec = FALSE]
          /\ NoPublish
    /\ OperatorOnly

(* os.execv, which on Windows starts another process and ends this one with
   code 0.  Should it fail, the main loop is over and OpExit(0) follows. *)
OpTakesOver ==
    /\ op.phase = "leaving"
    /\ op' = [OpBooting EXCEPT !.kin = "successor", !.code = IF ChildUp THEN 0 ELSE op.code]
    /\ file' = FileOf(op') /\ ping' = Nobody
    /\ OperatorOnly

(* The process ends: normally after on_quit, or by a crash at any time. *)
OpExit(code) ==
    /\ Up
    /\ code = 0 => Ending(op) /\ ~op.rec
    /\ op' = OpDown(IF ChildUp THEN code ELSE op.code)
    /\ ping' = Nobody
    /\ UNCHANGED file
    /\ OperatorOnly

OpNext ==
    \/ \E b \in BOOLEAN : OpBoot(b)
    \/ OpStart \/ OpStop \/ OpTakeEnds \/ OpTickHealth \/ OpTickDies \/ OpQuit
    \/ OpRestart \/ OpTakesOver
    \/ \E code \in {0, 1} : OpExit(code)

(***************************************************************************)
(* The watchdog.  wd.child is what its Popen refers to: nothing, the       *)
(* operator, or a duplicate that the operator's singleton mutex turned     *)
(* away with exit code 86.                                                 *)
(***************************************************************************)

(* wd after the child is reset at a spawn. *)
Fresh(child) ==
    [pc |-> "sleep", child |-> child, grace |-> Grace, seen |-> FALSE,
     since |-> Never, streak |-> 0]

Init ==
    /\ op = OpDown(0)
    /\ file = [FileOf(OpDown(0)) EXCEPT !.age = StaleAfter + 1]
    /\ ping = Nobody
    /\ wd = [Fresh("none") EXCEPT !.pc = "top"]
    /\ restarts = {}
    /\ takeSeen = Never
    /\ spawns = {}

(* Mutant: the limit is compared with > instead of >=. *)
BumpRestarts_OffByOne(times, next) ==
    /\ restarts' = times \cup {0}
    /\ wd' = [wd EXCEPT !.child = "none",
                        !.pc = IF Cardinality(restarts') > MaxRestarts THEN "stopped" ELSE next]

(* bump_restart_counter once the child is gone: SystemExit(2) at the limit. *)
BumpRestarts(times, next) ==
    /\ restarts' = times \cup {0}
    /\ wd' = [wd EXCEPT !.child = "none",
                        !.pc = IF Cardinality(restarts') >= MaxRestarts THEN "stopped" ELSE next]

(* restart_times after the pruning at the top of the loop. *)
Pruned == {age \in restarts : age <= Window}

WdExitSeen ==
    /\ wd.pc = "top" /\ wd.child # "none"
    /\ wd.child = "op" => ~ChildUp
    /\ IF wd.child = "dup" \/ (op.code = 0 /\ ~RestartOnZero)
       THEN wd' = [wd EXCEPT !.pc = "stopped"] /\ restarts' = Pruned
       ELSE BumpRestarts(Pruned, "top")
    /\ UNCHANGED <<op, file, ping, takeSeen, spawns>>

WdSpawn ==
    /\ wd.pc = "top" /\ wd.child = "none"
    /\ restarts' = Pruned
    /\ IF Up
       THEN wd' = Fresh("dup") /\ UNCHANGED <<op, file, ping>>
       ELSE wd' = Fresh("op") /\ op' = OpBooting /\ file' = FileOf(op') /\ ping' = Nobody
    /\ takeSeen' = Never
    /\ spawns' = spawns \cup {0}

WdAlive ==
    /\ wd.pc = "top" /\ wd.child = "op" /\ ChildUp
    /\ restarts' = Pruned
    /\ wd' = [wd EXCEPT !.pc = IF wd.grace > 0 THEN "sleep"
                               ELSE IF PingEnabled THEN "ping" ELSE "file"]
    /\ UNCHANGED <<op, file, ping, takeSeen, spawns>>

(* _fetch_encoder_ping and the branch on its answer; the request may time out. *)
WdPing ==
    /\ wd.pc = "ping"
    /\ \E answer \in {ping, Nobody} :
          wd' = IF answer.schema /\ answer.restart
                THEN [wd EXCEPT !.pc = "kill"]
                ELSE IF answer.schema /\ (answer.ok \/ answer.rec)
                     THEN [wd EXCEPT !.pc = "sleep"]
                     ELSE [wd EXCEPT !.pc = "file"]
    /\ UNCHANGED <<op, file, ping, restarts, takeSeen, spawns>>

(* _recording_guard_suppresses_kill *)
GuardSuppresses(rec, seen, since) ==
    \/ rec
    \/ seen /\ since # Never /\ (since <= ShortProtect \/ since < Blackout)

(* Mutant: the streak is judged before the recording guard. *)
StaleVerdict_StreakFirst(readable, rec, seen, since, streak) ==
    IF streak >= StaleLimit                   THEN "kill"
    ELSE IF GuardSuppresses(rec, seen, since) THEN "sleep"
    ELSE IF ~readable /\ ~PingEnabled         THEN "crashed"
    ELSE "sleep"

(* _should_restart_for_stale_state.  Below the limit the caller first
   evaluates `(data or {}).get("state") or (ping or {})...`: with no data and
   no ping fetched in this loop, `ping` is an unbound local. *)
StaleVerdict(readable, rec, seen, since, streak) ==
    IF GuardSuppresses(rec, seen, since) THEN "sleep"
    ELSE IF ~readable /\ ~PingEnabled    THEN "crashed"
    ELSE IF streak < StaleLimit          THEN "sleep"
    ELSE "kill"

(* _state_requires_restart *)
RequiresRestart == file.state # "shutting_down" /\ (file.degraded \/ file.state = "blocked")

WdFileUnreadable ==
    /\ wd.pc = "file"
    /\ LET next == StaleVerdict(FALSE, FALSE, wd.seen, wd.since, wd.streak + 1)
       IN  wd' = [wd EXCEPT !.pc = next, !.streak = IF next = "kill" THEN 0 ELSE Older(@, StaleLimit)]
    /\ UNCHANGED <<op, file, ping, restarts, takeSeen, spawns>>

(* A readable file resets the streak before its age is judged. *)
WdFileReadable ==
    /\ wd.pc = "file"
    /\ LET stale == file.age > StaleAfter
           streak == IF stale THEN 1 ELSE 0
           next == IF stale THEN StaleVerdict(TRUE, file.rec, file.rec, 0, streak)
                   ELSE IF RequiresRestart /\ ~GuardSuppresses(file.rec, file.rec, 0)
                        THEN "kill" ELSE "sleep"
       IN  wd' = [wd EXCEPT !.pc = next, !.seen = file.rec, !.since = 0,
                            !.streak = IF next = "kill" THEN 0 ELSE streak]
    /\ takeSeen' = IF file.rec THEN 0 ELSE Never
    /\ UNCHANGED <<op, file, ping, restarts, spawns>>

(* _kill_process_tree and wait: the child and its ffmpeg die, or survive; one
   that has ended meanwhile takes nobody along. *)
KillChild ==
    \/ ~ChildUp /\ UNCHANGED <<op, ping>>
    \/ ChildUp /\ op' = OpDown(1) /\ ping' = Nobody
    \/ ChildUp /\ KillMayFail /\ op' = [op EXCEPT !.kin = "survivor"] /\ UNCHANGED ping

WdKill ==
    /\ wd.pc = "kill"
    /\ \/ KillChild /\ BumpRestarts(restarts, "sleep")
       \/ /\ KillMayFail   \* taskkill hangs, and subprocess.run raises
          /\ wd' = [wd EXCEPT !.pc = "crashed"]
          /\ UNCHANGED <<op, ping, restarts>>
    /\ UNCHANGED <<file, takeSeen, spawns>>

(* Ctrl-C, anywhere in the loop. *)
WdInterrupt ==
    /\ wd.pc \notin {"stopped", "crashed", "gone"}
    /\ wd' = [wd EXCEPT !.pc = "stopped"]
    /\ UNCHANGED <<op, file, ping, restarts, takeSeen, spawns>>

(* Mutant: no finally block. *)
WdFinally_NoKill ==
    /\ wd.pc \in {"stopped", "crashed"}
    /\ wd' = [wd EXCEPT !.pc = "gone"]
    /\ UNCHANGED <<op, file, ping, restarts, takeSeen, spawns>>

(* The finally block: the watchdog takes its child along. *)
WdFinally ==
    /\ wd.pc \in {"stopped", "crashed"}
    /\ KillChild
    /\ wd' = [wd EXCEPT !.pc = "gone"]
    /\ UNCHANGED <<file, restarts, takeSeen, spawns>>

(* time.sleep: time passes, and a live tick publishes. *)
WdSleep ==
    /\ wd.pc = "sleep"
    /\ IF op.ticking
       THEN file' = FileOf(op) /\ ping' = PingOf(op)
       ELSE file' = [file EXCEPT !.age = Older(@, StaleAfter + 1)] /\ UNCHANGED ping
    /\ wd' = [wd EXCEPT !.pc = "top", !.grace = IF @ > 0 THEN @ - 1 ELSE 0,
                        !.since = IF @ = Never THEN @ ELSE Older(@, ShortProtect + Blackout + 1)]
    /\ restarts' = {Older(age, Window + 1) : age \in restarts}
    /\ takeSeen' = IF takeSeen = Never THEN Never
                   ELSE Older(takeSeen, ShortProtect + Blackout + 1)
    /\ spawns' = {age + 1 : age \in spawns} \cap 0 .. Window
    /\ UNCHANGED op

WdLoop ==
    \/ WdExitSeen \/ WdSpawn \/ WdAlive \/ WdPing \/ WdFileUnreadable \/ WdFileReadable
    \/ WdKill \/ WdFinally \/ WdSleep

Next == OpNext \/ WdLoop \/ WdInterrupt

(***************************************************************************)
(* Properties                                                              *)
(***************************************************************************)

Ages(cap) == {Never} \cup 0 .. cap

TypeOK ==
    /\ op \in [phase : {"down", "booting", "running", "quitting", "leaving"}, ticking : BOOLEAN,
               rec : BOOLEAN, degraded : BOOLEAN, blocked : BOOLEAN, restarting : BOOLEAN,
               kin : {"child", "survivor", "successor"}, code : {0, 1}]
    /\ file \in [age : 0 .. StaleAfter + 1, rec : BOOLEAN, degraded : BOOLEAN,
                 state : {"starting", "ready", "recording", "blocked", "shutting_down"}]
    /\ ping \in [schema : BOOLEAN, ok : BOOLEAN, rec : BOOLEAN, restart : BOOLEAN]
    /\ wd \in [pc : {"top", "ping", "file", "kill", "sleep", "stopped", "crashed", "gone"},
               child : {"none", "op", "dup"}, grace : 0 .. Grace, seen : BOOLEAN,
               since : Ages(ShortProtect + Blackout + 1), streak : 0 .. StaleLimit]
    /\ restarts \subseteq 0 .. Window + 1
    /\ takeSeen \in Ages(ShortProtect + Blackout + 1)
    /\ spawns \subseteq 0 .. Window

(* Nothing but the watchdog's own loop is promised to run; in particular the
   operator may stay in any condition for ever. *)
Spec == Init /\ [][Next]_vars /\ WF_vars(WdLoop)

(* Recording guard: when the last file read of this child showed a take, and
   reads have failed for less than the blackout cap, no verdict that rests on
   the file (stale, unreadable, degraded, blocked) kills the operator. *)
FileVerdictSparesTake ==
    [][(wd.pc = "file" /\ wd'.pc = "kill")
          => takeSeen' = Never \/ (takeSeen' >= Blackout /\ takeSeen' > ShortProtect)]_vars

(* The restart limit is a limit on spawns: however the restarts come about
   (crashes, ping, file), no sliding window sees more than MaxRestarts. *)
SpawnsBounded == Cardinality(spawns) <= MaxRestarts

(* The watchdog takes the operator with it.  Kills may fail, and an operator
   may replace itself while the watchdog only sees its child end; but whatever
   the order of verdicts, kills, restarts and the end of the watchdog, an
   operator that runs on unsupervised has one of the two to account for it. *)
NoOrphan == wd.pc = "gone" /\ Up => op.kin \in {"survivor", "successor"}

(* A blocked operator whose tick is alive does not stay up, whatever mixture
   of answers the ping and the file reads give: it is restarted, or the
   watchdog ends and takes it along (or the operator itself begins to quit, or
   a kill of it fails). *)
BlockedIsRestarted ==
    (op.phase = "running" /\ op.blocked /\ op.ticking /\ ChildUp)
        ~> (op.phase # "running" \/ ~op.ticking \/ ~ChildUp)

(* Docstring, lines 3-5: stale/degraded restarts are skipped while a take is
   recorded, so a take ends only by the operator or the maximum duration. *)
TakeEndsOnlyByOperator ==
    [][(wd.pc = "kill" /\ wd'.pc # "kill") => ~(op.rec /\ ~op'.rec)]_vars

(* Docstring, lines 14-17: while recording, an unreadable state file is no
   reason to restart until the short protect window is over. *)
UnreadableTakeIsProtected ==
    [][(wd.pc = "file" /\ wd'.pc = "kill" /\ op.rec) => wd.streak >= ShortProtect]_vars

(* Docstring, lines 22 and 23: port 0 is a supported file-only mode, so no
   sequence of file reads ends the watchdog by an exception. *)
FileOnlyModeWorks == wd.pc # "crashed"

(* Docstring, line 26: a live child whose state is older than
   WATCHDOG_STALE_STATE_SECONDS is restarted (unless the file shows a take or
   becomes fresh again, the operator quits, or the watchdog is stopped). *)
StaleIsRestarted ==
    (op.phase = "running" /\ wd.child = "op" /\ file.age > StaleAfter)
        ~> (op.phase # "running" \/ file.age = 0 \/ file.rec \/ wd.pc \in {"stopped", "gone"})

(* encoder_state.py, line 18: updated_at is fresh while the process runs. *)
FreshWhileRunning == op.phase = "running" => file.age <= StaleAfter
=============================================================================
