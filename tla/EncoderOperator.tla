--------------------------- MODULE EncoderOperator ---------------------------
(***************************************************************************)
(* encoder/operator_long_only.py: one ffmpeg capture at a time, started    *)
(* and stopped by three kinds of threads that share LongOnlyRecorder:      *)
(*   - the Tk thread: command files and window close (its 1 s tick only     *)
(*     publishes; EncoderWatchdog has it);                                 *)
(*   - the stop-sequence worker, at most one, which runs rec.stop;         *)
(*   - one reaper per ffmpeg, which waits for its end.                     *)
(* LongOnlyRecorder.stop is a sequence of steps which the Tk thread and    *)
(* the worker may run at the same time.                                    *)
(***************************************************************************)
EXTENDS Integers, Sequences, FiniteSets

CONSTANTS
    PublishMayFail,  \* whether os.replace may raise while a reader holds the state file
    MaxTakes,        \* bound: ffmpeg processes spawned
    MaxBoots,        \* bound: incarnations of the operator
    MaxPending       \* bound: command files waiting at a time

ASSUME OperatorAssumption ==
    /\ PublishMayFail \in BOOLEAN
    /\ {MaxTakes, MaxBoots, MaxPending} \subseteq Nat \ {0}

VARIABLES
    app,      \* LongOnlyApp's flags, and the life of its process
    rec,      \* LongOnlyRecorder: proc, _reaper_thread, the take of output_path, and
              \* the take last_record_fault is about
    ff,       \* the ffmpeg processes, by order of their spawn
    reaper,   \* the reaper thread of each
    tk,       \* what the Tk thread is in, and what is left of its list of command files
    stops,    \* LongOnlyRecorder.stop as run by the Tk thread and by the worker
    worker,   \* the stop-sequence worker: where it is, its quit_after, what it verifies
    posted,   \* its root.after(0, _on_stop_sequence_complete)
    pending,  \* commands/encoder/pending
    mishap    \* history, read by properties alone: what befell each take that its
              \* recorder may lose sight of ("none" for all others)

vars == <<app, rec, ff, reaper, tk, stops, worker, posted, pending, mishap>>

Takes == 1 .. MaxTakes
NoTake == 0
NoCapture == MaxTakes + 1  \* last_record_fault is about a start that never was
Commands == {"start", "stop", "restart"}

Alive == {n \in Takes : ff[n] = "alive"}
Running == rec.proc # NoTake /\ ff[rec.proc] = "alive"

Booting == [phase |-> "booting", blocked |-> FALSE, closing |-> FALSE, quit |-> FALSE,
            stopping |-> FALSE, polls |-> FALSE,
            raised |-> FALSE, boots |-> 1]
NoRecorder == [proc |-> NoTake, reaper |-> NoTake, out |-> NoTake, fault |-> NoTake]
IdleTk == [pc |-> "idle", batch |-> 0]
NoWorker == [pc |-> "off", quit |-> FALSE, take |-> NoTake]
WorkerOf(quit) == [pc |-> "call", quit |-> quit, take |-> NoTake]
NotStopping == [pc |-> "off", take |-> NoTake, join |-> NoTake]

Init ==
    /\ app = Booting
    /\ rec = NoRecorder
    /\ ff = [n \in Takes |-> "none"]
    /\ reaper = [n \in Takes |-> "none"]
    /\ tk = IdleTk
    /\ stops = [t \in {"tk", "worker"} |-> NotStopping]
    /\ worker = NoWorker
    /\ posted = "none"
    /\ pending = <<>>
    /\ mishap = [n \in Takes |-> "none"]

(* _publish_state: a raise of os.replace ends the callback it is called in. *)
Publishes == {TRUE} \cup (IF PublishMayFail THEN {FALSE} ELSE {})

(***************************************************************************)
(* ffmpeg and its reaper                                                   *)
(***************************************************************************)

(* ffmpeg ends: asked to with q, at -t, or with an error. *)
FfmpegEnds(n, code) ==
    /\ ff[n] = "alive"
    /\ ff' = [ff EXCEPT ![n] = code]
    /\ UNCHANGED <<app, rec, reaper, tk, stops, worker, posted, pending, mishap>>

(* reaper. *)
Reap(n) ==
    /\ reaper[n] = "waiting" /\ ff[n] \in {"ok", "bad"}
    /\ reaper' = [reaper EXCEPT ![n] = "done"]
    /\ rec' = [rec EXCEPT !.fault = IF ff[n] = "bad" THEN n ELSE NoTake]
    /\ UNCHANGED <<app, ff, tk, stops, worker, posted, pending, mishap>>

(***************************************************************************)
(* LongOnlyRecorder.stop, run by thread t                                  *)
(***************************************************************************)

(* The call: nothing to do without a proc, else ask ffmpeg to end. *)
CallStop(t) ==
    IF rec.proc = NoTake
    THEN UNCHANGED stops
    ELSE stops' = [stops EXCEPT ![t] = [pc |-> "wait", take |-> rec.proc, join |-> NoTake]]

(* The graceful wait runs out: terminate, or kill. *)
StopForces(t) ==
    /\ stops[t].pc = "wait" /\ ff[stops[t].take] = "alive"
    /\ ff' = [ff EXCEPT ![stops[t].take] = "bad"]
    /\ UNCHANGED <<app, rec, reaper, tk, stops, worker, posted, pending, mishap>>

(* Neither helped, or the kill raised an OSError, which is passed over. *)
StopGivesUp(t) ==
    /\ stops[t].pc = "wait" /\ ff[stops[t].take] = "alive"
    /\ stops' = [stops EXCEPT ![t].pc = "join", ![t].join = rec.reaper]
    /\ mishap' = [mishap EXCEPT ![stops[t].take] = "unkilled"]
    /\ UNCHANGED <<app, rec, ff, reaper, tk, worker, posted, pending>>

(* Mutant: a stop does not wait for its ffmpeg at all. *)
StopJoins_Early(t) ==
    /\ stops[t].pc = "wait"
    /\ stops' = [stops EXCEPT ![t].pc = "join", ![t].join = rec.reaper]
    /\ UNCHANGED <<app, rec, ff, reaper, tk, worker, posted, pending, mishap>>

(* ffmpeg is gone; `self._reaper_thread` is whichever it is by now. *)
StopJoins(t) ==
    /\ stops[t].pc = "wait" /\ ff[stops[t].take] # "alive"
    /\ stops' = [stops EXCEPT ![t].pc = "join", ![t].join = rec.reaper]
    /\ UNCHANGED <<app, rec, ff, reaper, tk, worker, posted, pending, mishap>>

(* join(timeout=15) returns at the reaper's end; it gives up on one whose ffmpeg runs. *)
StopJoined(t) ==
    /\ stops[t].pc = "join"
    /\ LET n == stops[t].join
       IN  n # NoTake => reaper[n] # "waiting" \/ ff[n] = "alive"
    /\ stops' = [stops EXCEPT ![t].pc = "clear"]
    /\ UNCHANGED <<app, rec, ff, reaper, tk, worker, posted, pending, mishap>>

StopClears(t) ==
    /\ stops[t].pc = "clear"
    /\ rec' = [rec EXCEPT !.proc = NoTake, !.reaper = NoTake]
    /\ stops' = [stops EXCEPT ![t] = NotStopping]
    /\ UNCHANGED <<app, ff, reaper, tk, worker, posted, pending, mishap>>

(***************************************************************************)
(* The stop-sequence worker                                                *)
(***************************************************************************)

(* The thread comes to run: what it stops is whatever is recorded by then. *)
WorkerCalls ==
    /\ worker.pc = "call"
    /\ worker' = [worker EXCEPT !.pc = "stop"]
    /\ CallStop("worker")
    /\ UNCHANGED <<app, rec, ff, reaper, tk, posted, pending, mishap>>

(* rec.stop has returned, or had nothing to do. *)
WorkerVerifies ==
    /\ worker.pc = "stop" /\ stops["worker"].pc = "off"
    /\ worker' = [worker EXCEPT !.pc = "verify", !.take = rec.out]
    /\ UNCHANGED <<app, rec, ff, reaper, tk, stops, posted, pending, mishap>>

(* _verify_last_output: the file, its size, ffprobe's duration and audio
   decide; either way last_record_fault is written over. *)
Verdicts(n) == {NoTake, n}

(* Seconds of ffprobe later: the verdict, and the finally block. *)
WorkerEnds ==
    /\ worker.pc = "verify"
    /\ \E fault \in Verdicts(worker.take) : rec' = [rec EXCEPT !.fault = fault]
    /\ posted' = IF worker.quit THEN "quit" ELSE "plain"
    /\ worker' = NoWorker
    /\ UNCHANGED <<app, ff, reaper, tk, stops, pending, mishap>>

(***************************************************************************)
(* The Tk thread.  A handler runs to its end before the next one begins,   *)
(* but stop blocks it in between.                                          *)
(***************************************************************************)

TkIdle == tk.pc = "idle" /\ app.phase = "running"
Gone == [Booting EXCEPT !.phase = "gone", !.boots = app.boots]

(* The process ends, threads and all; ffmpeg is not a part of it. *)
Vanish(next) ==
    /\ app' = next
    /\ rec' = NoRecorder
    /\ reaper' = [n \in Takes |-> IF reaper[n] = "waiting" THEN "done" ELSE reaper[n]]
    /\ tk' = IdleTk
    /\ stops' = [t \in {"tk", "worker"} |-> NotStopping]
    /\ worker' = NoWorker
    /\ posted' = "none"
    /\ UNCHANGED ff

(* __init__ after the startup probe. *)
Boot(blocked) ==
    /\ app.phase = "booting"
    /\ app' = [app EXCEPT !.phase = "running", !.blocked = blocked, !.polls = TRUE]
    /\ UNCHANGED <<rec, ff, reaper, tk, stops, worker, posted, pending, mishap>>

NextLives == {Gone} \cup IF app.boots < MaxBoots
                        THEN {[Booting EXCEPT !.boots = app.boots + 1]} ELSE {}

(* The process is killed (by encoder_watchdog, say, which starts another) or dies. *)
Crash ==
    /\ app.phase = "running"
    /\ \E next \in NextLives : Vanish(next)
    /\ mishap' = [n \in Takes |-> IF ff[n] = "alive" THEN "orphaned" ELSE mishap[n]]
    /\ UNCHANGED pending

(* send_command.ps1, Companion or an operator drops a command file, whatever is under way. *)
Send(c) ==
    /\ app.phase # "gone" /\ Len(pending) < MaxPending
    /\ pending' = Append(pending, c)
    /\ UNCHANGED <<app, rec, ff, reaper, tk, stops, worker, posted, mishap>>

(* check_for_commands lists the files once and handles each of them. *)
PollBegins ==
    /\ TkIdle /\ app.polls
    /\ tk' = [pc |-> "poll", batch |-> Len(pending)]
    /\ UNCHANGED <<app, rec, ff, reaper, stops, worker, posted, pending, mishap>>

PollEnds ==
    /\ tk.pc = "poll" /\ tk.batch = 0
    /\ app' = [app EXCEPT !.polls = ~app.closing]
    /\ tk' = IdleTk
    /\ UNCHANGED <<rec, ff, reaper, stops, worker, posted, pending, mishap>>

Handles(c) == tk.pc = "poll" /\ tk.batch > 0 /\ Head(pending) = c
Consumed == [tk EXCEPT !.batch = @ - 1]

MayTake == \E n \in Takes : ff[n] = "none"  \* the bound MaxTakes

(* handle_command and start_long, up to rec.start's call of stop.  The file
   leaves pending when the handler has returned, which nobody else sees. *)
CommandStarts ==
    /\ Handles("start")
    /\ pending' = Tail(pending)
    /\ IF Running \/ app.blocked \/ ~MayTake
       THEN /\ tk' = Consumed
            /\ rec' = [rec EXCEPT !.fault = IF app.blocked /\ ~Running THEN NoCapture ELSE @]
            /\ UNCHANGED stops
       ELSE tk' = [Consumed EXCEPT !.pc = "start"] /\ UNCHANGED rec /\ CallStop("tk")
    /\ UNCHANGED <<app, ff, reaper, worker, posted, mishap>>

NextTake == CHOOSE n \in Takes : ff[n] = "none"

(* The rest of rec.start and of start_long; Popen or the arguments may fail.
   A start is rushed when the window's own button would be disabled (_tick). *)
StartSpawns(works) ==
    /\ tk.pc = "start" /\ stops["tk"].pc = "off"
    /\ mishap' = IF works /\ app.stopping THEN [mishap EXCEPT ![NextTake] = "rushed"] ELSE mishap
    /\ IF works
       THEN /\ ff' = [ff EXCEPT ![NextTake] = "alive"]
            /\ reaper' = [reaper EXCEPT ![NextTake] = "waiting"]
            /\ rec' = [proc |-> NextTake, reaper |-> NextTake, out |-> NextTake,
                       fault |-> NoTake]
       ELSE rec' = [rec EXCEPT !.fault = NoCapture] /\ UNCHANGED <<ff, reaper>>
    /\ tk' = [tk EXCEPT !.pc = "poll"]
    /\ \E ok \in Publishes : app' = [app EXCEPT !.raised = @ \/ ~ok]
    /\ UNCHANGED <<stops, worker, posted, pending>>

(* Mutant: stop_long does not set _stop_sequence_in_progress. *)
CommandStops_NoFlag ==
    /\ Handles("stop")
    /\ pending' = Tail(pending) /\ tk' = Consumed
    /\ worker' = IF Running /\ ~app.stopping THEN WorkerOf(FALSE) ELSE worker
    /\ UNCHANGED <<app, rec, ff, reaper, stops, posted, mishap>>

(* handle_command and stop_long. *)
CommandStops ==
    /\ Handles("stop")
    /\ pending' = Tail(pending) /\ tk' = Consumed
    /\ IF Running /\ ~app.stopping
       THEN worker' = WorkerOf(FALSE) /\ app' = [app EXCEPT !.stopping = TRUE]
       ELSE UNCHANGED <<app, worker>>
    /\ UNCHANGED <<rec, ff, reaper, stops, posted, mishap>>

(* _restart_app up to its own call of stop.  Its command file is still there. *)
CommandRestarts ==
    /\ Handles("restart")
    /\ IF app.closing
       THEN pending' = Tail(pending) /\ tk' = Consumed /\ UNCHANGED <<app, stops>>
       ELSE /\ app' = [app EXCEPT !.closing = TRUE]
            /\ tk' = [tk EXCEPT !.pc = "restart"]
            /\ CallStop("tk")
            /\ UNCHANGED pending
    /\ UNCHANGED <<rec, ff, reaper, worker, posted, mishap>>

(* Publish, destroy and os.execv: the next incarnation begins with the file
   that asked for this one in pending.  When execv fails the process ends. *)
RestartExecs ==
    /\ tk.pc = "restart" /\ stops["tk"].pc = "off"
    /\ \E next \in NextLives : Vanish(next)
    /\ UNCHANGED <<pending, mishap>>

(* The publish raises: process_command_file goes on with a closing app. *)
RestartRaises ==
    /\ PublishMayFail
    /\ tk.pc = "restart" /\ stops["tk"].pc = "off"
    /\ app' = [app EXCEPT !.raised = TRUE]
    /\ tk' = [Consumed EXCEPT !.pc = "poll"]
    /\ pending' = Tail(pending)
    /\ UNCHANGED <<rec, ff, reaper, stops, worker, posted, mishap>>

(* on_quit, which may be called again. *)
QuitWaits ==
    /\ TkIdle /\ app.stopping
    /\ app' = [app EXCEPT !.closing = TRUE, !.quit = TRUE]
    /\ UNCHANGED <<rec, ff, reaper, tk, stops, worker, posted, pending, mishap>>

QuitStops ==
    /\ TkIdle /\ ~app.stopping /\ Running
    /\ worker' = WorkerOf(TRUE)
    /\ app' = [app EXCEPT !.closing = TRUE, !.stopping = TRUE]
    /\ UNCHANGED <<rec, ff, reaper, tk, stops, posted, pending, mishap>>

QuitEnds(ok) ==
    /\ TkIdle /\ ~app.stopping /\ ~Running /\ ok \in Publishes
    /\ IF ok THEN Vanish(Gone)
       ELSE /\ app' = [app EXCEPT !.closing = TRUE, !.raised = TRUE]
            /\ UNCHANGED <<rec, ff, reaper, tk, stops, worker, posted>>
    /\ UNCHANGED <<pending, mishap>>

(* Mutant: a quit that was waiting for the stop sequence is forgotten. *)
StopCompleted_ForgetsQuit(ok) ==
    /\ TkIdle /\ posted # "none" /\ ok \in Publishes
    /\ IF ok /\ posted = "quit"
       THEN Vanish(Gone)
       ELSE /\ app' = [app EXCEPT !.stopping = FALSE, !.raised = @ \/ ~ok]
            /\ posted' = "none"
            /\ UNCHANGED <<rec, ff, reaper, tk, stops, worker>>
    /\ UNCHANGED <<pending, mishap>>

(* _on_stop_sequence_complete: in_progress, publish, and then the quit. *)
StopCompleted(ok) ==
    /\ TkIdle /\ posted # "none" /\ ok \in Publishes
    /\ IF ok /\ (posted = "quit" \/ app.quit)
       THEN Vanish(Gone)
       ELSE /\ app' = [app EXCEPT !.stopping = FALSE, !.raised = @ \/ ~ok]
            /\ posted' = "none"
            /\ UNCHANGED <<rec, ff, reaper, tk, stops, worker>>
    /\ UNCHANGED <<pending, mishap>>

Handler ==
    \/ PollEnds \/ CommandStarts \/ CommandStops \/ CommandRestarts
    \/ \E works \in BOOLEAN : StartSpawns(works)
    \/ RestartExecs \/ RestartRaises

Stopping(t) == StopForces(t) \/ StopGivesUp(t) \/ StopJoins(t) \/ StopJoined(t) \/ StopClears(t)

Next ==
    \/ \E n \in Takes, code \in {"ok", "bad"} : FfmpegEnds(n, code)
    \/ \E n \in Takes : Reap(n)
    \/ \E t \in {"tk", "worker"} : Stopping(t)
    \/ WorkerCalls \/ WorkerVerifies \/ WorkerEnds
    \/ \E b \in BOOLEAN : Boot(b)
    \/ \E c \in Commands : Send(c)
    \/ PollBegins \/ Crash
    \/ Handler
    \/ \E ok \in BOOLEAN : QuitEnds(ok) \/ StopCompleted(ok)
    \/ QuitWaits \/ QuitStops

(* Threads run; Tk serves its event queue in order, so a callback that is
   posted is not passed over for ever by polls and ticks. *)
Spec ==
    /\ Init /\ [][Next]_vars
    /\ \A n \in Takes : WF_vars(Reap(n))
    /\ \A t \in {"tk", "worker"} : WF_vars(Stopping(t))
    /\ WF_vars(WorkerCalls \/ WorkerVerifies \/ WorkerEnds) /\ WF_vars(Handler)
    /\ SF_vars(\E ok \in BOOLEAN : StopCompleted(ok))

(***************************************************************************)
(* Properties                                                              *)
(***************************************************************************)

TypeOK ==
    /\ app \in [phase : {"booting", "running", "gone"}, blocked : BOOLEAN, closing : BOOLEAN,
                quit : BOOLEAN, stopping : BOOLEAN, polls : BOOLEAN,
                raised : BOOLEAN, boots : 1 .. MaxBoots]
    /\ rec \in [proc : 0 .. MaxTakes, reaper : 0 .. MaxTakes, out : 0 .. MaxTakes, fault : 0 .. NoCapture]
    /\ ff \in [Takes -> {"none", "alive", "ok", "bad"}]
    /\ reaper \in [Takes -> {"none", "waiting", "done"}]
    /\ tk \in [pc : {"idle", "poll", "start", "restart"}, batch : 0 .. MaxPending]
    /\ stops \in [{"tk", "worker"} -> [pc : {"off", "wait", "join", "clear"},
                                       take : 0 .. MaxTakes, join : 0 .. MaxTakes]]
    /\ worker \in [pc : {"off", "call", "stop", "verify"}, quit : BOOLEAN, take : 0 .. MaxTakes]
    /\ posted \in {"none", "plain", "quit"}
    /\ pending \in Seq(Commands) /\ Len(pending) <= MaxPending
    /\ mishap \in [Takes -> {"none", "rushed", "unkilled", "orphaned"}]

(* Whatever commands arrive when, an ffmpeg that runs is the one the recorder
   refers to (so that stop, the published state and the window know of it).
   There are three ways to lose one and no other: it survived a kill, its
   operator was killed, or a start was accepted in the middle of a stop
   sequence, which clears the recorder without looking what is in it by then. *)
CaptureIsOwned == \A n \in Alive : n = rec.proc \/ mishap[n] # "none"

(* last_record_fault, which the scoreboard shows, is never about another take
   than the one being recorded: neither a late reaper nor the verification of
   the previous output, which takes seconds, writes into the next session,
   unless one of the two takes has met such a mishap. *)
FaultIsOwn ==
    Running => \/ rec.fault \in {NoTake, rec.proc}
               \/ mishap[rec.proc] # "none"
               \/ rec.fault \in Takes /\ mishap[rec.fault] # "none"

(* A quit, or a restart, is carried out, also when it arrives in the middle of
   a stop sequence (unless a publish of the state file raised on the way). *)
ClosingEnds == app.closing ~> (app.phase # "running" \/ app.raised)
=============================================================================
