# ReplayTrove: a verification project in TLA+

ReplayTrove records a court with an encoder, keeps long clips and instant
replays, processes and uploads them, and shows replays on a scoreboard.  It runs
unattended, is restarted by supervisors, loses its network, and shares folders
and small state files between processes that know nothing of each other.  That
is what these modules are about: what survives crashes, retries and
interleavings, and what does not.

Paths below are relative to `src/`.  `PROJECT.json` maps each definition to the
lines it models and lists components, runs, mutants, findings, hazards and
theorems.

## 1. The system

| Component | Code | State it keeps | Operations |
|---|---|---|---|
| Clip pipeline | `worker/processor.py`, `job_store.py`, `watcher.py`, `main.py` | folders; SQLite tables `clip_jobs` and `remote_sync_queue`; in memory: `_ACTIVE_PATHS`, the queue and its pending set, soft failures, cooldowns | `process_clip` and its steps; submit; the drain; the booking poll; startup scans; `jobs_cli.py` |
| Encoder watchdog | `encoder/encoder_watchdog.py` | its child, restart times, stale streak, recording guard | loop: exit code, ping, state file, kill, respawn |
| Encoder operator | `encoder/operator_long_only.py`, `encoder_state.py` | the ffmpeg of a take, health, the published state file, the cached ping payload | start, stop, tick, quit, commands |
| Connectivity | `worker/connectivity.py` | state, streak of probes | probe, apply, wait |
| Network retry | `worker/network_retry.py` | attempt counter | classify, back off |
| Remote services | `worker/uploader.py`, `database.py`, `pickle_planner.py` | S3 objects, database rows, bookings (outside) | upload, upsert, lookup |
| Replay promotion | `scripts/save_replay_and_trigger.ps1`, `worker/replay_trigger_http.py`, `replay_buffer_command.py` | the request lock, the promotion lock, `INSTANTREPLAY.mkv` | press, request, promotion, automatic sync |
| Ingest | `worker/ingest.py` | signatures and stable times of files | instant replay, trigger file, long clips |
| Replay controller | `scoreboard/scoreboard/replay_controller.py`, `mpv_ipc.py` | state of the replay window, generations of timers | start, stop, grace, fade |
| Scoreboard | `scoreboard/scoreboard/app.py` and overlays | one canvas item shared by slideshow, graphic and slate; the recording timer; the queue of booking graphics; the encoder strip | commands, idle check, encoder poll, booking poll and retry |
| OBS health | `scoreboard/scoreboard/obs_health.py`, `obs_restart.py` | failure counts, a restart in progress | probe, restart |
| Score store | `scoreboard/scoreboard/persistence/score_store.py` | the score file | load, save |
| Launcher | `launcher/*.ps1` | a lease, process table, intents | start, supervise, stop |
| Incident engine | `replaytrove_observability/` | open incidents, baselines | observe, open, resolve |
| Others | overlay server, control center, logging, scripts, cleaner | configuration, log files | pure I/O |

How they interact.  The operator writes recordings into the incoming folder,
directly or through ingest; the watcher and the startup scans submit paths to
the queue; worker threads run `process_clip` on them, side by side with the
drain, which retries deferred remote work, and the booking poll.  All of these
share the folders, the job store and the set of claimed paths.  The watchdog
sees the operator through an HTTP ping served from a cached payload and through
`encoder_state.json`.  The scoreboard reads the same file.  The replay button runs
a script that lets OBS save a replay, asks the worker over HTTP to promote it, and
then tells the scoreboard to show it; the promotion also feeds the pipeline's
incoming folder.  The scoreboard's replay controller plays the file the promotion
leaves, and when there is none asks for a restart of OBS through its status file.
Around it the scoreboard runs a slideshow, the recording timer that follows the
encoder's file, the graphics of a booking and the encoder strip, each with
callbacks of its own and none in charge of the others.
The launcher supervises worker, watchdog, OBS and scoreboard: it holds a lease,
reads that status file, and carries out the intents its UI leaves in a folder;
where the lease shows no supervisor, the UI and the scoreboard act themselves.

What is hard: threads that hold one clip under different paths as it moves
through the folders; jobs read before a semaphore and used after it; a crash
between a move and the transaction that records it; calls that fail after they
took effect; retries from three places (drain, poll, restart); verdicts drawn
from stale snapshots; timers that outlive the phase they were armed for; a stop
that takes seconds on its own thread while commands come in; programs that replace
themselves under their supervisor; a lease that is read and then written, and that
lapses while its owner waits.  The hazards are listed at their lines in `PROJECT.json`.

## 2. The modules

| Module | What it is |
|---|---|
| `ClipPipeline` | the clip pipeline, with the arrival of files, the network, crash and restart |
| `MCClipPipeline` | its instances for TLC |
| `ClipLedger` | the abstract specification `ClipPipeline` implements: what readers of the job store and the remote services are promised |
| `ClipPipeline_proofs` | its inductive invariant, and what holds of any recordings |
| `ClipFlight_proofs` | who owns which recording, and what rests on that; the refinement of `ClipLedger` |
| `EncoderWatchdog` | the watchdog, composed with the operator as far as the watchdog sees it; small enough to be its own instance |
| `EncoderWatchdog_proofs` | its inductive invariants and theorems |
| `ReplayPromotion` | the replay button, the worker's HTTP server, the promotion and the automatic sync, with OBS around them; its own instance |
| `ReplayPromotion_proofs` | its inductive invariant and theorems |
| `EncoderOperator` | the recorder, its reapers, the stop sequence, commands, quit and restart; its own instance |
| `EncoderOperator_proofs` | its inductive invariants and theorems |
| `ReplayController` | the replay slate, mpv, the timers, with what `app.py` hangs on them; its own instance |
| `ReplaySurface` | the abstract specification `ReplayController` implements: what the rest of the scoreboard sees of a replay |
| `Scoreboard` | commands, slideshow, recording timer, booking graphics and encoder strip, built on `ReplaySurface`; its own instance |
| `Scoreboard_proofs` | the inductive invariants and theorems of both, and the refinement |
| `Ingest` | both ingest threads with the writers of their sources; its own instance |
| `Ingest_proofs` | its inductive invariant and theorems |
| `Launcher`, `MCLauncher` | lease, bootstrap, intents, supervision, the UI, and the scoreboard as the launcher sees it |
| `Launcher_proofs` | its inductive invariants and theorems |

### ClipPipeline

A step is the code between two points at which another thread or a crash can be
seen: one SQLite transaction, one move, one critical section on the claimed
paths, one remote call.  The program counter `th[t].pc` names these points; the
other fields of `th[t]` are the locals of `process_clip` that outlive one:

| TLA+ | Code |
|---|---|
| `path`, `orig`, `sub` | `clip_path`, `original_input_path`, the path the queue handed out |
| `key`, `flags` | `idem`, and the `step_flags` of the job as it was read |
| `src` | the path a step in progress comes from or goes to |
| `started`, `slot` | `pipeline_upload_started`, `held_long_slot` |
| `disk` | the files in the four folders (`incoming`, `processing`, `processed`, `failed`) |
| `jobs`, `rows` | `clip_jobs` by fingerprint, `remote_sync_queue` |
| `remote` | per remote step, the objects the service has been told about |
| `claims` | `_ACTIVE_PATHS` |
| `queued`, `pending` | `ClipJobQueue._queue`, `ClipJobQueue._pending` |
| `cmd` | what the process of `jobs_cli.py retry-booking` has read and not yet written |

A path is whose recording it is, in which folder, under which kind of name (its
own, the UTC name, an mp4 made by the remux, and `mp4_2` when
`unique_destination` finds the name taken).  A fingerprint is the content and
whether it has been remuxed: the remux changes the bytes.  The steps of a job
are a set of flags, in the order `Before` gives them (a large clip may make its
preview after the upload of the original).

Each step of `process_clip` may succeed, be deferred (`DeferJob`, `DeferRow`), or
raise; a transient failure of a call may have taken effect (`Deferred`).
`clip_jobs.processing_path` is UNIQUE, so a transaction that would give a job
the path of another one raises (`Taken`); what the thread then does depends on
where it is: it returns, it fails the clip, or, when it has no job yet, it moves
the file to the failed folder with nothing recorded (`Orphaned`, `MoveOrphan`).

`Crash` ends the process at any point and forgets everything in memory;
`Restart` and `Scan` are `main()` and the two scans, which run after the worker
threads have started.  `retry-booking` is a process of its own: it reads the job
(`RetryReads`) and later writes back the flags it read without one of them
(`RetryBooking`), whatever threads have set in between, and a crash of the worker
does not stop it.

Abstractions: timestamps become nondeterministic choice (`MayExpire`,
`BookingFallsDue`, `CooldownEnds`); the sizes of files become `LargeFiles`; a
retry loop inside one call is one call; the thumbnail, which nothing reads, is
left out, as are duration probes, metadata and logging.  The
recently-completed cache only suppresses duplicate events of finished clips.

### EncoderWatchdog

One unit of time is one sleep of the loop; a tick that is alive publishes during
each.  `restarts` is a set of ages: a sleep lies between any two restarts, so no two
have one age.  `wd.pc` is the place in the loop; `GuardSuppresses`, `StaleVerdict` and
`RequiresRestart` are the functions of the same names.  `KillMayFail` and
`PublishMayFail` choose whether `taskkill` and `os.replace` may fail, `RestartOnZero` is
the setting.  The operator may also restart itself by `os.execv` (`OpRestart`,
`OpTakesOver`): the process the watchdog started ends with 0 and a new one lives on.
`op.kin` says what the operator that is up is to the watchdog: its child, the survivor
of a kill, or such a successor.  `takeSeen` and `spawns` are history that only
properties read.

### ReplayPromotion

Replays are numbered in the order OBS writes them, which is the order of their
modification times: 2 is newer than 1.  The clock appears only in comparisons
between a trigger and a modification time, so a trigger is the number of replays
finished when the button was pressed, and the tolerance is a number of replays.

| TLA+ | Code |
|---|---|
| `clip` | the replay files in `LONG_CLIPS_FOLDER`: not there, still growing, whole, deleted |
| `instant` | which replay `INSTANTREPLAY.mkv` holds |
| `placed` | copies put into the incoming folder, as an mp4 or by the mkv fallback |
| `script`, `press` | how far a run of the script is, and `$triggerUnix` |
| `busy`, `promo` | `ReplayTriggerHTTPServer.busy_lock`, `replay_promotion_lock` |
| `th[t].pick`, `.trig` | `selected` or `newest`, `trigger_ts` |
| `made`, `asks`, `own` | OBS: what it has begun, its accepted requests, which replay is whose |

The threads are one request per client and the automatic sync; the first goes
through `busy_lock` and scans down to its trigger, the second does neither; from
`Stable` on both run the same code.  `Show`, `Place`, `Check` and `Unlink` are the
phases of the promotion, each with its error exits, all of which `Leave` through
the lock's `with`.  The pipeline may take the copy away before it is verified:
that is one of the failures of `Check`.  An exception, answered with 500, is to the
script the same as a failure answered with 200.

A mishap is a failing call or an end of the worker.  `excuses` counts, per replay,
the promotions one of them cut short, and `shows` how often it was put on the
scoreboard; only properties read them.  Not modelled: `-SkipObsSave`, the trigger
file (part of ingest), parameters and tokens of the request.

### ClipLedger

An entry per idempotency key: not there, open, completed or failed; per remote
step, the clips the service was told of.  `Tell` may only happen after the steps
it depends on, `Complete` only after all that is required, and only the operator's
command opens a completed entry again.  Two actions are there because the code
needs them: `Fail` also of a completed entry (`try_begin_remote_sync_drain` gives
a job up without looking at its status, which a thread may just have completed)
and `Revive` (that same thread may defer a job given up meanwhile).
`ClipPipeline` names the mapping: `Ledger == INSTANCE ClipLedger WITH ...` reads the
entry from `jobs[k].status`, what was told from `remote`, and the commands from the
bound on them.

### EncoderOperator

One Tk thread, at most one stop-sequence worker, one reaper per ffmpeg.
`LongOnlyRecorder.stop` is the steps `CallStop`, `StopForces`, `StopJoins`, `StopJoined`,
`StopClears`, run by the Tk thread (inside a start or a restart) or by the worker,
and `stops[t]` is its locals in thread t: the process it waits for, and the reaper
it found when that process had ended.  A Tk handler runs to its end unless it is
in that call; `tk.pc` says which handler is, and `tk.batch` how many of the listed
command files are left.  The tick only publishes; it is in `EncoderWatchdog`.

| TLA+ | Code |
|---|---|
| `rec` | `LongOnlyRecorder`: `proc`, `_reaper_thread`, `output_path`, `last_record_fault` |
| `app.blocked`, `.closing`, `.quit`, `.stopping` | `_startup_blocked`, `_shutting_down`, `_quit_pending`, `_stop_sequence_in_progress` |
| `app.polls` | whether the `root.after` of `check_for_commands` is armed |
| `app.raised` | a publish has raised in this life (history) |
| `ff`, `reaper` | the ffmpeg processes; whether each one's reaper waits |
| `posted` | `root.after(0, _on_stop_sequence_complete)` of the worker |
| `pending` | `commands/encoder/pending` |

`os.execv` ends the threads and leaves the ffmpeg processes and the folder, and so
does a crash; the next incarnation boots with both.  `os.replace` may raise in any
publish (`PublishMayFail`), which ends the callback it is called in; the kill in
`stop` may fail, which `stop` passes over (`StopGivesUp`).  Commands come at any time,
in the middle of a stop sequence or of an end as well.  `mishap` is history: the
takes that survived their kill (`unkilled`), that ran on when their operator ended
(`orphaned`), or that were started while a stop sequence was under way, which the
window's own button does not allow and a command file does (`rushed`).  Left out:
widgets, ffmpeg arguments, archive folders.

### ReplayController

Everything runs on one Tk thread.  `jobs` are the callbacks `AfterScheduler` has
armed, and any of them may be the next to fire: no delay is assumed longer than
another.  `ui` is `_phase`, the flags beside it and what is on the canvas; an action
is one callback or one command, with all it cancels, arms and draws.  `GoIdle` is
`_apply_idle_scoreboard_state` with the callbacks of `app.py`, `Unavailable` is
`_handle_replay_unavailable`, `Restore` the recovery of the two watchdogs.  `mpv` holds
every process ever started, so that one nobody refers to any more is seen.  The
replay file is a modification time and whether it is young enough to be played.
An mpv that is told to end may take as long as it likes, for ever included: nothing
waits for it.
Left out: the commands sent through the mpv pipe, which change no state here.

### ReplaySurface and Scoreboard

`ReplaySurface` is a replay as the overlays see it: whether one is on
(`_replay_command_is_on`), whether its slate is drawn, the black screen that gives way
to it, and the loading strip after it.  `ReplayController` implements it
(`ImplementsSurface`), and `Scoreboard` extends it, so that the overlays are checked
against every replay there can be without its timers and processes.

| TLA+ | Code |
|---|---|
| `item` | what `overlay_canvas` shows: nothing, a slide, a booking graphic, the slate |
| `saver` | `Screensaver._active` |
| `rec` | `RecordingOverlay._state`: hidden, counting, the slate at the maximum, that at the end |
| `gate` | `_recording_obs_check_in_flight` |
| `capture`, `sees` | the encoder's file; `_encoder_sync_believes_recording` with its streaks |
| `booking` | `_booking_overlay_visible`, its hide job, `_booking_overlay_pending`, its retry job |
| `strip` | `EncoderStatusOverlay`: painted, on the screen, covered |

Delays are not modelled: any armed callback may be the next.  What a command
schedules at 0 ms is part of it.  The booking record and its state file become the
choice of what the poll asks for.  A missing, unreadable or stale encoder file is a
poll that changes nothing, and an unreadable image a graphic that is not shown; Tk's
own calls are taken not to raise.  Left out: the companion's page (section 6),
scores, the keyboard focus and its watchdog, the reload of settings, layout.

### Ingest

`long` and `ir` are the two threads with their locals; `states` is what
`_long_clips_scan_pass` remembers between passes, `last` is `last_promoted`, `trig` the
modification times of the trigger files and the ones seen.  `mode` holds the
settings, chosen initially in every combination.  A signature is a number that
grows with every write, and a copy read from two writes is torn.  Whether a writer has
the source open is asked once, while it settles (`Settles`); the copy begins
without another look.  A file under a
`.copying` name is one the process has moved or copied and not yet renamed.

### Launcher

| TLA+ | Code |
|---|---|
| `lease` | `supervision_owner_lease.json`; fresh is 20 s, alive is the process of its `pid` |
| `sup[l]` | the memory of an invocation of `start_apps.ps1`, and its place in the loop |
| `snapshot` | `supervision_desired_state.json` |
| `pending` | `launcher/intents/pending` |
| `status`, `age`, `saver`, `closing` | the scoreboard's status file, the age of its `updated_at`, and the scoreboard behind it |
| `procs`, `sick` | processes of each application; which of them run without answering |
| `ui` | what `launcher_ui.ps1` has stopped and is about to start |

One iteration is `Beat`, then each intent (`Applies`, `Looks`, `Acts`, `Moves`), then the
status file (`Watches`, `RestartsObs`, `SaverStays` or `SaverEnds`), then one `Tick...` per
application.  `Started` starts OBS for the scoreboard, as
`Start-ScoreboardForLauncher` does.  A crash or a release of the launcher may come
between any two steps, and another invocation may follow.  The lease may lapse at any
time under an invocation that lives: the waits for readiness take 90 to 120 s and
write no heartbeat, and the lease lives 20 s.  Then another invocation, the UI and
the scoreboard see no supervisor.  A start may fail, before or after the request for
it was acknowledged.  `wish` is history: what the operator last wanted stopped; so is
`split`: two invocations were active side by side.  Waiting times, optional applications and
what the launcher only reports are left out; the files it writes itself are taken to
be writable, and restarts of the scoreboard to be automatic, which is the default.

## 3. What is checked

All passing runs but `replay_screen` and `scoreboard` say `CHECK_DEADLOCK FALSE`: a pipeline whose
recordings have arrived comes to rest, and a watchdog, an operator or a launcher
that has ended has nothing left to do.  The scoreboard does not stop.

### Passing runs

| Run | Instance | Distinct states | Properties |
|---|---|---|---|
| `clip_safety` | one large, growing mp4, deferred preview, two workers (symmetric) and the drain, drain limit 1, expiring rows, stale flags; a crash, a fault, an outage, an operator command | 1,836,294 | `UniqueRow`, `SingleFlight`, `DeferredHasRetry`, `PendingIsHandled`, `NoneIsStranded`, `ImplementsLedger` |
| `clip_remux` | one mkv, two workers (symmetric) and the drain; a crash, a fault | 1,033,051 | `NeverLost`, `CompletedIsPublished`, `ToldInOrder` |
| `clip_contention` | two large clips, one slot, an outage, unmatched bookings; fair | 169,513 | `EventuallySettled` |
| `watchdog` | ping on; publishes and kills may fail, the operator may restart itself | 721,826 | `SpawnsBounded`, `NoOrphan`, `BlockedIsRestarted`, `FileVerdictSparesTake` |
| `replay` | two runs of the script and the sync, two replays, a mishap; fair | 493,693 | `NoReplayLost`, `PromotedOnce`, `ScoreboardFirst`, `RequestsEnd`, `EveryReplayArrives` |
| `operator` | two takes, two incarnations, one command file at a time; a crash; publishes and kills may fail; fair | 421,499 | `CaptureIsOwned`, `FaultIsOwn`, `ClosingEnds` |
| `replay_screen` | three plays of three replays, embedded or not; fair | 79,796 | `OnePlayer`, `IdleIsClean`, `BlackScreenReturns`, `ImplementsSurface`, `SlateLeadsOn` |
| `scoreboard` | timer by hand or by the encoder, a queue of two graphics; fair | 20,760 | `NoGhost`, `SaverYields`, `StripYields`, `TimerFollowsEncoder`, `GraphicsAreServed`, `TimerEnds` |
| `ingest` | one recording of two writes, an instant replay written twice, all four modes and both suffixes, a touch of each trigger, a fault, two lives; fair | 148,254 | `StraysAreAccounted`, `NoReplayTwice`, `EveryRecordingLeaves`, `EveryReplayArrives` |
| `launcher` | one invocation that may end and come again at any time, and whose lease may lapse, a scoreboard that dies, hangs, closes, asks; starts that fail; the operator stops OBS or restarts the encoder; two such events; one restart per window; fair | 576,535 | `OperatorStopHolds`, `KeptAlive`, `IntentsAreServed` |

Why these bounds.  One recording is enough for races about one clip: all
contention is over paths and rows of the same clip, and two workers, the drain
and a scan can all hold it at once.  Two recordings appear where two clips
meet, over the slot (`clip_contention`).  One crash reaches every pair of adjacent steps; a second
crash starts from a state the first one could have left.  `MaxSoft`, `MaxBooking`
and `MaxDrain` are 1 or 2, so that both sides of each limit occur.  In the
watchdog, the limits are the smallest at which short protection, blackout, stale
limit and window all differ; counters saturate where nothing tells them apart.
The two workers of `clip_safety` and `clip_remux` run the same code and nothing compares
them, so these runs treat them as symmetric; they check safety only.  In `replay`, two
replays are one that is overtaken and one that overtakes; three threads are
enough for one in the promotion, one with the same pick waiting, and one with
another pick; one mishap is a fault or a crash at every point of it.  In
`operator`, two takes are the one a late reaper or a verification belongs to and
the one it could disturb; two incarnations are one restart or crash; one command file
at a time comes in any order with the others, and only the several that one poll may
list are left out.  In `replay_screen`,
three plays are one being ended, one that plays and one that follows, and three
replays leave one newer than both the last and the pending one.  In `ingest`, two
writes are a copy torn by the next one; recordings are independent of each other,
as the threads handle them one at a time.  In `launcher`, two events are a fault
and a wish, or two faults against a budget of one restart; the end of a launcher
does not count, so it may happen any number of times.  In `scoreboard` only the
queue of graphics is bounded: two are one that is shown and one that waits for the
next retry.  The invariants and the safety action properties are also proved
without bounds, and type correctness only so (section 5).

Some properties hold of some instances only, and that is itself a result:

- `SingleFlight`, `UniqueRow`, `DeferredHasRetry`, `NoneIsStranded` and
  `ImplementsLedger` are checked for native mp4 files.  With an mkv they fail: the
  startup scan can give the remux target to a second worker, and a crash can leave
  both copies (section 4).  `NeverLost`, `CompletedIsPublished`, `ToldInOrder` and
  `PendingIsHandled` hold of any recordings.
- `SingleFlight`, `RowHasOriginal` and `DeferredHasRetry` fail for two files of
  one content: the files fight for one row, and `ensure_job_for_processing_file`
  rebinds it to the one while a thread works on the other.
- `EveryReplayArrives` of `Ingest` is about poll mode and `EveryRecordingLeaves` about
  periodic scans: in trigger mode nothing is tried again.

### Fairness

`FairSpec` assumes weak fairness of: the steps of each thread inside
`process_clip` (each is a plain thread, and calls have timeouts); the workers
together taking from a queue that is not empty; the drain, the poll, the wall
clock, the writers of files, the supervisor's restart and the scan; and the
return of the network.  Nothing is assumed of the order in which the queue
hands out paths, and nothing of any particular worker.  `EncoderWatchdog` assumes
only that the watchdog's own loop runs: the operator may stay in any condition
for ever.  In `ReplayPromotion`, requests and the sync are threads whose waits all
have deadlines, OBS finishes what it has begun, and the supervisor restarts the
worker; nothing is assumed of the scripts, of hotkeys, or of OBS beginning what it
has acknowledged.  The wait for the promotion lock has no deadline; no strong
fairness is assumed for it, since weak fairness suffices on the checked instance.

In `EncoderOperator`, the reapers, `stop` and the worker are threads whose waits have
deadlines, and a Tk handler that has begun ends.  Tk serves its queue in order, so
a posted callback is not passed over for ever by polls: strong fairness
of `StopCompleted`.  Nothing is assumed of commands, of ffmpeg, or of a crash.  In
`ReplayController`, a callback that stays armed fires; the two watchdogs exist in case
the others do not, so nothing is owed to them, and `SlateLeadsOn` holds without
their help.  In `Scoreboard` only the poll of the encoder's file goes on, which
reschedules itself whatever it has read; `TimerEnds` assumes with it that the file
stays usable, as an encoder that stops publishing leaves the timer to its maximum.
In `Ingest`, both threads run, the supervisor starts the worker again, a
writer closes its file, and the time of stability passes.  In `Launcher`, an
invocation that runs goes on, and backoffs and windows pass; nothing is assumed of
the operator, the scoreboard, faults, or of anybody starting a launcher.

## 4. Where the code departs from what it says

Each of these runs checks one statement the repository makes of itself, and TLC
finds a behaviour of the code that violates it.  `PROJECT.json` quotes the
statement.

| Run | What happens |
|---|---|
| `clip_soft_fail` | a clip "deferred for retry" after a soft decode failure is in nobody's queue |
| `launcher_pair` | two invocations find the lease free before either writes it: both bootstrap, and both supervise |

More came up while modelling.  They have no run of their own.  Where a property
is named, checking it on the named instance shows the behaviour; the others are
visible in the action that models the code.

In the clip pipeline:

- `UniqueRow` with `MkvFiles = {f1}` and a crash: between the remux and its record
  (`processor.py:1590`) both copies lie in the processing folder; the scan submits
  both, the mp4 has another fingerprint and gets a job and a row of its own.
  `database.py:73` says that "restarts never create duplicate rows".
- `Recoverable` with a crash: the file moves to the processed folder before the
  job is completed (`processor.py:2552`); in between a crash leaves the job in
  `processing` for ever.  `job_store.py:2` speaks of "restart-safe clip processing".
- `SingleFlight` with `MkvFiles = {f1}`, two workers, no crash: the remux target
  lies in the processing folder before anything claims it (`processor.py:1578`),
  and the startup scan, which runs after the workers start, submits it.
- With `MkvFiles = {f1}` and a startup scan that comes late, `RowHasOriginal` and
  `DeferredHasRetry` fail as well, and with two faults and an outage `NoneIsStranded`
  and `ImplementsLedger`: a second thread that was given the remuxed copy moves the
  file of an open job to the failed folder, or completes the clip while the first
  defers it, and `completed` falls back to `pending_remote_sync`.
- `retry-booking` writes back the flags it read (`jobs_cli.py:53`, `63`): a step a
  thread recorded in between is forgotten and done again (`RetryBooking`).
- `EventuallySettled` with `GrowingFiles = {f1}`: `submit` drops an event while
  the path is pending (`watcher.py:186`), and the readiness gate may already have
  given the file up (`processor.py:1414`).
- `RetryIsHonoured` with `MaxRetryCmds = 1`: `retry-booking` says that it "scheduled
  immediate booking retry" (`jobs_cli.py:64`), but of a finished clip it schedules
  an attempt no poll can make, as the path lies in the processed folder.

In the encoder and its watchdog:

- `FileOnlyModeWorks` with `PingEnabled = FALSE`: nothing has bound `ping` when the
  first unreadable file is judged (`encoder_watchdog.py:560`), and the watchdog ends
  by an exception; line 23 calls port 0 "file-only mode".
- `StaleIsRestarted`: every readable file resets the streak before its age is judged
  (`encoder_watchdog.py:536`), so a stale one never reaches a limit of two.
- `TakeEndsOnlyByOperator` on the instance of `watchdog`: a payload cached before
  a take began gets the take killed.
- `UnreadableTakeIsProtected` on the same instance: a take the watchdog has seen
  through the ping only is not protected when ping and file both fail.
- `FreshWhileRunning` on the same instance: one failing `os.replace` in the tick
  ends the publishing.
- An operator that restarts itself (`operator_long_only.py:1234`) ends with 0 as far as
  the watchdog can see, which then returns (`encoder_watchdog.py:462`): its successor
  runs with nobody to restart it.
- A kill that fails is passed over (`encoder_watchdog.py:509`), and the watchdog forgets
  the operator that survived it; the next child finds the mutex held, and with its
  exit code 86 the watchdog returns (`encoder_watchdog.py:466`).
- An operator whose tick has died still answers pings from the cached payload, and
  a healthy payload keeps the stale file from being judged: `BlockedIsRestarted`
  excepts a dead tick.
- The worker's `self.proc = None` at the end of `stop` forgets the ffmpeg that a start
  command has put there meanwhile (`operator_long_only.py:622`, `969`); a second
  capture can then run beside it.  It also forgets one that survived its kill
  (`operator_long_only.py:692`).  `CaptureIsOwned` excepts both by `mishap`.
- A command file polled after `on_quit` still starts a take (`operator_long_only.py:990`).
- The command file of a restart is still pending at `os.execv`
  (`operator_long_only.py:985`, `1234`), so the next incarnation restarts again.
- A publish that raises in `_on_stop_sequence_complete` or `on_quit` loses the quit;
  `ClosingEnds` excepts it.
- The verification of a take writes `last_record_fault` seconds after the take ended;
  when that one was started in the middle of the stop the fault is shown in its
  session (`FaultIsOwn` excepts it by `mishap`).

In replays:

- `ShownIsOwn` of `ReplayPromotion`: OBS acknowledges a save before it writes the
  file (`replay_buffer_command.py:145`); with another replay inside the tolerance,
  that one is promoted and shown.
- `EveryReplayArrives` with `AutoSync = FALSE`: the request promotes the newest
  replay only, so an older one that it overtook stays in `LONG_CLIPS_FOLDER`;
  the ingest of long clips skips the replay prefix.
- With the automatic sync on, `INSTANTREPLAY.mkv` goes back in time: the sync
  promotes the newest replay first and then the older ones it finds.
- The header of the script says that `/replay` "returns as soon as
  INSTANTREPLAY.mkv is ready" (`save_replay_and_trigger.ps1:20`); the answer comes
  after `Place`, `Check` and `Unlink`, and when one of the first two fails the
  scoreboard is not told of a replay that is ready.
- A toggle does not cancel the grace timer while the slate fades out, so the graphic
  and the request for a restart of OBS can still come up
  (`replay_controller.py:602`).
- A toggle while a notice lies over the scoreboard only takes the notice down: the
  script's request to show a replay is used up (`app.py:2626`).
- `ingest.py:143` says "retrying later", but in trigger mode the trigger's
  modification time is used up before the attempt and nothing retries.
- A replay saved while the worker was down is taken for old at its start.
- With scans by trigger, a long recording needs three touches: to be noted, to begin
  its time of stability, and to be moved.
- A `.copying` file left by a crash or by a failing rename is never looked at again
  (`ingest.py:477`).

In the launcher:

- Restarting the worker or the scoreboard starts a second process and does not end
  one that hangs (`start_apps.ps1:1121`, `1130`).
- The bootstrap starts all four applications whatever the desired states are; these
  are loaded afterwards, so what the operator stopped runs again.
- The scoreboard's next status, which carries no request, may overwrite a request for
  a restart of OBS before the launcher has read it (`replay_controller.py:833`).
- Acknowledging a request writes the status back as it was read: a goodbye of the
  scoreboard in between is lost, and the scoreboard started again.
- Whether the encoder takes is asked before it is stopped, and a take may begin in
  between (`Looks`, `Acts`).
- An intent that cannot be moved away, or whose launcher ends before it moves it,
  is carried out once more.
- A restart that the UI began to serve itself, while nobody supervised, ends in a start
  although a launcher that came meanwhile has carried out an older stop it found in
  the folder: `OperatorStopHolds` excepts the application of that click (`ui`).
- Starting the scoreboard waits up to 120 s for OBS without a heartbeat
  (`start_apps.ps1:1130`), and the lease lives 20 s (`start_apps.ps1:212`).  Meanwhile
  the scoreboard sees no supervisor and starts OBS against the operator's stop:
  `OperatorStopHolds` excepts OBS while the lease has lapsed.
- For the same reason another invocation may take the lease of one that lives, and
  both supervise, each with its own memory of what was stopped: `OperatorStopHolds`
  is about one supervisor (`split`).
- In the UI, "Restart Selected" under a supervisor leaves two intents, both to
  restart (`launcher_ui.ps1:322`, `609`).
- Without a supervisor, the UI's stops and starts do not touch the desired states,
  and its start does not look whether the application runs.

In the scoreboard:

- The timer that takes a booking graphic down clears the shared canvas item whoever
  drew on it last (`app.py:1200`): a replay that began while the graphic was up loses
  its slate, although a comment says "Never interrupt replay/mpv visual flow"
  (`app.py:1153`).
- The idle check does not ask whether a booking graphic is up, and a graphic the
  poll has asked for does not count as input: the slideshow begins over it, and ends
  when the graphic's timer fires (`app.py:2468`).
- A graphic that was queued for a replay is not recorded as shown, so the next poll
  asks for it again (`booking_overlay.py:126`).
- With `booking_overlay_suppress_during_replay` off, the retry only moves the head of
  the queue to its end, once a second, until the replay is over (`app.py:1181`).
- The retry does not look whether a graphic is up: of two that waited, the second
  replaces the first after one second.
- The answer of the probe after the lockout is told whatever has begun since
  (`app.py:2662`): the companion's page goes from "active" to "idle" during a replay,
  which the comment on the periodic probes says must not happen (`app.py:958`).  Each
  request to the companion is a thread of its own (`app.py:2716`), so the last one asked
  for need not be the last to arrive.  Seen in the code; no module has the page.
- A command file that can neither be moved nor removed is carried out again at the
  next poll (`app.py:488`).

## 5. What is proved

`ClipPipeline_proofs` proves, for any sets of recordings, contents and workers,
any limits and any number of crashes, faults and outages:

| Theorem | Statement |
|---|---|
| `TypeCorrect` | `Spec => []TypeOK` |
| `NoRecordingLost` | `Spec => []NeverLost`: no order of moves, remuxes, unlinks and crashes deletes the last copy of a recording |
| `Publication` | `Spec => []CompletedIsPublished`: a completed job has both its objects and its row |
| `InOrder` | `Spec => []ToldInOrder`: no service hears of a clip before those it comes after |
| `Invariant` | `Spec => []IInv`, from which the others follow |

`ClipFlight_proofs` proves, for any recordings as well:

| Theorem | Statement |
|---|---|
| `PendingIsServed` | `Spec => []PendingIsHandled`: no path is pending with nobody to serve it |

The other invariants of `clip_safety` hold of mp4 recordings of distinct content only
(`Plain`), which leaves out the mkv files the operator writes.  For those there is no
theorem, because there is nothing to prove: TLC finds each of them violated with an
mkv, and `SingleFlight`, `RowHasOriginal` and `DeferredHasRetry` with two files of one
content (section 4).
What the module proves of plain recordings, for any number of them, any workers and
any limits, it states as propositions: `OneThreadPerClip`, `OneRow`, `RowsAreBacked`,
`DeferredComesBack`, `NoneStranded` and `LedgerIsKept`.  Nor are the conditions in
`NoneIsStranded` a convenience: a crash, or a `retry-booking` of a completed clip, does
leave an open job without a file.

`ReplayPromotion_proofs` proves, for any sets of clients, any number of replays,
any tolerance and any number of mishaps, with the sync on or off:

| Theorem | Statement |
|---|---|
| `TypeCorrect` | `Spec => []TypeOK` |
| `NoLoss` | `Spec => []NoReplayLost`: a replay leaves `LONG_CLIPS_FOLDER` only with a copy in the incoming folder |
| `Once` | `Spec => []PromotedOnce`: every promotion of a replay but one has an excuse |
| `First` | `Spec => ScoreboardFirst`: a copy is placed only while `INSTANTREPLAY.mkv` holds that replay |
| `Invariant` | `Spec => []IInv`, from which the others follow |

`Launcher_proofs` proves, for any set of launchers and any bounds:

| Theorem | Statement |
|---|---|
| `TypeCorrect` | `Spec => []TypeOK`, which holds the restarts in a supervisor's memory to the budget |
| `StopsHold` | `Spec => OperatorStopHolds`: while one launcher supervises, its lease lapsed or not, nothing it does starts what the operator last wanted stopped, nor does one that took over after a crash; the UI does it for a click it serves itself, and the scoreboard, with OBS, while the lease has lapsed |

`Ingest_proofs` proves, for any set of recordings, any bounds and all settings:

| Theorem | Statement |
|---|---|
| `TypeCorrect` | `Spec => []TypeOK` |
| `EachReplayOnce` | `Spec => []NoReplayTwice`: no write of the instant replay becomes two clips |
| `StraysBounded` | `Spec => []StraysAreAccounted`: every recording under a `.copying` name has a failing rename or an end of the process to account for it |

`Scoreboard_proofs` proves, for any number of replays, of writes of the instant
replay and of waiting graphics:

| Theorem | Statement |
|---|---|
| `TypeCorrect` | `Spec => []TypeOK` |
| `OneAtATime` | `Spec => []OnePlayer`: the mpv that plays is the one the controller can stop |
| `NothingSurvives` | `Spec => []IdleIsClean`: no timer, no mpv and nothing on the screen outlives a session |
| `BlackScreenIsBack` | `Spec => []BlackScreenReturns`: the black screen is down while a replay is up, and back after it |
| `SurfaceRefined` | `Spec => ImplementsSurface`: every step of the controller is one of `ReplaySurface`, or none |
| `BoardTypeCorrect` | `BoardSpec => []BoardTypeOK` |
| `NoGhostStays` | `BoardSpec => []NoGhost`: what is on the canvas item belongs to a feature that is up and will clear it |
| `SaverAlwaysYields` | `BoardSpec => []SaverYields`: no slideshow under a replay or in the dark |
| `StripAlwaysYields` | `BoardSpec => []StripYields`: the strip is hidden exactly while a window or graphic covers it |
| `TimerIsTheEncoders` | `BoardSpec => []TimerFollowsEncoder`: in sync mode the timer counts only for a capture that is believed in |
| `GraphicsAlwaysServed` | `BoardSpec => []GraphicsAreServed`: a graphic is taken down, a queue is tried again |

`EncoderOperator_proofs` proves, for any number of takes, starts of the program
and pending commands:

| Theorem | Statement |
|---|---|
| `TypeCorrect` | `Spec => []TypeOK` |
| `NoStrayCapture` | `Spec => []CaptureIsOwned`: every ffmpeg that runs is the recorder's, unless it survived its kill or its operator or was started in the middle of a stop |
| `NoStrayFault` | `Spec => []FaultIsOwn`: the fault shown is that of an earlier take only if one of the two met such a mishap |

`EncoderWatchdog_proofs` proves, for any settings and limits:

| Theorem | Statement |
|---|---|
| `FileSparesTake` | `Spec => FileVerdictSparesTake`: a take the watchdog saw is safe from verdicts that rest on the file |
| `NoneLeftBehind` | `Spec => []NoOrphan`: an operator that is up once the watchdog is gone survived a kill or replaced itself |
| `SpawnLimit` | `Spec => []SpawnsBounded`: no window sees more spawns than the limit of restarts |
| `TypeCorrect` | `Spec => []TypeOK` |

The only assumption about the clip pipeline is `PipelineAssumption` of `ClipPipeline`: the constants have
their types, the drain is not a worker, `None` is neither a path nor a key, and
the limits `MaxSoft` and `MaxBooking` are positive; about replays it is
`PromotionAssumption`: the sync is not a client, `Nobody` is neither, bounds are
natural numbers; about launchers and ingest it is `LauncherAssumption` and
`IngestAssumption`, again that the constants have their types and `None` is none of
them.  `ReplayAssumption`, `BoardAssumption`, `OperatorAssumption` and
`WatchdogAssumption` say only that settings are Booleans or natural numbers and that
the bounds of the first three and the watchdog's limits are positive.  The runs of a module evaluate its
assumption.

The argument for the clip pipeline.  None of `CompletedIsPublished`, `NeverLost` and
`ToldInOrder` is inductive.  `CompletedIsPublished` needs to know why a thread at
`final_rec` may complete its job: `backed[k]` is the steps of publication that some
service was told of under key k, and every flag of such a step that a thread
(`HoldsFlags`), a job (`FlagsAreBacked`) or the retry command (`CmdIsBacked`) holds is in
it; so is all of a completed job (`CompletedIsBacked`).  The flags of a thread need
not be flags of its job: the command's stale write drops what was set since it
read, and no service unsays what it was told.  `ToldInOrder` follows: a thread calls a
service only with the flags of those it comes after, and these are backed
(`CallsInOrder`).  `NeverLost` needs to know why the unlink after a remux is
safe: the thread's source is not itself a remuxed file, and a remuxed copy of
the same recording lies somewhere (`HasCopy`).  Both need `HoldsPaths` and
`HoldsKey`: what each program counter holds, and that the job of a key a thread
has still exists, which also covers the rows (`RowHasJob`).

What another thread may do to all this is condensed into `StepEffects`: no job
vanishes, nothing remote is unsaid, a file
stays, moves, or leaves a copy behind that is remuxed if it was, and the
locals of the others are untouched.  `Effects` shows this of every step,
`OthersKeep` that it preserves what the other threads hold, `ThreadKeeps` that the
thread itself has what its next counter asks for, `StoreKeeps` that the tables
stay backed, `TypeStep` the types; `StepKeeps` puts them together.  The remaining
actions (arrival, queue, drain, poll, command, crash, restart) have a lemma each.

The argument for one owner.  The code claims paths, and a clip has three: the one it
arrived at, the one in the processing folder, and that with the UTC name.  `DiskInv`
says that there is one copy of a plain recording, `JobInv` and `RowInv` that jobs and
queue rows name paths of their own clip, and `PlaceInv` where its file cannot be any
more once a thread has moved it.  `ClaimInv` says that a thread has claimed the UTC name
it works under, and the path in the processing folder it came with; the second may be
unclaimed when another thread with the same path has let go of the claim, but then
that path is pending with the thread itself, so that the queue does not offer it again
(`PoolInv`), and it has no UTC name, so that no row offers it to the drain (`RowInv`).
`UnclaimedFree` draws the conclusion.  `PairInv` puts it together: of two threads with one
recording at most one is an owner, and the other is on its way out.  From
there the argument is about one thread at a time.  A step of an owner is one of
`FindsJob`, `TakesJob`, `ReadsJob` and `WritesJob` (`Works`), or a move; the lemmas of each part
take up these few forms and not the actions.  `RemoteInv` says that everything told of
a clip goes by one name and that a row has its original; `WayInv` that a deferred job
has its file and, as long as its row is not written, its owner; `RecInv` that an
open job has its file unless its owner has just moved it away.  `CmdInv` says of the
retry command that it does not take back a rename: what it read as renamed still
is.  For the ledger each
step of the program maps to one of the ledger or to none: what a job may become is
read off the same four forms.

The argument for the promotion.  A pick is chosen without a lock and may be gone
by the time its thread has it, so nothing is claimed of it before `Show`.  From
there to `Unlink`, `ThreadInv` says that the thread has the lock, that
`INSTANTREPLAY.mkv` holds its pick and that the source is whole.  `ReplayInv` is the
account of each replay: between promotions every showing of one that is still in
the folder has an excuse, and one in promotion, or deleted, may have one more.
A step either touches nothing of this (`QuietKeeps`), is a step of a thread outside
the promotion (`OutsideKeeps`), adds or finishes a file (`ObsStep`), or is one of
the holder, for which `Alone` and `HolderKeeps` leave its own thread and its own
pick to be looked at.  That OBS writes within the bound and in order (`InOrder`)
gives the types.

The argument for the launcher.  The lease is read by one step and written by a
later one, nothing locks it, and it lapses under an invocation that waits, so it says
nothing of who supervises.  `split` does: a step that marks no second invocation leaves
at most one active (`LoneNext`), since only a claim adds one, one that goes on adds
none (`StepGoesOn`, `GoesOnKeeps`) and one that ends takes nobody else's place
(`EndKeeps`).  While there is one, what it holds to be stopped is what the file of
desired states says (`Remembers`), and that contains the operator's stops from the
moment a bootstrap has loaded it (`HoldInv`).  Every start the launcher makes looks
there, and the restart of an intent writes the file first; what it has read but not
yet acted upon no longer wants a stop.  What remains are the starts nobody in
supervision makes, and `Held` names them: the click the UI serves, and OBS by a
scoreboard that sees a lapsed lease.  The run `launcher_pair` finds the second
supervisor.  The types need `Sound`, by which an intent in work is one of those counted
at the heartbeat.

The argument for ingest.  `NoReplayTwice` is not inductive: it must be known that
what is being copied was not copied before.  `ReplayInv` says that every clip's
signature is at most the source's, that a source which is there and was copied is
the last one known while the worker runs, and that what is being copied is newer
than every clip.  `CopyKeeps` uses it the other way round: a source that is not the
last one known was never copied.  A restart forgets `last` and takes what lies
there for old, and a source that went away and came back was written anew; both
keep `ReplayInv`.  For the strays, `LongOK` says that the thread holds a recording only
between the move and the rename, so that an end or a failing rename
(`EndsKeeps`, `PublishKeeps`) strands at most that one.

The argument for the replay controller.  Nothing counts the timers that are armed;
what makes the invariants hold is `PhaseInv`, which says what each phase has armed:
while the slate fades in, the fade and its end and nothing else; from then to the
end of the session the slate counts as showing; an mpv is known only to an active
replay.  So a callback that fires meets a phase it was armed for.  Three lemmas
carry most of the actions: one for steps that touch nothing of a session, one for
the return to idle, from wherever it is called, and one for steps that stay in
the session.

`SurfaceRefined` follows from the same invariant: a session is on exactly outside
`idle`, so `GoIdleEnds` maps every return to idle to `Ends` or
to nothing, `SessionGoesOn` maps what stays inside a session, and the fade that begins
one is the only `Begins`.

The argument for the scoreboard.  `BoardInv` has a part per feature, and a callback that
disturbs none of a part leaves it (`PartsStay`).  The types need `RetryHasGraphic`: a
retry that shows the head of the queue was armed by a graphic that is there, or the
queue would be counted below zero.  `TimerFollowsEncoder` needs `GateIsOperators`: in
sync mode no check by hand is out, whose answer could start the timer.  The others
are inductive with the types, and are proved for the few pieces that all callbacks
are made of (`UnderIsClean`, `DrawsIsClean`, `CoverIsKept`, `GraphicKeeps`).

The argument for the operator.  `TakeInv` says that whatever runs, or is waited
for by a reaper, is the recorder's take, for every take that is `Clean`, that is, met no
mishap.  It breaks unless a thread in `LongOnlyRecorder.stop`, which lets go of the
lock, knows that nobody has put another clean take in its place, and that its own,
if clean, has ended and been reaped when it empties the recorder (`StopInv`); and
unless the recorder is empty once the thread is out of it (`ThreadInv`), where the
worker may find a rushed take, which then is not clean.  A start that is not rushed
waits alone: a stop sequence under way is what makes a start rushed, from the command
that begins it to the callback that ends it.

The argument for the watchdog.  `SeenInv` ties the locals of its loop to the
history variable `takeSeen`: the guard's memory of a take lasts as long as that of
an observer.  `ChildInv` says that an operator which was neither left by a failing kill nor
put itself in the place of another is the child the watchdog knows (`ChildUp`), and that
a watchdog which is gone has none: the `finally` block kills it, or makes a survivor of
it.  The limit is one of restarts, and what counts is
spawns: `Booked` compares them for every age, as every spawn but the child's was followed
by a restart that leaves the window no earlier, `Budget` keeps the restarts and the child
within the limit, and `Apart` puts a sleep between any two, without which a set
of ages would lose count.

Only model-checked: what rests on fairness, which is out of the prover's reach
(`EventuallySettled`, `BlockedIsRestarted`, `RequestsEnd`, both `EveryReplayArrives`, `ClosingEnds`,
`SlateLeadsOn`, `TimerEnds`, `EveryRecordingLeaves`, `KeptAlive`, `IntentsAreServed`).  Every
other property of the passing runs is stated by a theorem, but for `UniqueRow`,
`SingleFlight`, `DeferredHasRetry`, `NoneIsStranded` and `ImplementsLedger`, which hold of
plain recordings only and are stated by propositions.
The other way round, `TypeOK` of each module and `RowHasOriginal` are proved, and no
run spends its time on them.

## 6. Not modelled, and why

- Network retry: the attempt loop and its backoff are one call to every caller, and
  that is how `ClipPipeline` takes it; the classification is a table of exceptions.
- The debounce of the connectivity monitor: one thread counts probes; what others
  see of it, up or down at any time, is in `ClipPipeline`.
- Worker status and configuration, logging, the overlay server, the control
  center: they report, parse, serve and edit files on request, and no other part
  waits for them.
- The score store: one process writes and reads one small file.
- The incident engine: a report over log lines, computed when it is asked for; it
  feeds back into nothing.
- The probe of OBS's health: its verdict is the operator's or the launcher's to act
  on; what follows, the restart, is in `Launcher`.
- The scoreboard's scores, focus watchdog and layout: one thread that draws.
- The mpv pipe (pan, zoom, seek): commands that change no state of the controller.
- The companion's button page: each request is sent by a thread of its own and nobody
  asks what arrived, so no order of pages can be promised, and nothing else in the
  scoreboard depends on it (section 4).
- Scripts and the cleaner: run by hand or by a schedule.

What is left worth doing:

1. `Recoverable` for two files of one content, which `Plain` leaves out: an invariant of two
   recordings that take turns at one job.  No run keeps it.
2. A promotion that is one atomic step, which `ReplayPromotion` implements while
   nothing fails.
3. A composition of `Ingest` with the arrival of files in `ClipPipeline`; each is
   checked against the other's most general behaviour today.
