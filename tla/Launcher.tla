------------------------------ MODULE Launcher ------------------------------
(***************************************************************************)
(* launcher/start_apps.ps1: the lease that makes a launcher the supervisor,*)
(* the start of the four applications, the operator's intents, the watch   *)
(* on the scoreboard's status file and the restarts of the supervision;    *)
(* launcher_ui.ps1, which leaves the intents or, seeing no supervisor, acts*)
(* itself.  Beside them the scoreboard as far as it talks to the launcher: *)
(* its status file (app.py, replay_controller.py) and the restart of OBS   *)
(* it does when it sees no supervisor (launcher_obs_restart.py).           *)
(*                                                                         *)
(* The files the launcher writes itself are taken to be writable, and the  *)
(* scoreboard to be restarted automatically (a setting, on by default).    *)
(***************************************************************************)
EXTENDS Integers, Sequences

CONSTANTS
    Launchers,      \* the invocations of start_apps.ps1 that may overlap
    Faulty,         \* bound: the applications that may die or hang
    Intents,        \* bound: the intents the operator may leave
    MaxRestarts,    \* SupervisionMaxRestartsPerWindow
    MaxProcs,       \* bound: processes of one application
    MaxEvents       \* bound: what happens from outside, ends of launchers aside

Apps == {"worker", "encoder_watchdog", "obs", "scoreboard"}
BootOrder == <<"worker", "encoder_watchdog", "obs", "scoreboard">>

Verbs == {"start", "stop", "restart"}

ASSUME LauncherAssumption ==
    /\ Faulty \subseteq Apps /\ Intents \subseteq [act : Verbs, app : Apps]
    /\ {MaxRestarts, MaxProcs, MaxEvents} \subseteq Nat \ {0}

(* The status file: scoreboard_running, screensaver_active, and which request
   for a restart of OBS it carries (0: none). *)
Statuses == [up : BOOLEAN, saver : BOOLEAN, req : 0..MaxEvents]
Absent == [up |-> FALSE, saver |-> FALSE, req |-> 0]

(* What a launcher keeps in memory: at is its place in a list of applications,
   left the intents of this iteration, job the one it is at. *)
NoJob == [act |-> "none", app |-> "none"]
Off == [pc |-> "off", at |-> 1, stopped |-> {}, left |-> 0, job |-> NoJob,
        strikes |-> [a \in Apps |-> 0], tries |-> [a \in Apps |-> 0], cooling |-> {},
        seen |-> Absent, asked |-> FALSE, key |-> 0, saver |-> "unknown", spare |-> FALSE]
LoopPCs == {"beat", "intents", "look", "act", "move", "reobs", "saver", "tick"}

VARIABLES
    lease,      \* supervision_owner_lease.json: owner, whether it lives, fresh, released
    sup,        \* the launchers
    snapshot,   \* supervision_desired_state.json: what is to be stopped (the
                \* operator_hold beside it is only reported)
    pending,    \* launcher/intents/pending, oldest first
    procs,      \* processes of each application
    sick,       \* applications that run and do not answer
    status,     \* the scoreboard's status file
    age,        \* of its updated_at: within 60 s, within 180 s, or older
    saver,      \* the screensaver is on
    closing,    \* the scoreboard has said goodbye and its process is about to end
    ui,         \* what launcher_ui.ps1 has stopped and is about to start, or "idle"
    wish,       \* what the operator last wanted a launcher to stop (auxiliary)
    split,      \* two launchers have been active side by side (auxiliary)
    events      \* events so far

files == <<lease, snapshot, pending>>
apps == <<procs, sick>>
board == <<status, age, saver, closing>>
vars == <<lease, sup, snapshot, pending, procs, sick, status, age, saver, closing,
          ui, wish, split, events>>

Init ==
    /\ lease = [owner |-> "nobody", alive |-> FALSE, fresh |-> FALSE, released |-> FALSE]
    /\ sup = [l \in Launchers |-> Off]
    /\ snapshot = {}
    /\ pending = <<>>
    /\ procs = [a \in Apps |-> 0] /\ sick = {}
    /\ status = Absent /\ age = "old"
    /\ saver = FALSE /\ closing = FALSE
    /\ ui = "idle" /\ wish = {} /\ split = FALSE /\ events = 0

Event == events < MaxEvents /\ events' = events + 1
At(l, pc) == sup[l].pc = pc
Goes(l, pc) == sup' = [sup EXCEPT ![l].pc = pc, ![l].at = 1]
Active(l) == sup[l].pc \notin {"off", "claim"}
Living == {l \in Launchers : sup[l].pc # "off"}
Supervising == {l \in Launchers : sup[l].pc \in LoopPCs}

(***************************************************************************)
(* Processes                                                               *)
(***************************************************************************)

OneMore(ps, a) == [ps EXCEPT ![a] = IF @ < MaxProcs THEN @ + 1 ELSE @]

(* OBS and the watchdog are started only when they do not run; the worker and
   the scoreboard always are, whatever made the caller want them started. *)
StartOne(ps, a) ==
    IF a \in {"obs", "encoder_watchdog"} /\ ps[a] > 0 THEN ps ELSE OneMore(ps, a)

(* Mutant: OBS is started for the scoreboard whatever the operator wants. *)
Started_ForcesObs(ps, a, stopped) ==
    IF a = "scoreboard" THEN StartOne(StartOne(ps, "obs"), a) ELSE StartOne(ps, a)

(* Start-ScoreboardForLauncher first sees to it that OBS runs. *)
Started(ps, a, stopped) ==
    IF a = "scoreboard" /\ "obs" \notin stopped
    THEN StartOne(StartOne(ps, "obs"), a)
    ELSE StartOne(ps, a)

(* What is new answers; what has gone no longer hangs. *)
Changed(ps) ==
    /\ procs' = ps
    /\ sick' = {a \in sick : ps[a] = procs[a]}

(* The processes are those of ps, with the applications in killed ended before. *)
Without(killed) == [a \in Apps |-> IF a \in killed THEN 0 ELSE procs[a]]
Handled(ps, killed) ==
    /\ procs' = ps
    /\ sick' = {a \in sick : ps[a] = procs[a]} \ killed
    /\ closing' = (closing /\ "scoreboard" \notin killed)
    /\ saver' = (saver /\ "scoreboard" \notin killed)

(***************************************************************************)
(* The lease                                                               *)
(***************************************************************************)

Written(l, released) == [owner |-> l, alive |-> TRUE, fresh |-> TRUE, released |-> released]

(* Somebody starts start_apps.ps1, and Try-ClaimOwnerLease reads the lease:
   with a fresh one whose process lives, the launcher exits ... *)
Reads(l) ==
    /\ At(l, "off")
    /\ sup' = IF lease.fresh /\ lease.alive THEN sup ELSE [sup EXCEPT ![l].pc = "claim"]
    /\ UNCHANGED <<files, apps, board, ui, wish, split, events>>

(* ... and otherwise it writes its own, without a second look. *)
Claims(l) ==
    /\ At(l, "claim")
    /\ lease' = Written(l, FALSE)
    /\ Goes(l, "boot")
    /\ split' = (split \/ \E m \in Launchers : Active(m))
    /\ UNCHANGED <<snapshot, pending, apps, board, ui, wish, events>>

(* 20 s without a heartbeat.  The bootstrap writes none, and neither does an
   iteration that waits for OBS, for up to two minutes. *)
LeaseAges ==
    /\ lease.fresh
    /\ lease' = [lease EXCEPT !.fresh = FALSE]
    /\ UNCHANGED <<sup, snapshot, pending, apps, board, ui, wish, split, events>>

(* The process of launcher l ends. *)
Ends(l, leased) ==
    /\ sup' = [sup EXCEPT ![l] = Off]
    /\ lease' = IF leased.owner = l THEN [leased EXCEPT !.alive = FALSE] ELSE leased

Crash(l) ==
    /\ l \in Living
    /\ Ends(l, lease)
    /\ UNCHANGED <<snapshot, pending, apps, board, ui, wish, split, events>>

(* The finally block of the loop: the lease is marked released. *)
Release(l) ==
    /\ l \in Supervising
    /\ Ends(l, Written(l, TRUE))
    /\ UNCHANGED <<snapshot, pending, apps, board, ui, wish, split, events>>

(***************************************************************************)
(* The bootstrap                                                           *)
(***************************************************************************)

(* The applications are started in order, running or not, each after those
   before it were seen or waited for in vain. *)
Boots(l) ==
    /\ At(l, "boot")
    /\ Changed(OneMore(procs, BootOrder[sup[l].at]))
    /\ IF sup[l].at < 4 THEN sup' = [sup EXCEPT ![l].at = @ + 1] ELSE Goes(l, "validate")
    /\ UNCHANGED <<files, board, ui, wish, split, events>>

(* Merge-SupervisionDesiredStateFromSnapshot; without a file all are to run. *)
Rehydrated(memory) == [memory EXCEPT !.stopped = snapshot]

(* With one of them missing the launcher gives up (validation_failed is not
   among the reasons the scoreboard takes for a release); otherwise it loads
   the desired states and begins to supervise. *)
Validates(l) ==
    /\ At(l, "validate")
    /\ IF \E a \in Apps : procs[a] = 0
       THEN Ends(l, Written(l, FALSE))
       ELSE /\ sup' = [sup EXCEPT ![l] = [Rehydrated(@) EXCEPT !.pc = "beat"]]
            /\ UNCHANGED lease
    /\ UNCHANGED <<snapshot, pending, apps, board, ui, wish, split, events>>

(***************************************************************************)
(* The loop: heartbeat and intents                                         *)
(***************************************************************************)

(* The intents that are there now are this iteration's. *)
Beat(l) ==
    /\ At(l, "beat")
    /\ lease' = Written(l, FALSE)
    /\ sup' = [sup EXCEPT ![l].pc = "intents", ![l].at = 1, ![l].left = Len(pending)]
    /\ UNCHANGED <<snapshot, pending, apps, board, ui, wish, split, events>>

(* Set-DesiredState writes the snapshot when the state changed. *)
Wants(l, stopped, pc) ==
    /\ sup' = [sup EXCEPT ![l].stopped = stopped, ![l].pc = pc, ![l].job = Head(pending)]
    /\ snapshot' = IF stopped # sup[l].stopped THEN stopped ELSE snapshot

(* An intent is read and what it wants is noted; what is so already is left. *)
Applies(l) ==
    /\ At(l, "intents") /\ sup[l].left > 0 /\ pending # <<>>
    /\ LET a == Head(pending).app
           act == Head(pending).act
           stop == act = "stop"
           idle == IF stop THEN procs[a] = 0 ELSE act = "start" /\ procs[a] > 0
           next == CASE idle                                          -> "move"
                     [] ~idle /\ a = "encoder_watchdog" /\ act # "start" -> "look"
                     [] OTHER                                         -> "act"
       IN  /\ Wants(l, IF stop THEN sup[l].stopped \cup {a} ELSE sup[l].stopped \ {a}, next)
           /\ wish' = IF stop THEN wish \cup {a} ELSE wish \ {a}
    /\ UNCHANGED <<lease, pending, apps, board, ui, split, events>>

(* Test-EncoderLongRecordingActive: with a take, the encoder is spared.  Whether
   there is one is the encoder's affair: either answer is possible. *)
Looks(l) ==
    /\ At(l, "look")
    /\ \E spare \in BOOLEAN : sup' = [sup EXCEPT ![l].spare = spare, ![l].pc = "act"]
    /\ UNCHANGED <<files, apps, board, ui, wish, split, events>>

(* The stop and the start; a take that has begun since Looks is not spared. *)
Acts(l) ==
    /\ At(l, "act")
    /\ LET a == sup[l].job.app
           act == sup[l].job.act
           killed == IF act # "start" /\ ~sup[l].spare THEN {a} ELSE {}
           left == Without(killed)
       IN  Handled(IF act = "stop" THEN left ELSE Started(left, a, sup[l].stopped), killed)
    /\ sup' = [sup EXCEPT ![l].pc = "move", ![l].spare = FALSE]
    /\ UNCHANGED <<files, status, age, ui, wish, split, events>>

(* Mutant: when there was nothing to do, the file is left where it is. *)
Moves_NotTheNeedless(l) ==
    /\ At(l, "move")
    /\ IF sup[l].job.act = "stop" /\ procs[sup[l].job.app] = 0
       THEN UNCHANGED pending
       ELSE pending' = Tail(pending)
    /\ sup' = [sup EXCEPT ![l].pc = "intents", ![l].left = @ - 1, ![l].job = NoJob]
    /\ UNCHANGED <<lease, snapshot, apps, board, ui, wish, split, events>>

(* The file leaves the folder only now; when it cannot, the iteration is given
   up and the intent is applied once more in the next one. *)
Moves(l) ==
    /\ At(l, "move")
    /\ \/ /\ pending # <<>>
          /\ pending' = Tail(pending)
          /\ sup' = [sup EXCEPT ![l].pc = "intents", ![l].left = @ - 1, ![l].job = NoJob]
          /\ UNCHANGED events
       \/ /\ Event /\ UNCHANGED pending
          /\ sup' = [sup EXCEPT ![l].pc = "beat", ![l].left = 0, ![l].job = NoJob]
    /\ UNCHANGED <<lease, snapshot, apps, board, ui, wish, split>>

(***************************************************************************)
(* The loop: the scoreboard's status                                       *)
(***************************************************************************)

OneOlder == IF age = "fresh" THEN "stale" ELSE "old"

(* With no intent left, Invoke-ScoreboardStatusWatchTick: a request is served
   on its edge, or when it is another one than the last served; OBS is stopped
   at once. *)
Watches(l) ==
    /\ At(l, "intents") /\ (sup[l].left = 0 \/ pending = <<>>)
    /\ IF age # "fresh"
       THEN Goes(l, "tick") /\ UNCHANGED apps
       ELSE LET new == status.req # 0 /\ (~sup[l].asked \/ status.req # sup[l].key)
            IN  /\ sup' = [sup EXCEPT ![l].seen = status, ![l].asked = status.req # 0,
                               ![l].pc = IF new THEN "reobs" ELSE "saver"]
                /\ IF new THEN Changed([procs EXCEPT !["obs"] = 0]) ELSE UNCHANGED apps
    /\ UNCHANGED <<files, board, ui, wish, split, events>>

(* OBS is started again, unless it is to be stopped, and the request is
   acknowledged: the file is written back as it was read, without it, and as
   old as it was or older. *)
Acknowledges(l) ==
    /\ Changed(IF "obs" \in sup[l].stopped THEN procs ELSE StartOne(procs, "obs"))
    /\ status' = [sup[l].seen EXCEPT !.req = 0]
    /\ age' \in {age, OneOlder}
    /\ sup' = [sup EXCEPT ![l].pc = "saver", ![l].key = sup[l].seen.req]
    /\ UNCHANGED events

(* When the start raises, the iteration is given up, and the request is there
   for the next one. *)
FailsToStart(l) ==
    /\ Event /\ "obs" \notin sup[l].stopped
    /\ sup' = [sup EXCEPT ![l].pc = "beat", ![l].seen = Absent, ![l].asked = FALSE]
    /\ UNCHANGED <<apps, status, age>>

RestartsObs(l) ==
    /\ At(l, "reobs")
    /\ Acknowledges(l) \/ FailsToStart(l)
    /\ UNCHANGED <<files, saver, closing, ui, wish, split>>

Seen(l) == IF sup[l].seen.saver THEN "on" ELSE "off"

(* No edge of the screensaver, or into it. *)
SaverStays(l) ==
    /\ At(l, "saver") /\ ~(sup[l].saver = "on" /\ Seen(l) = "off")
    /\ sup' = [sup EXCEPT ![l].pc = "tick", ![l].saver = Seen(l), ![l].seen = Absent]
    /\ UNCHANGED <<files, apps, board, ui, wish, split, events>>

(* The screensaver has ended: OBS and the encoder are wanted, and started. *)
SaverEnds(l) ==
    /\ At(l, "saver") /\ sup[l].saver = "on" /\ Seen(l) = "off"
    /\ LET both == {"encoder_watchdog", "obs"}
           stopped == sup[l].stopped \ both
       IN  /\ sup' = [sup EXCEPT ![l].pc = "tick", ![l].saver = "off", ![l].seen = Absent,
                                 ![l].stopped = stopped]
           /\ snapshot' = stopped
           /\ wish' = wish \ both
    /\ Changed(StartOne(StartOne(procs, "encoder_watchdog"), "obs"))
    /\ UNCHANGED <<lease, pending, board, ui, split, events>>

(***************************************************************************)
(* The loop: Invoke-SupervisionTick, one application at a time             *)
(***************************************************************************)

Healthy(a) ==
    /\ procs[a] > 0 /\ a \notin sick
    /\ a = "scoreboard" => status.up /\ age = "fresh"
StoppedCleanly(a) == a = "scoreboard" /\ procs[a] = 0 /\ ~status.up /\ age # "old"

(* Two strikes are needed against what runs, none against what does not. *)
Strikes(l, a) ==
    IF Healthy(a) \/ procs[a] = 0 THEN 0
    ELSE IF sup[l].strikes[a] < 2 THEN sup[l].strikes[a] + 1 ELSE 2

(* On to the next application, or to the next iteration. *)
Onward(l, m) ==
    sup' = [sup EXCEPT ![l] = IF m.at < 4 THEN [m EXCEPT !.at = @ + 1]
                              ELSE [m EXCEPT !.at = 1, !.pc = "beat"]]
Struck(l, a) == [sup[l] EXCEPT !.strikes[a] = Strikes(l, a)]

(* Nothing to do, nothing allowed, or not yet. *)
LeavesAlone(l, a) ==
    \/ Healthy(a)
    \/ a \in sup[l].stopped
    \/ procs[a] > 0 /\ Strikes(l, a) < 2
    \/ sup[l].tries[a] = MaxRestarts
    \/ a \in sup[l].cooling

TickLeaves(l) ==
    /\ At(l, "tick")
    /\ LET a == BootOrder[sup[l].at]
       IN  /\ ~StoppedCleanly(a) /\ LeavesAlone(l, a)
           /\ Onward(l, Struck(l, a))
    /\ UNCHANGED <<files, apps, board, ui, wish, split, events>>

(* The scoreboard said goodbye: from now on it is to be stopped. *)
TickHonours(l) ==
    /\ At(l, "tick")
    /\ LET a == BootOrder[sup[l].at]
           stopped == sup[l].stopped \cup {a}
       IN  /\ StoppedCleanly(a)
           /\ Onward(l, [sup[l] EXCEPT !.stopped = stopped, !.strikes[a] = 0])
           /\ snapshot' = stopped
    /\ UNCHANGED <<lease, pending, apps, board, ui, wish, split, events>>

(* A restart starts, and ends nothing; it counts when it raises, too. *)
TickRestarts(l) ==
    /\ At(l, "tick")
    /\ LET a == BootOrder[sup[l].at]
           m == [Struck(l, a) EXCEPT !.tries[a] = @ + 1, !.cooling = @ \cup {a}]
       IN  /\ ~StoppedCleanly(a) /\ ~LeavesAlone(l, a)
           /\ \/ /\ Onward(l, [m EXCEPT !.strikes[a] = 0])
                 /\ Changed(Started(procs, a, sup[l].stopped))
                 /\ UNCHANGED events
              \/ Onward(l, m) /\ Event /\ UNCHANGED apps
    /\ UNCHANGED <<files, board, ui, wish, split>>

BackoffEnds(l, a) ==
    /\ a \in sup[l].cooling
    /\ sup' = [sup EXCEPT ![l].cooling = @ \ {a}]
    /\ UNCHANGED <<files, apps, board, ui, wish, split, events>>

(* Mutant: attempts never leave the window. *)
WindowSlides_Never(l, a) ==
    /\ sup[l].tries[a] > MaxRestarts
    /\ sup' = [sup EXCEPT ![l].tries[a] = @ - 1]
    /\ UNCHANGED <<files, apps, board, ui, wish, split, events>>

(* The oldest attempt leaves the window of SupervisionWindowSec, which is longer
   than any backoff. *)
WindowSlides(l, a) ==
    /\ sup[l].tries[a] > (IF a \in sup[l].cooling THEN 1 ELSE 0)
    /\ sup' = [sup EXCEPT ![l].tries[a] = @ - 1]
    /\ UNCHANGED <<files, apps, board, ui, wish, split, events>>

(***************************************************************************)
(* The scoreboard                                                          *)
(***************************************************************************)

BoardRuns == procs["scoreboard"] > 0 /\ "scoreboard" \notin sick /\ ~closing

(* _publish_launcher_status: a new file, which carries no request. *)
Publishes ==
    /\ BoardRuns
    /\ status' = [up |-> TRUE, saver |-> saver, req |-> 0] /\ age' = "fresh"
    /\ UNCHANGED <<files, sup, apps, saver, closing, ui, wish, split, events>>

SaverToggles ==
    /\ BoardRuns /\ Event
    /\ saver' = ~saver
    /\ status' = [up |-> TRUE, saver |-> ~saver, req |-> 0] /\ age' = "fresh"
    /\ UNCHANGED <<files, sup, apps, closing, ui, wish, split>>

(* A replay is unavailable: the request goes into the status file.  Where the
   lease shows no supervisor, restart_obs.ps1 is run as well. *)
Requests ==
    /\ BoardRuns /\ Event
    /\ status' = [up |-> TRUE, saver |-> saver, req |-> events'] /\ age' = "fresh"
    /\ IF lease.fresh /\ ~lease.released THEN UNCHANGED apps
       ELSE Changed([procs EXCEPT !["obs"] = 1])
    /\ UNCHANGED <<files, sup, saver, closing, ui, wish, split>>

(* The operator closes it: the last status says so, then the process ends. *)
Closes ==
    /\ BoardRuns /\ procs["scoreboard"] = 1 /\ Event
    /\ closing' = TRUE /\ saver' = FALSE
    /\ status' = [up |-> FALSE, saver |-> FALSE, req |-> 0] /\ age' = "fresh"
    /\ UNCHANGED <<files, sup, apps, ui, wish, split>>

Closed ==
    /\ closing /\ closing' = FALSE
    /\ Changed([procs EXCEPT !["scoreboard"] = IF @ > 0 THEN @ - 1 ELSE 0])
    /\ UNCHANGED <<files, sup, status, age, saver, ui, wish, split, events>>

StatusAges ==
    /\ ~BoardRuns /\ age # "old"
    /\ age' = OneOlder
    /\ UNCHANGED <<files, sup, apps, status, saver, closing, ui, wish, split, events>>

(***************************************************************************)
(* The operator and the applications                                       *)
(***************************************************************************)

(* Get-LauncherOwnershipState: whether launcher_ui.ps1 sees a supervisor. *)
Owned == lease.fresh /\ lease.alive

(* A click, or one row of a click on all that are selected. *)
Clicks == ui = "idle" /\ Event

(* While a launcher supervises, it leaves a file for that one. *)
Intends(i) ==
    /\ Clicks /\ Owned
    /\ pending' = Append(pending, i)
    /\ UNCHANGED <<lease, snapshot, sup, apps, board, ui, wish, split>>

(* What an intent ends, if nobody is asked: the encoder not while it takes. *)
Killed(i) ==
    CASE i.act = "start"                                  -> {{}}
      [] i.act # "start" /\ i.app = "encoder_watchdog"    -> {{}, {i.app}}
      [] OTHER                                            -> {{i.app}}

(* Otherwise the UI stops the application itself ... *)
UiActs(i) ==
    /\ Clicks /\ ~Owned
    /\ \E killed \in Killed(i) : Handled(Without(killed), killed)
    /\ ui' = IF i.act = "stop" THEN "idle" ELSE i.app
    /\ UNCHANGED <<files, sup, status, age, wish, split>>

(* ... and starts it without another look at the lease, and whether it runs or
   not. *)
UiStarts ==
    /\ ui # "idle" /\ ui' = "idle"
    /\ Changed(OneMore(procs, ui))
    /\ UNCHANGED <<files, sup, board, wish, split, events>>

Dies(a) ==
    /\ procs[a] > 0 /\ Event
    /\ Changed([procs EXCEPT ![a] = @ - 1])
    /\ closing' = (closing /\ a # "scoreboard") /\ saver' = (saver /\ a # "scoreboard")
    /\ UNCHANGED <<files, sup, status, age, ui, wish, split>>

(* Its status grows stale, its port stops answering. *)
Hangs(a) ==
    /\ procs[a] > 0 /\ a \notin sick /\ a # "encoder_watchdog" /\ Event
    /\ sick' = sick \cup {a}
    /\ UNCHANGED <<files, sup, procs, board, ui, wish, split>>

(***************************************************************************)
(* The specification                                                       *)
(***************************************************************************)

Step(l) ==
    \/ Claims(l) \/ Boots(l) \/ Validates(l) \/ Beat(l)
    \/ Applies(l) \/ Looks(l) \/ Acts(l) \/ Moves(l)
    \/ Watches(l) \/ RestartsObs(l) \/ SaverStays(l) \/ SaverEnds(l)
    \/ TickLeaves(l) \/ TickHonours(l) \/ TickRestarts(l)

TimePasses(l, a) == BackoffEnds(l, a) \/ WindowSlides(l, a)

Next ==
    \/ \E l \in Launchers :
          \/ Step(l) \/ Reads(l) \/ Crash(l) \/ Release(l)
          \/ \E a \in Apps : TimePasses(l, a)
    \/ LeaseAges
    \/ Publishes \/ SaverToggles \/ Requests \/ Closes \/ Closed \/ StatusAges
    \/ \E i \in Intents : Intends(i) \/ UiActs(i)
    \/ UiStarts
    \/ \E a \in Faulty : Dies(a) \/ Hangs(a)

(* A launcher that runs goes on, and time passes for its backoffs and windows.
   Nothing is assumed of the operator, of the scoreboard or of faults. *)
Fairness ==
    \A l \in Launchers :
        /\ WF_vars(Step(l))
        /\ \A a \in Apps : WF_vars(TimePasses(l, a))

Spec == Init /\ [][Next]_vars /\ Fairness

(***************************************************************************)
(* Properties                                                              *)
(***************************************************************************)

Memory == [pc : {"off", "claim", "boot", "validate"} \cup LoopPCs, at : 1..4,
           stopped : SUBSET Apps, left : 0..MaxEvents,
           job : [act : Verbs, app : Apps] \cup {NoJob}, strikes : [Apps -> 0..2],
           tries : [Apps -> 0..MaxRestarts], cooling : SUBSET Apps, seen : Statuses,
           asked : BOOLEAN, key : 0..MaxEvents, saver : {"unknown", "on", "off"},
           spare : BOOLEAN]

(* Every variable has its type; no attempt is ever made beyond the budget. *)
TypeOK ==
    /\ lease \in [owner : Launchers \cup {"nobody"}, alive : BOOLEAN, fresh : BOOLEAN,
                  released : BOOLEAN]
    /\ sup \in [Launchers -> Memory]
    /\ snapshot \subseteq Apps
    /\ pending \in Seq([act : Verbs, app : Apps])
    /\ procs \in [Apps -> 0..MaxProcs] /\ sick \subseteq Apps
    /\ status \in Statuses /\ age \in {"fresh", "stale", "old"}
    /\ {saver, closing} \subseteq BOOLEAN
    /\ ui \in Apps \cup {"idle"} /\ wish \subseteq Apps
    /\ split \in BOOLEAN /\ events \in 0..MaxEvents

(* start_apps.ps1:1905: the lease is claimed before anything is started, so
   that two invocations never both bootstrap or supervise. *)
OneSupervisor == \A l, m \in Launchers : Active(l) /\ Active(m) => l = m

(* While a launcher supervises, however long its lease has lapsed, no step of
   a launcher starts what the operator last wanted stopped: not the supervision,
   not for the sake of the scoreboard, not for a replay, and not one that took
   over after a crash.  Who else may start it: the UI, for a click it began to
   serve without a supervisor, and the scoreboard, which restarts OBS itself
   when the lease shows none.  (Two launchers side by side do not tell each
   other what they were told to stop.) *)
OperatorStopHolds ==
    [][\A a \in wish' :
          /\ Supervising # {} /\ Supervising' # {} /\ ~split'
          /\ procs'[a] > procs[a]
          => sup' = sup /\ (a = ui \/ (a = "obs" /\ ~lease.fresh))]_vars

(* An application that is to run and does not is started again, however often
   it died before and whichever attempts raised, as long as somebody supervises. *)
KeptAlive ==
    \A a \in Faulty \cup {"obs"} :
        (Supervising # {} /\ procs[a] = 0)
            ~> (procs[a] > 0 \/ Supervising = {} \/ \E l \in Supervising : a \in sup[l].stopped)

(* The operator's intents do not stay in the folder while somebody supervises. *)
IntentsAreServed == (Supervising # {}) ~> (pending = <<>> \/ Supervising = {})
=============================================================================
