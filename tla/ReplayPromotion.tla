--------------------------- MODULE ReplayPromotion ---------------------------
(***************************************************************************)
(* Instant replays: from the replay button (save_replay_and_trigger.ps1)   *)
(* through the worker's HTTP server (replay_trigger_http.py) and the       *)
(* promotion of the newest replay (replay_buffer_command.py) to the        *)
(* scoreboard's INSTANTREPLAY.mkv and the pipeline's incoming folder.  The *)
(* automatic sync, where enabled, promotes the same files side by side.    *)
(*                                                                         *)
(* Replays are numbered in the order OBS writes them, which is the order   *)
(* of their modification times.  A trigger is stamped with the number of   *)
(* replays finished when the button was pressed.                           *)
(***************************************************************************)
EXTENDS Integers, Sequences

CONSTANTS
    Clients,      \* runs of the script; the server gives each request a thread
    Sync,         \* the replay-scoreboard-auto-sync thread
    Nobody,       \* no holder of a lock, no client
    AutoSync,     \* ENABLE_REPLAY_SCOREBOARD_AUTO_SYNC
    Tolerance,    \* how many earlier replays the tolerance seconds may cover
    MaxSaves,     \* bound: replays OBS writes
    MaxMishaps    \* bound: failing copies, replaces, remuxes and unlinks, and
                  \* ends of the worker process

Threads == Clients \cup {Sync}
Replays == 1 .. MaxSaves

ASSUME PromotionAssumption ==
    /\ Sync \notin Clients /\ Nobody \notin Threads
    /\ AutoSync \in BOOLEAN
    /\ {Tolerance, MaxSaves, MaxMishaps} \subseteq Nat

VARIABLES
    clip,       \* the replay files of LONG_CLIPS_FOLDER
    made,       \* how many OBS has begun
    asks,       \* save requests OBS has accepted and not begun
    own,        \* per client, the replay OBS wrote for it
    instant,    \* the replay in INSTANTREPLAY.mkv (0: none)
    placed,     \* copies of each replay put into the pipeline's incoming folder
    script,     \* how far each run of the script is
    press,      \* its trigger timestamp, until the request carries it
    busy,       \* ReplayTriggerHTTPServer.busy_lock
    promo,      \* replay_promotion_lock
    th,         \* the threads: program counter and locals
    up,         \* the worker process runs
    mishaps,    \* how many so far
    \* History, read by the properties only:
    shows,      \* times it was put into INSTANTREPLAY.mkv
    excuses     \* promotions of it that a fault, a crash or the pipeline cut short

obs == <<clip, made, asks, own>>
button == <<script, press>>
history == <<shows, excuses>>
vars == <<clip, made, asks, own, instant, placed, script, press, busy, promo,
          th, up, mishaps, shows, excuses>>

PCs == {"idle", "lock", "scan", "stable", "promo", "show", "place", "check", "unlink", "answer"}
Idle == [pc |-> "idle", trig |-> 0, pick |-> 0, ok |-> FALSE]

Init ==
    /\ clip = [r \in Replays |-> "none"] /\ made = 0 /\ asks = <<>>
    /\ own = [c \in Clients |-> 0]
    /\ instant = 0
    /\ script = [c \in Clients |-> "idle"]
    /\ press = [c \in Clients |-> 0]
    /\ busy = Nobody /\ promo = Nobody
    /\ th = [t \in Threads |-> Idle]
    /\ up = TRUE
    /\ mishaps = 0
    /\ placed = [r \in Replays |-> 0]
    /\ shows = [r \in Replays |-> 0]
    /\ excuses = [r \in Replays |-> 0]

(* The step of thread t from one program counter to another. *)
Go(t, from, to) == th[t].pc = from /\ th' = [th EXCEPT ![t].pc = to]

(* A call fails, or the process ends, while the bound allows it. *)
Mishap == mishaps < MaxMishaps /\ mishaps' = mishaps + 1

Excuse(r) == excuses' = [excuses EXCEPT ![r] = @ + 1]

(***************************************************************************)
(* OBS                                                                     *)
(***************************************************************************)

(* The replay being written: OBS writes one after the other. *)
Growing == {r \in Replays : clip[r] = "growing"}

Ask(who) == /\ made + Len(asks) < MaxSaves
            /\ asks' = Append(asks, who)

(* A replay saved by a hotkey of OBS, without the script. *)
Hotkey ==
    /\ Ask(Nobody)
    /\ UNCHANGED <<clip, made, own, instant, placed, button, busy, promo, th, up, mishaps, history>>

ObsBegins ==
    /\ asks # <<>> /\ Growing = {}
    /\ made' = made + 1
    /\ clip' = [clip EXCEPT ![made + 1] = "growing"]
    /\ own' = IF Head(asks) = Nobody THEN own ELSE [own EXCEPT ![Head(asks)] = made + 1]
    /\ asks' = Tail(asks)
    /\ UNCHANGED <<instant, placed, button, busy, promo, th, up, mishaps, history>>

ObsFinishes ==
    /\ \E r \in Growing : clip' = [clip EXCEPT ![r] = "whole"]
    /\ UNCHANGED <<made, asks, own, instant, placed, button, busy, promo, th, up, mishaps, history>>

(***************************************************************************)
(* The script                                                              *)
(***************************************************************************)

(* The trigger is stamped first. *)
Press(c) ==
    /\ script[c] = "idle"
    /\ script' = [script EXCEPT ![c] = "pressed"]
    /\ press' = [press EXCEPT ![c] = IF Growing = {} THEN made ELSE made - 1]
    /\ UNCHANGED <<obs, instant, placed, busy, promo, th, up, mishaps, history>>

(* OBS acknowledges the save, before it has written anything, and the
   script posts /replay. *)
SaveAndPost(c) ==
    /\ script[c] = "pressed"
    /\ th[c] = Idle /\ Ask(c)
    /\ press' = [press EXCEPT ![c] = 0]
    /\ \/ /\ up
          /\ script' = [script EXCEPT ![c] = "waiting"]
          /\ th' = [th EXCEPT ![c].pc = "lock", ![c].trig = press[c]]
       \/ /\ ~up
          /\ script' = [script EXCEPT ![c] = "failed"]
          /\ th' = th
    /\ UNCHANGED <<clip, made, own, instant, placed, busy, promo, up, mishaps, history>>

(* OBS refuses the save: the script ends before it calls the worker. *)
SaveFails(c) ==
    /\ script[c] = "pressed"
    /\ script' = [script EXCEPT ![c] = "failed"]
    /\ press' = [press EXCEPT ![c] = 0]
    /\ UNCHANGED <<obs, instant, placed, busy, promo, th, up, mishaps, history>>

(* The request times out at the script; its thread goes on. *)
GiveUp(c) ==
    /\ script[c] = "waiting"
    /\ script' = [script EXCEPT ![c] = "failed"]
    /\ UNCHANGED <<obs, instant, placed, press, busy, promo, th, up, mishaps, history>>

(* After a success, and only then, the scoreboard is told to show the file. *)
ReplayOn(c) ==
    /\ script[c] = "answered"
    /\ script' = [script EXCEPT ![c] = "shown"]
    /\ UNCHANGED <<obs, instant, placed, press, busy, promo, th, up, mishaps, history>>

Told(c, ok) == script' = [script EXCEPT ![c] = IF @ # "waiting" THEN @
                                               ELSE IF ok THEN "answered" ELSE "failed"]

(***************************************************************************)
(* The worker: one request, and the promotion it shares with the sync      *)
(***************************************************************************)

LockBusy(c) ==
    /\ busy = Nobody
    /\ busy' = c
    /\ Go(c, "lock", "scan")
    /\ UNCHANGED <<obs, instant, placed, button, promo, up, mishaps, history>>

(* The bounded wait for the lock runs out: 503. *)
TooBusy(c) ==
    /\ busy # Nobody
    /\ th[c].pc = "lock" /\ th' = [th EXCEPT ![c] = Idle]
    /\ Told(c, FALSE)
    /\ UNCHANGED <<obs, instant, placed, press, busy, promo, up, mishaps, history>>

Candidates == {r \in Replays : clip[r] \in {"growing", "whole"}}
Acceptable(c) == {r \in Candidates : r > th[c].trig - Tolerance}
IsNewest(r, S) == r \in S /\ \A s \in S : s <= r
Pick(t, r) == th' = [th EXCEPT ![t].pc = "stable", ![t].pick = r]

(* Poll until there is an acceptable replay, or the deadline has passed. *)
Scan(c) ==
    /\ th[c].pc = "scan"
    /\ \/ \E r \in Replays : IsNewest(r, Acceptable(c)) /\ Pick(c, r)
       \/ Acceptable(c) = {} /\ Go(c, "scan", "answer")   \* no_matching_file_within_timeout
    /\ UNCHANGED <<obs, instant, placed, button, busy, promo, up, mishaps, history>>

(* Mutant: the sync only looks at the newest replay there ever was. *)
AutoTick_NewestEver ==
    /\ AutoSync /\ up /\ th[Sync].pc = "idle"
    /\ made \in Candidates /\ Pick(Sync, made)
    /\ UNCHANGED <<obs, instant, placed, button, busy, promo, up, mishaps, history>>

(* The sync picks the newest replay without any lock. *)
AutoTick ==
    /\ AutoSync /\ up /\ th[Sync].pc = "idle"
    /\ \E r \in Replays : IsNewest(r, Candidates) /\ Pick(Sync, r)
    /\ UNCHANGED <<obs, instant, placed, button, busy, promo, up, mishaps, history>>

(* wait_stable_until_deadline: stable, or gone, or still growing at the deadline. *)
Stable(t) ==
    /\ th[t].pc = "stable"
    /\ \/ clip[th[t].pick] = "whole" /\ th' = [th EXCEPT ![t].pc = "promo"]
       \/ clip[th[t].pick] # "whole" /\ th' = [th EXCEPT ![t].pc = "answer"]
    /\ UNCHANGED <<obs, instant, placed, button, busy, promo, up, mishaps, history>>

(* Mutant: the lock serialises nothing. *)
LockPromotion_Shared(t) ==
    /\ promo' = t
    /\ Go(t, "promo", "show")
    /\ UNCHANGED <<obs, instant, placed, button, busy, up, mishaps, history>>

LockPromotion(t) ==
    /\ promo = Nobody
    /\ promo' = t
    /\ Go(t, "promo", "show")
    /\ UNCHANGED <<obs, instant, placed, button, busy, up, mishaps, history>>

(* Mutant: a failure leaves the lock behind. *)
Leave_FailureKeepsLock(t, ok) ==
    /\ promo' = IF ok THEN Nobody ELSE promo
    /\ th' = [th EXCEPT ![t].pc = "answer", ![t].ok = ok]

(* Every exit of the promotion releases the lock. *)
Leave(t, ok) ==
    /\ promo' = Nobody
    /\ th' = [th EXCEPT ![t].pc = "answer", ![t].ok = ok]

(* Copy to a temporary name, verify, replace INSTANTREPLAY.mkv.  The copy
   fails if another thread has promoted and deleted the source meanwhile. *)
Show(t) ==
    /\ th[t].pc = "show"
    /\ \/ /\ clip[th[t].pick] = "whole"
          /\ instant' = th[t].pick
          /\ shows' = [shows EXCEPT ![th[t].pick] = @ + 1]
          /\ th' = [th EXCEPT ![t].pc = "place"]
          /\ UNCHANGED <<promo, mishaps>>
       \/ /\ clip[th[t].pick] # "whole" \/ mishaps < MaxMishaps
          /\ Leave(t, FALSE)
          /\ IF clip[th[t].pick] = "whole" THEN Mishap ELSE UNCHANGED mishaps
          /\ UNCHANGED <<instant, shows>>
    /\ UNCHANGED <<obs, placed, button, busy, up, excuses>>

(* Mutant: a placement that failed is taken for one that succeeded. *)
Place_FailureIgnored(t) ==
    LET r == th[t].pick IN
    /\ th[t].pc = "place"
    /\ \/ /\ placed' = [placed EXCEPT ![r] = @ + 1]
          /\ th' = [th EXCEPT ![t].pc = "check"]
          /\ UNCHANGED <<promo, mishaps, excuses>>
       \/ /\ Mishap /\ Excuse(r)
          /\ th' = [th EXCEPT ![t].pc = "unlink"]
          /\ UNCHANGED <<promo, placed>>
    /\ UNCHANGED <<obs, instant, button, busy, up, shows>>

(* Remux into the incoming folder or, when that fails, place the mkv there;
   both may fail, with INSTANTREPLAY.mkv already replaced. *)
Place(t) ==
    LET r == th[t].pick IN
    /\ th[t].pc = "place"
    /\ \/ /\ placed' = [placed EXCEPT ![r] = @ + 1]
          /\ th' = [th EXCEPT ![t].pc = "check"]
          /\ UNCHANGED <<promo, mishaps, excuses>>
       \/ /\ Mishap /\ Excuse(r)
          /\ Leave(t, FALSE)
          /\ UNCHANGED placed
    /\ UNCHANGED <<obs, instant, button, busy, up, shows>>

(* Verify both files.  A worker of the clip pipeline may have taken the copy
   already; then the source is kept, and counts as not promoted. *)
Check(t) ==
    /\ th[t].pc = "check"
    /\ \/ /\ th' = [th EXCEPT ![t].pc = "unlink"]
          /\ UNCHANGED <<promo, mishaps, excuses>>
       \/ /\ Mishap /\ Excuse(th[t].pick)
          /\ Leave(t, FALSE)
    /\ UNCHANGED <<obs, instant, placed, button, busy, up, shows>>

(* Mutant: the source is kept (REPLAY_BUFFER_DELETE_SOURCE_AFTER_SUCCESS=0). *)
Unlink_Keeps(t) ==
    /\ th[t].pc = "unlink"
    /\ Leave(t, TRUE)
    /\ UNCHANGED <<obs, instant, placed, button, busy, up, mishaps, history>>

(* Delete the source.  A failure to is only logged. *)
Unlink(t) ==
    LET r == th[t].pick IN
    /\ th[t].pc = "unlink"
    /\ \/ clip' = [clip EXCEPT ![r] = "gone"] /\ UNCHANGED <<mishaps, excuses>>
       \/ Mishap /\ Excuse(r) /\ clip' = clip
    /\ Leave(t, TRUE)
    /\ UNCHANGED <<made, asks, own, instant, placed, button, busy, up, shows>>

(* The end of a request: submit the copy, release the lock, respond.  The
   sync has nobody to answer. *)
Answer(t) ==
    /\ th[t].pc = "answer"
    /\ th' = [th EXCEPT ![t] = Idle]
    /\ IF t = Sync
       THEN UNCHANGED <<busy, script>>
       ELSE busy' = Nobody /\ Told(t, th[t].ok)
    /\ UNCHANGED <<obs, instant, placed, press, promo, up, mishaps, history>>

(***************************************************************************)
(* Around it                                                               *)
(***************************************************************************)

Promoting(t, r) == th[t].pc \in {"place", "check", "unlink"} /\ th[t].pick = r

(* The worker ends: threads and locks are gone, requests are cut off. *)
Crash ==
    /\ up /\ Mishap
    /\ up' = FALSE
    /\ th' = [t \in Threads |-> Idle]
    /\ busy' = Nobody /\ promo' = Nobody
    /\ script' = [c \in Clients |-> IF script[c] = "waiting" THEN "failed" ELSE script[c]]
    /\ excuses' = [r \in Replays |-> IF \E t \in Threads : Promoting(t, r)
                                     THEN excuses[r] + 1 ELSE excuses[r]]
    /\ UNCHANGED <<obs, instant, placed, press, shows>>

Restart ==
    /\ ~up /\ up' = TRUE
    /\ UNCHANGED <<obs, instant, placed, button, busy, promo, th, mishaps, history>>

(* The steps of process-latest-replay from its pick on. *)
PromotionStep(t) ==
    Stable(t) \/ LockPromotion(t) \/ Show(t) \/ Place(t) \/ Check(t) \/ Unlink(t) \/ Answer(t)
RequestStep(c) == LockBusy(c) \/ TooBusy(c) \/ Scan(c) \/ PromotionStep(c)
AutoStep == AutoTick \/ PromotionStep(Sync)
ScriptStep(c) == Press(c) \/ SaveAndPost(c) \/ SaveFails(c) \/ GiveUp(c) \/ ReplayOn(c)

Next ==
    \/ Hotkey \/ ObsBegins \/ ObsFinishes
    \/ \E c \in Clients : ScriptStep(c) \/ RequestStep(c)
    \/ AutoStep
    \/ Crash \/ Restart

Spec == Init /\ [][Next]_vars

(* The threads run; OBS finishes what it began; the supervisor restarts the
   worker.  Nothing is assumed of whoever presses buttons. *)
FairSpec ==
    /\ Spec
    /\ \A c \in Clients : WF_vars(RequestStep(c))
    /\ WF_vars(AutoStep)
    /\ WF_vars(ObsFinishes) /\ WF_vars(Restart)

(***************************************************************************)
(* Properties                                                              *)
(***************************************************************************)

(* The types; the sync never waits as a request does; the locks are with
   threads. *)
TypeOK ==
    /\ clip \in [Replays -> {"none", "growing", "whole", "gone"}]
    /\ made \in 0 .. MaxSaves
    /\ asks \in Seq(Clients \cup {Nobody})
    /\ own \in [Clients -> 0 .. MaxSaves]
    /\ instant \in 0 .. MaxSaves
    /\ script \in [Clients -> {"idle", "pressed", "waiting", "answered", "shown", "failed"}]
    /\ press \in [Clients -> 0 .. MaxSaves]
    /\ busy \in Clients \cup {Nobody} /\ promo \in Threads \cup {Nobody}
    /\ th \in [Threads -> [pc : PCs, trig : 0 .. MaxSaves, pick : 0 .. MaxSaves, ok : BOOLEAN]]
    /\ th[Sync].pc \notin {"lock", "scan"}
    /\ up \in BOOLEAN
    /\ mishaps \in 0 .. MaxMishaps
    /\ {placed, shows, excuses} \subseteq [Replays -> Nat]

(* A replay leaves long_clips only when a copy of it is with the pipeline:
   whatever remux, fallback, verification, unlink and a crash between them
   do, no replay is lost. *)
NoReplayLost ==
    \A r \in Replays : clip[r] = "gone" => placed[r] > 0

(* Requests and the sync may pick the same file, each without a lock; still
   it comes onto the scoreboard a second time, or twice into the incoming
   folder, only after a promotion of it was cut short. *)
PromotedOnce ==
    \A r \in Replays : placed[r] <= shows[r] /\ shows[r] <= 1 + excuses[r]

(* Scoreboard first: a copy is placed in the incoming folder only while
   INSTANTREPLAY.mkv holds that very replay, whoever else promotes. *)
ScoreboardFirst ==
    [][\A r \in Replays : placed'[r] # placed[r] => instant = r]_vars

(* Every request comes to an end: no lock is left behind by a thread that
   failed, and no wait for one is for ever. *)
RequestsEnd == []<>(\A c \in Clients : th[c].pc = "idle")

(* With the automatic sync on, every replay OBS has finished reaches the
   pipeline, those too that a newer one overtook. *)
EveryReplayArrives ==
    []<>(\A r \in Replays : clip[r] = "whole" => placed[r] > 0)

(* When a successful run of the script tells the scoreboard to show the
   replay, the file is the replay it saved, or a newer one. *)
ShownIsOwn ==
    [][\A c \in Clients : script[c] = "answered" /\ script'[c] = "shown"
                          => own[c] # 0 /\ instant >= own[c]]_vars
=============================================================================
