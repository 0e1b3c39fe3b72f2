-------------------------- MODULE ReplayController --------------------------
(***************************************************************************)
(* scoreboard/scoreboard/replay_controller.py: the replay slate that fades *)
(* in over the scoreboard, the mpv that plays the newest replay, and the   *)
(* way back; with what app.py hangs on it (replay_on and replay_off, the   *)
(* black screen, the lockout strip, the "unavailable" graphic).            *)
(*                                                                         *)
(* Everything runs on one Tk thread, in callbacks that are armed by        *)
(* AfterScheduler and cancelled by name.  What goes wrong here goes wrong  *)
(* between callbacks: a timer that outlives the phase it was armed for.    *)
(* Delays are not modelled: any armed callback may be the next to fire.    *)
(***************************************************************************)
EXTENDS Integers

CONSTANTS
    MaxPlays,   \* bound: mpv processes started
    MaxFiles    \* bound: replays the worker publishes

ASSUME ReplayAssumption == {MaxPlays, MaxFiles} \subseteq Nat \ {0}

VARIABLES
    ui,       \* _phase and the flags kept beside it, and what is on the canvas
    jobs,     \* the armed callbacks
    fadeTo,   \* _fade_on_complete
    proc,     \* _replay_video_process
    mpv,      \* every mpv process that was started
    file,     \* replay_video_path: its mtime (0: none), and whether it is young enough
    mtimes,   \* _last_replayed_file_mtime and _replay_pending_mtime
    notice,   \* the "unavailable" graphic: who put it up, or that it was dismissed
    black,    \* black_screen_active and black_screen_cover_visible
    embedded, \* settings.mpv_embedded: mpv draws into the canvas, or over it
    lockout   \* whether the loading strip after a replay runs

vars == <<ui, jobs, fadeTo, proc, mpv, file, mtimes, notice, black, embedded, lockout>>

Jobs == {"start", "embed", "poll", "fade", "return", "transition", "stuck", "grace"}
Launch == {"start", "embed"}   \* cancel_replay_video_launch
Plays == 1 .. MaxPlays
NoProcess == 0

IdleUi == [phase |-> "idle", showing |-> FALSE, trans |-> FALSE, active |-> FALSE,
           host |-> FALSE, scores |-> TRUE, slate |-> FALSE, embed |-> FALSE, won |-> FALSE]

Init ==
    /\ ui = IdleUi
    /\ jobs = {}
    /\ fadeTo = "none"
    /\ proc = NoProcess
    /\ mpv = [n \in Plays |-> "none"]
    /\ file = [mtime |-> 0, young |-> TRUE]
    /\ mtimes = [last |-> 0, pending |-> 0]
    /\ notice = "none"
    /\ black = [on |-> FALSE, cover |-> FALSE]
    /\ embedded \in BOOLEAN   \* settings.mpv_embedded
    /\ lockout = FALSE

(* blocks_black_screen_toggle, _replay_command_is_on *)
Busy == ui.showing \/ ui.trans \/ ui.active

(***************************************************************************)
(* The world around the controller                                         *)
(***************************************************************************)

MpvEnds(n) ==
    /\ mpv[n] \in {"playing", "ending"}
    /\ mpv' = [mpv EXCEPT ![n] = "gone"]
    /\ UNCHANGED <<ui, jobs, fadeTo, proc, file, embedded, mtimes, notice, black, lockout>>

(* The worker publishes a replay over the old one, atomically. *)
FileArrives ==
    /\ file.mtime < MaxFiles
    /\ file' = [mtime |-> file.mtime + 1, young |-> TRUE]
    /\ UNCHANGED <<embedded, ui, jobs, fadeTo, proc, mpv, mtimes, notice, black, lockout>>

FileAges ==
    /\ file.mtime # 0 /\ file.young
    /\ file' = [file EXCEPT !.young = FALSE]
    /\ UNCHANGED <<embedded, ui, jobs, fadeTo, proc, mpv, mtimes, notice, black, lockout>>

(***************************************************************************)
(* Pieces of callbacks                                                     *)
(***************************************************************************)

(* Mutant: the handle is dropped, the process is not ended. *)
StopMpv_Forgets ==
    /\ proc' = NoProcess
    /\ UNCHANGED mpv

(* stop_replay_video_process: the handle is dropped, and a thread terminates
   the process, or kills it.  Should both fail it is "ending" for as long as
   it likes: nothing here waits for it. *)
StopMpv ==
    /\ proc' = NoProcess
    /\ mpv' = [n \in Plays |-> IF n = proc /\ mpv[n] = "playing" THEN "ending" ELSE mpv[n]]

(* Mutant: the grace timer survives the end of the session. *)
GoIdle_GraceSurvives ==
    /\ ui' = IdleUi
    /\ jobs' = jobs \cap {"grace"} /\ fadeTo' = "none"
    /\ StopMpv
    /\ black' = [black EXCEPT !.cover = @ \/ black.on]
    /\ lockout' = (lockout \/ ui.won)

(* Mutant: a black screen is not put up again after a replay. *)
GoIdle_NoCover ==
    /\ ui' = IdleUi
    /\ jobs' = {} /\ fadeTo' = "none"
    /\ StopMpv
    /\ UNCHANGED black
    /\ lockout' = (lockout \/ ui.won)

(* All timers cancelled, mpv stopped, and _apply_idle_scoreboard_state with
   its callbacks: the lockout strip after a replay that played, and the
   black screen, if it is on, over the scoreboard again. *)
GoIdle ==
    /\ ui' = IdleUi
    /\ jobs' = {} /\ fadeTo' = "none"
    /\ StopMpv
    /\ black' = [black EXCEPT !.cover = @ \/ black.on]
    /\ lockout' = (lockout \/ ui.won)

(* restore_normal_scoreboard_state *)
Restore ==
    /\ GoIdle
    /\ mtimes' = [mtimes EXCEPT !.pending = 0]
    /\ notice' = "recovery"

(* The slate after mpv: with an embedded mpv the overlay stays transparent. *)
SlateAfterMpv ==
    [ui EXCEPT !.phase = "slate", !.host = FALSE, !.scores = TRUE, !.active = FALSE,
               !.embed = FALSE, !.slate = @ \/ ~embedded]

(* Mutant: the notice is logged, not shown. *)
Unavailable_Silent(u) ==
    /\ jobs' = jobs \cap {"fade"}
    /\ StopMpv
    /\ ui' = [u EXCEPT !.phase = "slate", !.showing = TRUE, !.trans = FALSE,
                        !.active = FALSE, !.host = FALSE, !.embed = FALSE]
    /\ mtimes' = [mtimes EXCEPT !.pending = 0]
    /\ UNCHANGED <<notice, fadeTo, file, embedded, black, lockout>>

(* _handle_replay_unavailable.  A fade that runs is not among what it cancels. *)
Unavailable(u) ==
    /\ jobs' = jobs \cap {"fade"}
    /\ StopMpv
    /\ ui' = [u EXCEPT !.phase = "slate", !.showing = TRUE, !.trans = FALSE,
                        !.active = FALSE, !.host = FALSE, !.embed = FALSE]
    /\ mtimes' = [mtimes EXCEPT !.pending = 0]
    /\ notice' = "unavailable"
    /\ UNCHANGED <<fadeTo, file, embedded, black, lockout>>

NextPlay == CHOOSE n \in Plays : mpv[n] = "none"
MayPlay == \E n \in Plays : mpv[n] = "none"   \* the bound MaxPlays

(* mpv has been started for the file with this mtime; `left` stays armed. *)
VideoStarts(mtime, left) ==
    /\ proc' = NextPlay
    /\ mpv' = [mpv EXCEPT ![NextPlay] = "playing"]
    /\ jobs' = (left \ {"stuck"}) \cup {"poll"}
    /\ mtimes' = [last |-> mtime, pending |-> 0]
    /\ ui' = [ui EXCEPT !.phase = "video", !.active = TRUE, !.won = TRUE, !.embed = FALSE,
                        !.scores = FALSE, !.slate = @ /\ ~embedded]
    /\ UNCHANGED <<fadeTo, file, embedded, notice, black, lockout>>

(* The slate begins to fade out. *)
FadeOut(u, armed) ==
    IF u.phase = "slate"
    THEN /\ ui' = [u EXCEPT !.phase = "out", !.trans = TRUE, !.slate = TRUE]
         /\ jobs' = (armed \ {"return", "stuck"}) \cup {"transition", "fade"}
         /\ fadeTo' = "out"
    ELSE ui' = u /\ jobs' = armed /\ UNCHANGED fadeTo

(***************************************************************************)
(* Toggle: the command bus, with app.toggle_replay in front                *)
(***************************************************************************)

NoticeDown == IF notice \in {"unavailable", "recovery"} THEN "none" ELSE notice

(* A notice over the scoreboard swallows the toggle. *)
ToggleDismisses ==
    /\ notice \in {"unavailable", "recovery"} /\ ~ui.showing
    /\ notice' = "none"
    /\ UNCHANGED <<ui, jobs, fadeTo, proc, mpv, file, embedded, mtimes, black, lockout>>

Reaches == ~(notice \in {"unavailable", "recovery"} /\ ~ui.showing)

(* Ignored in a transition, but for the notice. *)
ToggleIgnored ==
    /\ Reaches /\ ui.trans
    /\ notice' = NoticeDown
    /\ UNCHANGED <<ui, jobs, fadeTo, proc, mpv, file, embedded, mtimes, black, lockout>>

(* stop_replay_video_and_return *)
ToggleStopsVideo ==
    /\ Reaches /\ ~ui.trans /\ ui.active
    /\ notice' = NoticeDown
    /\ StopMpv
    /\ ui' = IF ui.showing THEN SlateAfterMpv ELSE [ui EXCEPT !.active = FALSE, !.embed = FALSE]
    /\ jobs' = (jobs \ (Launch \cup {"poll", "return"}))
                  \cup (IF ui.showing THEN {"return"} ELSE {})
    /\ UNCHANGED <<fadeTo, file, embedded, mtimes, black, lockout>>

ToggleFadesOut ==
    /\ Reaches /\ ~ui.trans /\ ~ui.active /\ ui.showing
    /\ notice' = "none"
    /\ FadeOut([ui EXCEPT !.embed = FALSE], jobs \ (Launch \cup {"return"}))
    /\ UNCHANGED <<proc, mpv, file, embedded, mtimes, black, lockout>>

ToggleFadesIn ==
    /\ Reaches /\ ~Busy /\ ui.phase = "idle"
    /\ notice' = "none"
    /\ ui' = [ui EXCEPT !.phase = "in", !.trans = TRUE, !.slate = TRUE, !.won = FALSE]
    /\ jobs' = (jobs \ {"grace"}) \cup {"transition", "fade"}
    /\ fadeTo' = "in"
    /\ black' = [black EXCEPT !.cover = FALSE]
    /\ UNCHANGED <<proc, mpv, file, embedded, mtimes, lockout>>

Toggle == ToggleDismisses \/ ToggleIgnored \/ ToggleStopsVideo \/ ToggleFadesOut \/ ToggleFadesIn

(***************************************************************************)
(* Callbacks                                                               *)
(***************************************************************************)

(* The last step of the overlay's fade. *)
FadeEnds(to) == "fade" \in jobs /\ fadeTo = to

(* _finish_fade_in *)
FadedIn ==
    /\ FadeEnds("in")
    /\ ui' = [ui EXCEPT !.phase = "slate", !.showing = TRUE, !.trans = FALSE]
    /\ jobs' = (jobs \ {"fade", "transition"}) \cup {"start", "stuck"}
    /\ fadeTo' = "none"
    /\ UNCHANGED <<proc, mpv, file, embedded, mtimes, notice, black, lockout>>

(* _finish_fade_out *)
FadedOut ==
    /\ FadeEnds("out")
    /\ GoIdle
    /\ UNCHANGED <<file, embedded, mtimes, notice>>

FileLaunches == file.mtime # 0 /\ file.young

(* _start_replay_video with `left` still armed. *)
StartVideo(left) ==
    CASE ~ui.showing \/ ui.active \/ ui.embed ->
            jobs' = left /\ UNCHANGED <<ui, fadeTo, proc, mpv, file, embedded, mtimes, notice, black, lockout>>
      [] ui.showing /\ ~ui.active /\ ~ui.embed /\ ~FileLaunches ->
            /\ jobs' = left \cup {"grace"}
            /\ UNCHANGED <<ui, fadeTo, proc, mpv, file, embedded, mtimes, notice, black, lockout>>
      [] OTHER ->
            \/ Unavailable(ui)   \* no mpv, or no input.conf
            \/ ~embedded /\ Unavailable([ui EXCEPT !.scores = FALSE])   \* the spawn fails
            \/ /\ embedded
               /\ ui' = [ui EXCEPT !.embed = TRUE, !.host = TRUE, !.scores = FALSE]
               /\ jobs' = (left \ {"grace"}) \cup {"embed"}
               /\ mtimes' = [mtimes EXCEPT !.pending = file.mtime]
               /\ UNCHANGED <<fadeTo, proc, mpv, file, embedded, notice, black, lockout>>
            \/ ~embedded /\ MayPlay /\ VideoStarts(file.mtime, left \ {"grace"})

StartFires == "start" \in jobs /\ StartVideo(jobs \ {"start"})

(* _spawn_mpv_embedded, 250 ms later *)
EmbedFires ==
    /\ "embed" \in jobs
    /\ IF ~ui.showing \/ ui.active
       THEN /\ ui' = [ui EXCEPT !.embed = FALSE, !.host = FALSE]
            /\ jobs' = jobs \ {"embed"}
            /\ mtimes' = [mtimes EXCEPT !.pending = 0]
            /\ UNCHANGED <<fadeTo, proc, mpv, file, embedded, notice, black, lockout>>
       ELSE Unavailable(ui) \/ (MayPlay /\ VideoStarts(mtimes.pending, jobs \ {"embed"}))

(* _grace_recheck_replay_file, which looks at nothing but these two flags. *)
GraceFires ==
    /\ "grace" \in jobs
    /\ IF ~ui.showing \/ ui.active
       THEN jobs' = jobs \ {"grace"}
            /\ UNCHANGED <<ui, fadeTo, proc, mpv, file, embedded, mtimes, notice, black, lockout>>
       ELSE FileLaunches /\ file.mtime > mtimes.last /\ StartVideo(jobs \ {"grace"})

(* The grace period is over: OBS restart is asked for, and the graphic put up. *)
GraceExpires ==
    /\ "grace" \in jobs /\ ui.showing /\ ~ui.active
    /\ ~(FileLaunches /\ file.mtime > mtimes.last)
    /\ Unavailable(ui)

(* _poll_replay_video_process finds mpv gone (else it only polls again). *)
PollFires ==
    /\ "poll" \in jobs
    /\ ui.active /\ proc # NoProcess /\ mpv[proc] = "gone"
    /\ proc' = NoProcess
    /\ IF ui.showing /\ ~ui.trans
       THEN ui' = SlateAfterMpv /\ jobs' = (jobs \ {"poll"}) \cup {"return"}
       ELSE ui' = [ui EXCEPT !.active = FALSE] /\ jobs' = jobs \ {"poll"}
    /\ UNCHANGED <<fadeTo, mpv, file, embedded, mtimes, notice, black, lockout>>

ReturnFires ==
    /\ "return" \in jobs
    /\ FadeOut(ui, jobs \ {"return"})
    /\ UNCHANGED <<proc, mpv, file, embedded, mtimes, notice, black, lockout>>

Recovers(job, needed) ==
    /\ job \in jobs
    /\ IF needed
       THEN Restore /\ UNCHANGED <<file, embedded>>
       ELSE jobs' = jobs \ {job}
            /\ UNCHANGED <<ui, fadeTo, proc, mpv, file, embedded, mtimes, notice, black, lockout>>

(* _on_transition_timeout *)
TransitionTimeout == Recovers("transition", ui.trans)

(* _on_slate_stuck_timeout *)
StuckTimeout == Recovers("stuck", ui.showing /\ ~ui.trans /\ ~ui.active)

LockoutEnds ==
    /\ lockout
    /\ lockout' = FALSE
    /\ UNCHANGED <<ui, jobs, fadeTo, proc, mpv, file, embedded, mtimes, notice, black>>

(***************************************************************************)
(* Other commands                                                          *)
(***************************************************************************)

(* enable_black_screen, disable_black_screen, reset_scores *)
BlackScreen(on) ==
    /\ ~Busy /\ black.on # on
    /\ black' = [on |-> on, cover |-> on]
    /\ UNCHANGED <<ui, jobs, fadeTo, proc, mpv, file, embedded, mtimes, notice, lockout>>

(* The recording overlay's OBS gate fails: the same graphic, over anything. *)
GraphicShown ==
    /\ notice' = "recovery"
    /\ UNCHANGED <<ui, jobs, fadeTo, proc, mpv, file, embedded, mtimes, black, lockout>>

(* dismiss_replay_unavailable: takes the graphic down, and nothing else. *)
GraphicDismissed ==
    /\ notice \in {"unavailable", "recovery"}
    /\ notice' = IF ui.showing THEN "dismissed" ELSE "none"
    /\ UNCHANGED <<ui, jobs, fadeTo, proc, mpv, file, embedded, mtimes, black, lockout>>

Callback ==
    \/ FadedIn \/ FadedOut \/ StartFires \/ EmbedFires \/ GraceFires \/ GraceExpires
    \/ PollFires \/ ReturnFires \/ TransitionTimeout \/ StuckTimeout \/ LockoutEnds

Next ==
    \/ \E n \in Plays : MpvEnds(n)
    \/ FileArrives \/ FileAges
    \/ Toggle
    \/ Callback
    \/ \E on \in BOOLEAN : BlackScreen(on)
    \/ GraphicShown \/ GraphicDismissed

(* Every callback that stays armed fires.  The watchdogs are there in case
   the others do not, so nothing is owed to them. *)
Spec ==
    /\ Init /\ [][Next]_vars
    /\ WF_vars(FadedIn \/ FadedOut) /\ WF_vars(StartFires) /\ WF_vars(EmbedFires)
    /\ WF_vars(GraceFires \/ GraceExpires)
    /\ WF_vars(PollFires) /\ WF_vars(ReturnFires)

(***************************************************************************)
(* Properties                                                              *)
(***************************************************************************)

TypeOK ==
    /\ ui \in [phase : {"idle", "in", "slate", "video", "out"}, showing : BOOLEAN,
               trans : BOOLEAN, active : BOOLEAN, host : BOOLEAN, scores : BOOLEAN,
               slate : BOOLEAN, embed : BOOLEAN, won : BOOLEAN]
    /\ jobs \subseteq Jobs
    /\ fadeTo \in {"none", "in", "out"}
    /\ proc \in {NoProcess} \cup Plays
    /\ mpv \in [Plays -> {"none", "playing", "ending", "gone"}]
    /\ file \in [mtime : 0 .. MaxFiles, young : BOOLEAN]
    /\ mtimes \in [last : 0 .. MaxFiles, pending : 0 .. MaxFiles]
    /\ notice \in {"none", "unavailable", "recovery", "dismissed"}
    /\ black \in [on : BOOLEAN, cover : BOOLEAN]
    /\ lockout \in BOOLEAN
    /\ embedded \in BOOLEAN

(* The comment on the mpv pipe: only one replay mpv runs at a time.  One that
   plays is the one the controller can stop; others are being ended. *)
OnePlayer == \A n \in Plays : mpv[n] = "playing" => n = proc

(* The scoreboard is itself again after every way a session can end: nothing
   of the session is on the screen, no mpv plays, and no timer is left that
   could act on the next session. *)
IdleIsClean == ui.phase = "idle" => ui = IdleUi /\ proc = NoProcess /\ jobs = {}

(* The black screen never hides a replay, and is back after it. *)
BlackScreenReturns == black.cover <=> (black.on /\ ui.phase = "idle")

(* What the rest of the scoreboard is built on: every click, callback and
   failure here is a step of ReplaySurface, or none.  A session begins with the
   slate and the cover down, in between only the slate comes and goes, and its
   end takes the slate away, puts the cover back and may start the strip. *)
Surface == INSTANCE ReplaySurface WITH
    replay <- [on |-> Busy, slate |-> ui.slate], dark <- black, loading <- lockout

ImplementsSurface == Surface!SurfaceSpec

(* Whatever is clicked and whatever fails, the viewer of a slate gets a video,
   the scoreboard, or the graphic that says why not. *)
SlateLeadsOn ==
    (ui.phase = "slate" /\ notice = "none") ~> (ui.phase # "slate" \/ notice # "none")
=============================================================================
