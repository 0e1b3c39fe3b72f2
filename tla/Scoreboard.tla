----------------------------- MODULE Scoreboard -----------------------------
(***************************************************************************)
(* scoreboard/scoreboard/app.py with the overlays it hangs together: the   *)
(* slideshow (screensaver.py), the recording timer (recording_overlay.py)  *)
(* that follows the encoder (encoder_recording_sync.py), the welcome and   *)
(* goodbye graphics of a booking (booking_overlay.py) and the encoder      *)
(* strip (encoder_status_overlay.py).                                      *)
(*                                                                         *)
(* One Tk thread runs them all, but nobody arbitrates: the slideshow, the  *)
(* booking graphic and the replay's slate are drawn on ONE canvas item,    *)
(* and each takes itself down with a timer of its own.  The check of OBS   *)
(* before a recording answers from a thread, a while after it was asked.   *)
(*                                                                         *)
(* Delays are not modelled, what on_streamdeck_input schedules at 0 ms is  *)
(* part of the command, and Tk's own calls do not raise.  The replay is    *)
(* ReplaySurface.                                                          *)
(***************************************************************************)
EXTENDS ReplaySurface, Integers

CONSTANT MaxQueue   \* bound: booking graphics that wait for a replay

ASSUME BoardAssumption == MaxQueue \in Nat \ {0}

VARIABLES
    item,      \* what the shared overlay_canvas item shows
    saver,     \* Screensaver._active
    rec,       \* RecordingOverlay._state
    sync,      \* settings.recording_encoder_sync_enabled
    gate,      \* _recording_obs_check_in_flight
    capture,   \* encoder_state.json: capturing, and the session number since the last poll
    sees,      \* _encoder_sync_believes_recording and its two streaks
    booking,   \* _booking_overlay_visible, its hide job, the pending queue and its retry job
    strip      \* EncoderStatusOverlay: painted once, on the screen, _hidden_for_recording

recording == <<rec, sync, gate, capture, sees>>
boardVars == <<surface, item, saver, recording, booking, strip>>

BoardInit ==
    /\ SurfaceInit
    /\ item = "clear" /\ saver = FALSE
    /\ rec = "hidden" /\ sync \in BOOLEAN /\ gate = FALSE
    /\ capture \in [on : BOOLEAN, seq : {"unseen"}]
    /\ sees = [believes |-> FALSE, starts |-> 0, idles |-> 0]
    /\ booking = [visible |-> FALSE, hide |-> FALSE, queued |-> 0, retry |-> FALSE]
    /\ strip = [painted |-> FALSE, shown |-> FALSE, covered |-> FALSE]

(* is_sequence_active and _replay_command_is_on: a booking graphic waits. *)
ReplayBusy == replay.on \/ loading

(***************************************************************************)
(* Pieces of callbacks                                                     *)
(***************************************************************************)

(* Mutant: the last slide stays on the canvas. *)
Under_Slide == item

(* What the item shows once the slideshow is stopped: stop puts the
   transparent image back, if it runs. *)
Under == IF saver THEN "clear" ELSE item

(* Any command leaves the slideshow. *)
Woken == saver' = FALSE /\ item' = Under

(* A step of the replay draws the slate over `below`, or takes it away; its
   frames come from jobs of their own, so the first may still be due. *)
Draws(below) ==
    item' \in IF replay'.slate THEN {below, "slate"}
              ELSE IF replay.slate THEN {"clear"} ELSE {below}

(* set_recording_overlay_covers *)
CoverStrip(covered) ==
    strip' = IF covered = strip.covered THEN strip
             ELSE [strip EXCEPT !.covered = covered, !.shown = strip.painted /\ ~covered]

(* The recording window changes, and the strip makes way for it or comes back:
   on_ui_visibility. *)
RecordingBecomes(to) ==
    /\ rec' = to
    /\ CoverStrip(to # "hidden" \/ booking.visible)

MayStart == rec \notin {"ended", "info"}   \* can_start_countdown_from_hotkey

(***************************************************************************)
(* Commands                                                                *)
(***************************************************************************)

(* Scores, mpv keys, what is ignored and what is unknown: handle_command
   stops the slideshow before it looks at the action. *)
OtherCommand ==
    /\ Woken
    /\ UNCHANGED <<surface, recording, booking, strip>>

(* toggle_replay, and replay_on and replay_off, which ask for it when the
   replay is not as they want it: a notice, a transition or REPLAY_ENABLED=0
   swallow it. *)
ToggleReplay ==
    /\ saver' = FALSE
    /\ \/ item' = Under /\ UNCHANGED surface
       \/ (Begins \/ GoesOn) /\ Draws(Under)

ToggleCommand == ToggleReplay /\ UNCHANGED <<recording, booking, strip>>

(* black_screen_on, black_screen_off, reset_scores; replay_buffer_loading *)
ScreenCommand ==
    /\ Woken
    /\ Darkens \/ LoadingStarts
    /\ UNCHANGED <<recording, booking, strip>>

(* on_recording_start_hotkey: with the OBS check, or without it.  In sync mode
   the encoder alone starts the timer. *)
StartRecording ==
    /\ Woken
    /\ ~sync /\ ~gate /\ MayStart
    /\ \/ gate' = TRUE /\ UNCHANGED <<rec, strip>>
       \/ RecordingBecomes("counting") /\ UNCHANGED gate
    /\ UNCHANGED <<surface, sync, capture, sees, booking>>

(* on_recording_dismiss_hotkey *)
DismissRecording ==
    /\ Woken
    /\ rec # "hidden" /\ ~(sync /\ sees.believes /\ rec = "counting")
    /\ IF rec = "info"
       THEN RecordingBecomes("hidden")
       ELSE rec' = "info" /\ UNCHANGED strip   \* the window stays up
    /\ UNCHANGED <<surface, sync, gate, capture, sees, booking>>

Command ==
    \/ OtherCommand \/ ToggleCommand \/ ScreenCommand
    \/ StartRecording \/ DismissRecording

(***************************************************************************)
(* The replay, as it goes on by itself                                     *)
(***************************************************************************)

ReplayEnds ==
    /\ Ends /\ item' = "clear"
    /\ UNCHANGED <<saver, recording, booking, strip>>

ReplayGoesOn ==
    /\ GoesOn /\ Draws(item)
    /\ UNCHANGED <<saver, recording, booking, strip>>

(* The strip after the replay is over: EnableReplay. *)
LockoutFinished ==
    /\ LoadingEnds
    /\ UNCHANGED <<item, saver, recording, booking, strip>>

(***************************************************************************)
(* The slideshow                                                           *)
(***************************************************************************)

(* Mutant: the black screen is forgotten. *)
IdleTimeout_InTheDark ==
    /\ ~saver /\ ~replay.on /\ rec = "hidden" /\ ~(sync /\ sees.believes)
    /\ saver' = TRUE
    /\ UNCHANGED <<surface, item, recording, booking, strip>>

(* check_idle_timeout, after idle_timeout_ms without a command.  It does not
   ask whether a booking graphic is up. *)
IdleTimeout ==
    /\ ~saver /\ ~replay.on /\ rec = "hidden" /\ ~(sync /\ sees.believes) /\ ~dark.on
    /\ saver' = TRUE
    /\ UNCHANGED <<surface, item, recording, booking, strip>>

(* _animate_frames; without a readable image there is nothing to show. *)
SlideShown ==
    /\ saver
    /\ item' = "slides"
    /\ UNCHANGED <<surface, saver, recording, booking, strip>>

(***************************************************************************)
(* The recording timer                                                     *)
(***************************************************************************)

(* _on_recording_obs_check_done.  A failed check fails open, or closed with a
   graphic of the replay controller's. *)
GateAnswers ==
    /\ gate /\ gate' = FALSE
    /\ \/ MayStart /\ RecordingBecomes("counting")
       \/ UNCHANGED <<rec, strip>>
    /\ UNCHANGED <<surface, item, saver, sync, capture, sees, booking>>

(* _countdown_tick at the maximum: another slate in the same window. *)
MaxLength ==
    /\ rec = "counting" /\ rec' = "ended"
    /\ UNCHANGED <<surface, item, saver, sync, gate, capture, sees, booking, strip>>

(* _ended_dismiss_fire, _session_end_info_fire *)
SlateExpires ==
    /\ ~MayStart /\ RecordingBecomes("hidden")
    /\ UNCHANGED <<surface, item, saver, sync, gate, capture, sees, booking>>

(* The encoder publishes.  A session that is over before the next poll shows
   only in its number, which starts over with the operator. *)
EncoderPublishes ==
    /\ \E seq \in {capture.seq, "advanced"} :
        /\ seq # capture.seq => ~capture.on /\ capture.seq = "seen"
        /\ capture' = [on |-> ~capture.on, seq |-> seq]
    /\ UNCHANGED <<surface, item, saver, rec, sync, gate, sees, booking, strip>>

(* infer_capturing_from_payload *)
Capturing == capture.on \/ capture.seq = "advanced"

(* Mutant: one sample is enough, and the window is left alone. *)
SampleIdle_LeavesTimer ==
    /\ ~Capturing
    /\ sees' = [believes |-> sees.believes /\ sees.idles = 0, starts |-> 0,
                idles |-> IF sees.believes /\ sees.idles = 0 THEN 1 ELSE 0]
    /\ UNCHANGED <<rec, strip>>

(* Mutant: the streak starts over at every poll. *)
SampleIdle_StreakLost ==
    /\ ~Capturing
    /\ sees' = [sees EXCEPT !.starts = 0, !.idles = 0]
    /\ UNCHANGED <<rec, strip>>

(* Two idle samples in a row take the timer down, without the end slate. *)
SampleIdle ==
    /\ ~Capturing
    /\ sees' = [believes |-> sees.believes /\ sees.idles = 0, starts |-> 0,
                idles |-> IF sees.believes /\ sees.idles = 0 THEN 1 ELSE 0]
    /\ IF sees.believes /\ sees.idles = 1 /\ rec = "counting"
       THEN RecordingBecomes("hidden")
       ELSE UNCHANGED <<rec, strip>>

(* Two samples in a row bring it up, over whatever slate is there. *)
SampleCapture ==
    /\ Capturing
    /\ sees' = [believes |-> sees.believes \/ sees.starts = 1, idles |-> 0,
                starts |-> IF sees.believes \/ sees.starts = 1 THEN 0 ELSE 1]
    /\ IF ~sees.believes /\ sees.starts = 1
       THEN RecordingBecomes("counting")
       ELSE UNCHANGED <<rec, strip>>

(* _encoder_recording_poll_tick; a file that is missing, unreadable or stale
   changes nothing. *)
SyncPoll ==
    /\ sync
    /\ SampleIdle \/ SampleCapture
    /\ capture' = [capture EXCEPT !.seq = "seen"]
    /\ UNCHANGED <<surface, item, saver, sync, gate, booking>>

(***************************************************************************)
(* Booking graphics                                                        *)
(***************************************************************************)

(* show_image_overlay.  Mind that the idle clock runs on. *)
ShowGraphic(left) ==
    /\ saver' = FALSE
    /\ \/ /\ item' = "booking"
          /\ booking' = [visible |-> TRUE, hide |-> TRUE, queued |-> left, retry |-> left > 0]
          /\ CoverStrip(TRUE)
       \/ /\ item' = Under   \* the image cannot be read
          /\ booking' = [booking EXCEPT !.queued = left, !.retry = left > 0]
          /\ UNCHANGED strip

(* _handle_booking_overlay_request, by the command (which has stopped the
   slideshow) or by the poll, which may ask for welcome and goodbye at once. *)
RequestQueued ==
    /\ ReplayBusy
    /\ \E n \in {1, 2} :
        /\ booking.queued + n <= MaxQueue
        /\ booking' = [booking EXCEPT !.queued = @ + n, !.retry = TRUE]
    /\ Woken \/ UNCHANGED <<item, saver>>
    /\ UNCHANGED <<surface, recording, strip>>

RequestShown ==
    /\ ~ReplayBusy
    /\ ShowGraphic(booking.queued)
    /\ UNCHANGED <<surface, recording>>

(* Mutant: the tick serves one graphic and does not come back. *)
RetryFires_Once ==
    /\ booking.retry /\ ~ReplayBusy
    /\ saver' = FALSE /\ item' = "booking"
    /\ booking' = [visible |-> TRUE, hide |-> TRUE, queued |-> booking.queued - 1, retry |-> FALSE]
    /\ CoverStrip(TRUE)
    /\ UNCHANGED <<surface, recording>>

(* _booking_overlay_replay_retry_tick.  While a replay is on it only comes
   back a second later (and moves the head of the queue to its end, if
   booking_overlay_suppress_during_replay is off). *)
RetryFires ==
    /\ booking.retry /\ ~ReplayBusy
    /\ ShowGraphic(booking.queued - 1)
    /\ UNCHANGED <<surface, recording>>

(* Mutant: the strip comes back although the recording window is up. *)
HideFires_BaresStrip ==
    /\ booking.hide
    /\ booking' = [booking EXCEPT !.visible = FALSE, !.hide = FALSE]
    /\ CoverStrip(FALSE)
    /\ item' = "clear" /\ saver' = FALSE
    /\ UNCHANGED <<surface, recording>>

(* _finish_hide_booking_overlay: the item is cleared whoever drew on it last,
   and a slideshow is stopped. *)
HideFires ==
    /\ booking.hide
    /\ booking' = [booking EXCEPT !.visible = FALSE, !.hide = FALSE]
    /\ CoverStrip(rec # "hidden")
    /\ item' = "clear" /\ saver' = FALSE
    /\ UNCHANGED <<surface, recording>>

(***************************************************************************)
(* The encoder strip                                                       *)
(***************************************************************************)

(* EncoderStatusOverlay._poll_tick: the other picture, hidden while covered. *)
StripPainted ==
    /\ strip' = [strip EXCEPT !.painted = TRUE, !.shown = ~strip.covered]
    /\ UNCHANGED <<surface, item, saver, recording, booking>>

BoardNext ==
    \/ Command
    \/ ReplayEnds \/ ReplayGoesOn \/ LockoutFinished
    \/ IdleTimeout \/ SlideShown
    \/ GateAnswers \/ MaxLength \/ SlateExpires \/ EncoderPublishes \/ SyncPoll
    \/ RequestQueued \/ RequestShown \/ RetryFires \/ HideFires
    \/ StripPainted

(* The poll of the encoder's file reschedules itself whatever it read. *)
BoardSpec == BoardInit /\ [][BoardNext]_boardVars /\ WF_boardVars(SyncPoll)

(***************************************************************************)
(* Properties                                                              *)
(***************************************************************************)

BoardTypeOK ==
    /\ replay \in [on : BOOLEAN, slate : BOOLEAN]
    /\ dark \in [on : BOOLEAN, cover : BOOLEAN]
    /\ loading \in BOOLEAN
    /\ item \in {"clear", "slides", "booking", "slate"}
    /\ saver \in BOOLEAN /\ sync \in BOOLEAN /\ gate \in BOOLEAN
    /\ rec \in {"hidden", "counting", "ended", "info"}
    /\ capture \in [on : BOOLEAN, seq : {"unseen", "seen", "advanced"}]
    /\ sees \in [believes : BOOLEAN, starts : {0, 1}, idles : {0, 1}]
    /\ booking \in [visible : BOOLEAN, hide : BOOLEAN, queued : 0 .. MaxQueue, retry : BOOLEAN]
    /\ strip \in [painted : BOOLEAN, shown : BOOLEAN, covered : BOOLEAN]

(* Three features draw on one canvas item, and one may clear away another's
   picture.  But whatever is on it belongs to one that is up and will clear it:
   no slide, graphic or slate is left on the scoreboard. *)
NoGhost ==
    /\ item = "slides" => saver
    /\ item = "booking" => booking.visible
    /\ item = "slate" => replay.slate

(* The slideshow never runs under a replay or in the dark, in whatever order
   commands and idle checks come. *)
SaverYields == saver => ~replay.on /\ ~dark.on

(* The comment on the strip: hidden while the recording window is shown,
   restored when it is dismissed; and so for a booking graphic, when the two
   overlap in any way and the strip is repainted underneath. *)
StripYields ==
    /\ strip.covered <=> (rec # "hidden" \/ booking.visible)
    /\ strip.shown <=> (strip.painted /\ ~strip.covered)

(* In sync mode the timer is never counting for a capture that the scoreboard
   does not believe in. *)
TimerFollowsEncoder == sync /\ rec = "counting" => sees.believes

(* A graphic that is up is taken down, and one that waits is tried again. *)
GraphicsAreServed ==
    /\ booking.visible => booking.hide
    /\ booking.queued > 0 => booking.retry

(* The timer does not outlive the recording: when the encoder stays idle, the
   scoreboard stops counting. *)
TimerEnds == (sync /\ <>[](~capture.on)) => <>[](rec # "counting")
=============================================================================
