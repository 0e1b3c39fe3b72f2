---------------------------- MODULE ReplaySurface ----------------------------
(***************************************************************************)
(* What the rest of the scoreboard sees of a replay: whether one is on,    *)
(* whether its slate is drawn, the black screen that gives way to it, and  *)
(* the loading strip that follows one that played.  Scoreboard is built on *)
(* this; ReplayController, which has the phases, the timers and mpv, is    *)
(* shown to implement it.                                                  *)
(***************************************************************************)
VARIABLES
    replay,   \* blocks_idle, _replay_command_is_on; and the slate on the canvas
    dark,     \* black_screen_active, black_screen_cover_visible
    loading   \* ReplayBufferLoadingOverlay._sequence_active

surface == <<replay, dark, loading>>

NoReplay == [on |-> FALSE, slate |-> FALSE]

SurfaceInit ==
    /\ replay = NoReplay
    /\ dark = [on |-> FALSE, cover |-> FALSE]
    /\ loading = FALSE

(* The slate begins to fade in, over everything. *)
Begins ==
    /\ ~replay.on
    /\ replay' = [on |-> TRUE, slate |-> TRUE]
    /\ dark' = [dark EXCEPT !.cover = FALSE]
    /\ UNCHANGED loading

(* The slate gives way to an embedded video, or comes back after it. *)
GoesOn ==
    /\ replay.on
    /\ \E drawn \in BOOLEAN : replay' = [on |-> TRUE, slate |-> drawn]
    /\ UNCHANGED <<dark, loading>>

(* Whatever ended it: the black screen is back if it is on, and a replay
   that played is followed by the loading strip. *)
Ends ==
    /\ replay.on
    /\ replay' = NoReplay
    /\ dark' = [dark EXCEPT !.cover = dark.on]
    /\ loading' \in {loading, TRUE}

Darkens ==
    /\ ~replay.on
    /\ \E on \in BOOLEAN : dark.on # on /\ dark' = [on |-> on, cover |-> on]
    /\ UNCHANGED <<replay, loading>>

(* start_sequence, by the command replay_buffer_loading *)
LoadingStarts == loading' = TRUE /\ UNCHANGED <<replay, dark>>

LoadingEnds == loading /\ loading' = FALSE /\ UNCHANGED <<replay, dark>>

SurfaceNext == Begins \/ GoesOn \/ Ends \/ Darkens \/ LoadingStarts \/ LoadingEnds

SurfaceSpec == SurfaceInit /\ [][SurfaceNext]_surface
=============================================================================
