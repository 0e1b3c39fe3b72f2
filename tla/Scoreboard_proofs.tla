-------------------------- MODULE Scoreboard_proofs --------------------------
(***************************************************************************)
(* Safety of the replay controller, for any number of replays and of mpv   *)
(* processes, whatever is clicked and whichever callback fires next; that  *)
(* it implements ReplaySurface; and safety of the scoreboard that is built *)
(* on ReplaySurface, for any number of waiting graphics.                   *)
(***************************************************************************)
EXTENDS ReplayController, Scoreboard, TLAPS

(***************************************************************************)
(* The inductive invariant                                                 *)
(***************************************************************************)

UiType ==
    [phase : {"idle", "in", "slate", "video", "out"}, showing : BOOLEAN,
     trans : BOOLEAN, active : BOOLEAN, host : BOOLEAN, scores : BOOLEAN,
     slate : BOOLEAN, embed : BOOLEAN, won : BOOLEAN]
MtimesType == [last : 0 .. MaxFiles, pending : 0 .. MaxFiles]
Notices == {"none", "unavailable", "recovery", "dismissed"}

InSession == ui.phase \in {"slate", "video", "out"}

(* While the slate fades in nothing else is armed; after that the session is
   "showing" until it ends, and mpv is there only while it is "active". *)
PhaseInv ==
    /\ ui.phase = "in" =>
           /\ ui.trans /\ ~ui.showing /\ ~ui.active
           /\ jobs \subseteq {"transition", "fade"}
    /\ InSession => ui.showing
    /\ fadeTo = "in" => ui.phase = "in"
    /\ proc # NoProcess => ui.active

Inv == TypeOK /\ PhaseInv /\ IdleIsClean /\ OnePlayer /\ BlackScreenReturns

(***************************************************************************)
(* Lemmas                                                                  *)
(***************************************************************************)

LEMMA Bounds == MaxPlays \in Nat \ {0} /\ MaxFiles \in Nat \ {0}
BY ReplayAssumption

LEMMA UiTypes ==
    ASSUME TypeOK
    PROVE  ui \in UiType /\ mtimes \in MtimesType /\ notice \in Notices /\ jobs \subseteq Jobs
BY DEF TypeOK, UiType, MtimesType, Notices

LEMMA IdleType == IdleUi \in UiType /\ IdleUi.phase = "idle"
BY DEF IdleUi, UiType

LEMMA StopType ==
    ASSUME TypeOK, OnePlayer, StopMpv
    PROVE  /\ proc' = NoProcess
           /\ mpv' \in [Plays -> {"none", "playing", "ending", "gone"}]
           /\ \A n \in Plays : mpv'[n] # "playing"
BY DEF TypeOK, OnePlayer, StopMpv

LEMMA NextPlayType ==
    ASSUME MayPlay
    PROVE  NextPlay \in Plays
BY DEF MayPlay, NextPlay

(* The controller and its timers are not touched. *)
LEMMA QuietKeeps ==
    ASSUME Inv, UNCHANGED <<ui, jobs, fadeTo, proc, mpv, black, embedded>>,
           file' \in [mtime : 0 .. MaxFiles, young : BOOLEAN], mtimes' \in MtimesType,
           notice' \in Notices, lockout' \in BOOLEAN
    PROVE  Inv'
BY DEF Inv, TypeOK, PhaseInv, InSession, IdleIsClean, OnePlayer, BlackScreenReturns,
       MtimesType, Notices

(* Every way a session can end, when all timers are cancelled. *)
LEMMA IdleKeeps ==
    ASSUME Inv, GoIdle, UNCHANGED <<file, embedded>>, mtimes' \in MtimesType, notice' \in Notices
    PROVE  Inv'
<1>1. ui' = IdleUi /\ jobs' = {} /\ fadeTo' = "none" /\ proc' = NoProcess
  BY DEF GoIdle, StopMpv
<1>2. ui' \in UiType /\ ui'.phase = "idle"
  BY <1>1, IdleType
<1>3. black' \in [on : BOOLEAN, cover : BOOLEAN] /\ black'.cover = black'.on
      /\ lockout' \in BOOLEAN
  BY UiTypes DEF GoIdle, Inv, TypeOK, BlackScreenReturns, UiType
<1>4. TypeOK'
  BY <1>1, <1>2, <1>3, StopType
     DEF GoIdle, Inv, TypeOK, UiType, MtimesType, Notices
<1>5. OnePlayer'
  BY StopType DEF GoIdle, Inv, OnePlayer
<1>6. PhaseInv' /\ IdleIsClean' /\ BlackScreenReturns'
  BY <1>1, <1>2, <1>3 DEF PhaseInv, InSession, IdleIsClean, BlackScreenReturns
<1> QED
  BY <1>4, <1>5, <1>6 DEF Inv

(* A step within the session after which no mpv is known. *)
LEMMA WithoutMpvKeeps ==
    ASSUME Inv, InSession,
           \/ StopMpv
           \/ proc' = NoProcess /\ mpv' = mpv /\ \A n \in Plays : mpv[n] # "playing",
           ui' \in UiType, ui'.phase \in {"slate", "video", "out"}, ui'.showing,
           jobs' \subseteq Jobs, fadeTo' \in {fadeTo, "none", "out"},
           UNCHANGED <<file, embedded, black, lockout>>, mtimes' \in MtimesType,
           notice' \in Notices
    PROVE  Inv'
<1>1. /\ proc' = NoProcess
      /\ mpv' \in [Plays -> {"none", "playing", "ending", "gone"}]
      /\ \A n \in Plays : mpv'[n] # "playing"
  BY StopType DEF Inv, TypeOK
<1>2. fadeTo' \in {"none", "out"}
  BY DEF Inv, TypeOK, PhaseInv, InSession
<1>3. TypeOK'
  BY <1>1, <1>2 DEF Inv, TypeOK, UiType, MtimesType, Notices
<1>4. PhaseInv' /\ IdleIsClean' /\ OnePlayer'
  BY <1>1, <1>2 DEF PhaseInv, InSession, IdleIsClean, OnePlayer
<1>5. BlackScreenReturns'
  BY DEF Inv, BlackScreenReturns, InSession
<1> QED
  BY <1>3, <1>4, <1>5 DEF Inv

(* A step within the session that leaves mpv alone. *)
LEMMA SessionKeeps ==
    ASSUME Inv, InSession, ui' \in UiType, ui'.phase \in {"slate", "video", "out"},
           ui'.showing, ui.active => ui'.active, jobs' \subseteq Jobs,
           fadeTo' \in {fadeTo, "none", "out"},
           UNCHANGED <<proc, mpv, file, embedded, black, lockout>>, mtimes' \in MtimesType,
           notice' \in Notices
    PROVE  Inv'
<1>1. fadeTo' \in {"none", "out"}
  BY DEF Inv, TypeOK, PhaseInv, InSession
<1>2. TypeOK'
  BY <1>1 DEF Inv, TypeOK, UiType, MtimesType, Notices
<1>3. PhaseInv' /\ IdleIsClean' /\ OnePlayer'
  BY <1>1 DEF Inv, PhaseInv, InSession, IdleIsClean, OnePlayer
<1>4. BlackScreenReturns'
  BY DEF Inv, BlackScreenReturns, InSession
<1> QED
  BY <1>2, <1>3, <1>4 DEF Inv

LEMMA UnavailableKeeps ==
    ASSUME Inv, InSession, NEW u \in UiType, Unavailable(u)
    PROVE  Inv'
<1>1. ui' \in UiType /\ ui'.phase = "slate" /\ ui'.showing
  BY DEF Unavailable, UiType
<1>2. mtimes' \in MtimesType /\ notice' \in Notices /\ jobs' \subseteq Jobs
  BY UiTypes, Bounds DEF Unavailable, Inv, MtimesType, Notices
<1> QED
  BY <1>1, <1>2, WithoutMpvKeeps DEF Unavailable

(* mpv starts only when none is known, so that none is forgotten. *)
LEMMA VideoKeeps ==
    ASSUME Inv, InSession, ~ui.active, MayPlay, NEW mtime \in 0 .. MaxFiles,
           NEW left, left \subseteq Jobs, VideoStarts(mtime, left)
    PROVE  Inv'
<1>1. proc = NoProcess /\ NextPlay \in Plays
  BY NextPlayType DEF Inv, PhaseInv
<1>2. ui' \in UiType /\ ui'.phase = "video" /\ ui'.showing /\ ui'.active
  <2>1. embedded \in BOOLEAN /\ ui \in UiType /\ ui.showing
    BY UiTypes DEF Inv, TypeOK, PhaseInv
  <2>2. PICK b \in BOOLEAN :
          ui' = [ui EXCEPT !.phase = "video", !.active = TRUE, !.won = TRUE, !.embed = FALSE,
                           !.scores = FALSE, !.slate = b]
    BY <2>1 DEF VideoStarts, UiType
  <2> QED
    BY <2>1, <2>2 DEF UiType
<1>3. jobs' \subseteq Jobs /\ mtimes' \in MtimesType
  BY Bounds DEF VideoStarts, Jobs, MtimesType
<1>4. fadeTo' \in {"none", "out"}
  BY DEF VideoStarts, Inv, TypeOK, PhaseInv, InSession
<1>5. /\ proc' = NextPlay
      /\ mpv' = [mpv EXCEPT ![NextPlay] = "playing"]
      /\ mpv \in [Plays -> {"none", "playing", "ending", "gone"}]
  BY DEF VideoStarts, Inv, TypeOK
<1>6. TypeOK'
  BY <1>1, <1>2, <1>3, <1>4, <1>5 DEF VideoStarts, Inv, TypeOK, UiType, MtimesType
<1>7. OnePlayer'
  BY <1>1, <1>5, Bounds DEF Inv, OnePlayer, NoProcess, Plays
<1>8. PhaseInv' /\ IdleIsClean' /\ BlackScreenReturns'
  BY <1>2, <1>4 DEF VideoStarts, Inv, PhaseInv, InSession, IdleIsClean, BlackScreenReturns
<1> QED
  BY <1>6, <1>7, <1>8 DEF Inv

LEMMA FadeOutKeeps ==
    ASSUME Inv, InSession, NEW u \in UiType, NEW armed, armed \subseteq Jobs,
           u.showing, u.phase = ui.phase, ui.active => u.active, FadeOut(u, armed),
           UNCHANGED <<proc, mpv, file, embedded, mtimes, black, lockout>>, notice' \in Notices
    PROVE  Inv'
<1>0. mtimes' \in MtimesType
  BY UiTypes DEF Inv
<1>1. CASE u.phase = "slate"
  <2>1. ui' = [u EXCEPT !.phase = "out", !.trans = TRUE, !.slate = TRUE]
    BY <1>1 DEF FadeOut
  <2>2. ui' \in UiType /\ ui'.phase = "out" /\ ui'.showing /\ ui'.active = u.active
    BY <2>1 DEF UiType
  <2>3. jobs' \subseteq Jobs /\ fadeTo' = "out"
    BY <1>1 DEF FadeOut, Jobs
  <2> QED
    BY <1>0, <2>2, <2>3, SessionKeeps
<1>2. CASE u.phase # "slate"
  <2>1. ui' = u /\ jobs' \subseteq Jobs /\ fadeTo' = fadeTo
    BY <1>2 DEF FadeOut
  <2> QED
    BY <1>0, <2>1, SessionKeeps DEF InSession
<1> QED
  BY <1>1, <1>2

(* A timer that is neither of the fade nor of the transition is armed only in
   a session. *)
LEMMA ArmedInSession ==
    ASSUME Inv, NEW j \in jobs \ {"fade", "transition"}
    PROVE  InSession /\ ui.showing
BY UiTypes DEF Inv, PhaseInv, IdleIsClean, InSession, UiType

LEMMA BusyPhase ==
    ASSUME Inv
    PROVE  (ui.showing \/ ui.active) => InSession /\ ui.showing
BY UiTypes, IdleType DEF Inv, PhaseInv, IdleIsClean, InSession, UiType, IdleUi

(***************************************************************************)
(* The steps                                                               *)
(***************************************************************************)

LEMMA InitHolds == Init => Inv
<1> SUFFICES ASSUME Init PROVE Inv
  OBVIOUS
<1>1. TypeOK
  <2>1. ui \in UiType
    BY IdleType DEF Init
  <2>2. 0 \in 0 .. MaxFiles
    BY Bounds
  <2>3. mpv \in [Plays -> {"none", "playing", "ending", "gone"}]
    BY DEF Init
  <2> QED
    BY <2>1, <2>2, <2>3 DEF Init, TypeOK, UiType
<1> QED
  BY <1>1, Bounds
     DEF Init, Inv, PhaseInv, InSession, IdleIsClean, OnePlayer, BlackScreenReturns, IdleUi,
         Plays, NoProcess

LEMMA WorldKeeps ==
    ASSUME Inv, \/ \E n \in Plays : MpvEnds(n)
                \/ FileArrives \/ FileAges \/ LockoutEnds \/ GraphicShown \/ GraphicDismissed
                \/ ToggleDismisses \/ ToggleIgnored
    PROVE  Inv'
<1>0. /\ mtimes \in MtimesType /\ notice \in Notices /\ lockout \in BOOLEAN
      /\ file \in [mtime : 0 .. MaxFiles, young : BOOLEAN]
  BY UiTypes DEF Inv, TypeOK
<1>1. ASSUME NEW n \in Plays, MpvEnds(n) PROVE Inv'
  BY <1>1 DEF MpvEnds, Inv, TypeOK, PhaseInv, InSession, IdleIsClean, OnePlayer,
              BlackScreenReturns
<1>2. CASE FileArrives \/ FileAges
  <2>1. file' \in [mtime : 0 .. MaxFiles, young : BOOLEAN]
    <3>1. CASE FileArrives
      <4>1. file.mtime + 1 \in 0 .. MaxFiles
        BY <3>1, <1>0, Bounds DEF FileArrives
      <4> QED
        BY <3>1, <4>1 DEF FileArrives
    <3>2. CASE FileAges
      BY <3>2, <1>0 DEF FileAges
    <3> QED
      BY <1>2, <3>1, <3>2
  <2> QED
    BY <1>0, <1>2, <2>1, QuietKeeps DEF FileArrives, FileAges
<1>3. CASE LockoutEnds
  BY <1>0, <1>3, QuietKeeps DEF LockoutEnds
<1>4. CASE GraphicShown \/ GraphicDismissed \/ ToggleDismisses \/ ToggleIgnored
  <2>1. notice' \in Notices
    BY <1>0, <1>4 DEF GraphicShown, GraphicDismissed, ToggleDismisses, ToggleIgnored,
                      NoticeDown, Notices
  <2> QED
    BY <1>0, <1>4, <2>1, QuietKeeps
       DEF GraphicShown, GraphicDismissed, ToggleDismisses, ToggleIgnored
<1> QED
  BY <1>1, <1>2, <1>3, <1>4

LEMMA ToggleKeeps ==
    ASSUME Inv, ToggleStopsVideo \/ ToggleFadesOut \/ ToggleFadesIn
    PROVE  Inv'
<1>0. /\ ui \in UiType /\ jobs \subseteq Jobs /\ mtimes \in MtimesType
      /\ NoticeDown \in Notices /\ embedded \in BOOLEAN
  BY UiTypes DEF Inv, NoticeDown, Notices, TypeOK
<1>1. CASE ToggleStopsVideo
  <2>1. InSession /\ ui.showing
    BY <1>1, BusyPhase DEF ToggleStopsVideo
  <2>2. ui' \in UiType /\ ui'.phase = "slate" /\ ui'.showing
    <3>1. ui' = SlateAfterMpv
      BY <1>1, <2>1 DEF ToggleStopsVideo
    <3>2. PICK b \in BOOLEAN :
            ui' = [ui EXCEPT !.phase = "slate", !.host = FALSE, !.scores = TRUE,
                             !.active = FALSE, !.embed = FALSE, !.slate = b]
      BY <1>0, <3>1 DEF SlateAfterMpv, UiType
    <3> QED
      BY <1>0, <2>1, <3>2 DEF UiType
  <2>3. jobs' \subseteq Jobs
    BY <1>0, <1>1 DEF ToggleStopsVideo, Jobs
  <2> QED
    BY <1>0, <1>1, <2>1, <2>2, <2>3, WithoutMpvKeeps DEF ToggleStopsVideo
<1>2. CASE ToggleFadesOut
  <2>1. InSession /\ ui.showing /\ ~ui.active
    BY <1>2, BusyPhase DEF ToggleFadesOut
  <2>2. /\ [ui EXCEPT !.embed = FALSE] \in UiType
        /\ [ui EXCEPT !.embed = FALSE].showing
        /\ [ui EXCEPT !.embed = FALSE].phase = ui.phase
    BY <1>0, <2>1 DEF UiType
  <2>3. notice' \in Notices /\ jobs \ (Launch \cup {"return"}) \subseteq Jobs
    BY <1>0, <1>2 DEF ToggleFadesOut, Notices
  <2> QED
    BY <1>2, <2>1, <2>2, <2>3, FadeOutKeeps DEF ToggleFadesOut
<1>3. CASE ToggleFadesIn
  <2>1. ui = IdleUi /\ proc = NoProcess /\ jobs = {}
    BY <1>3 DEF ToggleFadesIn, Inv, IdleIsClean
  <2>2. ui' = [ui EXCEPT !.phase = "in", !.trans = TRUE, !.slate = TRUE, !.won = FALSE]
    BY <1>3 DEF ToggleFadesIn
  <2>3. ui' \in UiType /\ ui'.phase = "in" /\ ui'.trans /\ ~ui'.showing /\ ~ui'.active
    BY <1>0, <2>1, <2>2 DEF UiType, IdleUi
  <2>4. jobs' = {"transition", "fade"}
    BY <1>3, <2>1 DEF ToggleFadesIn
  <2>5. black' \in [on : BOOLEAN, cover : BOOLEAN] /\ ~black'.cover
    BY <1>3 DEF ToggleFadesIn, Inv, TypeOK
  <2>6. TypeOK'
    BY <1>3, <2>3, <2>4, <2>5 DEF ToggleFadesIn, Inv, TypeOK, UiType, Jobs
  <2>7. PhaseInv' /\ IdleIsClean' /\ OnePlayer' /\ BlackScreenReturns'
    BY <1>3, <2>1, <2>3, <2>4, <2>5
       DEF ToggleFadesIn, Inv, PhaseInv, InSession, IdleIsClean, OnePlayer, BlackScreenReturns
  <2> QED
    BY <2>6, <2>7 DEF Inv
<1> QED
  BY <1>1, <1>2, <1>3

LEMMA BlackScreenKeeps ==
    ASSUME Inv, NEW on \in BOOLEAN, BlackScreen(on)
    PROVE  Inv'
<1>1. ui.phase = "idle"
  BY UiTypes DEF BlackScreen, Busy, Inv, PhaseInv, InSession, UiType
<1>2. black' = [on |-> on, cover |-> on]
      /\ UNCHANGED <<ui, jobs, fadeTo, proc, mpv, file, embedded, mtimes, notice, lockout>>
  BY DEF BlackScreen
<1>3. TypeOK' /\ BlackScreenReturns'
  BY <1>1, <1>2 DEF Inv, TypeOK, BlackScreenReturns
<1> QED
  BY <1>2, <1>3 DEF Inv, PhaseInv, InSession, IdleIsClean, OnePlayer

LEMMA FadeKeeps ==
    ASSUME Inv, FadedIn \/ FadedOut
    PROVE  Inv'
<1>0. ui \in UiType /\ jobs \subseteq Jobs /\ mtimes \in MtimesType /\ notice \in Notices
  BY UiTypes DEF Inv
<1>1. CASE FadedIn
  <2>1. /\ ui.phase = "in" /\ ~ui.active /\ proc = NoProcess
        /\ ui' = [ui EXCEPT !.phase = "slate", !.showing = TRUE, !.trans = FALSE]
    BY <1>1 DEF FadedIn, FadeEnds, Inv, PhaseInv
  <2>2. ui' \in UiType /\ ui'.phase = "slate" /\ ui'.showing
    BY <1>0, <2>1 DEF UiType
  <2>3. jobs' \subseteq Jobs /\ fadeTo' = "none"
    BY <1>0, <1>1 DEF FadedIn, Jobs
  <2>4. TypeOK'
    BY <1>1, <2>2, <2>3 DEF FadedIn, Inv, TypeOK, UiType
  <2>5. PhaseInv' /\ IdleIsClean' /\ OnePlayer' /\ BlackScreenReturns'
    BY <1>1, <2>1, <2>2, <2>3
       DEF FadedIn, Inv, PhaseInv, InSession, IdleIsClean, OnePlayer, BlackScreenReturns
  <2> QED
    BY <2>4, <2>5 DEF Inv
<1>2. CASE FadedOut
  BY <1>0, <1>2, IdleKeeps DEF FadedOut
<1> QED
  BY <1>1, <1>2

(* Within a session, any way _start_replay_video can go. *)
LEMMA StartVideoKeeps ==
    ASSUME Inv, InSession, ui.showing, NEW left, left \subseteq Jobs, StartVideo(left)
    PROVE  Inv'
<1>0. /\ ui \in UiType /\ jobs \subseteq Jobs /\ mtimes \in MtimesType /\ notice \in Notices
      /\ file.mtime \in 0 .. MaxFiles
  BY UiTypes DEF Inv, TypeOK
<1>1. CASE jobs' \in {left, left \cup {"grace"}}
           /\ UNCHANGED <<ui, fadeTo, proc, mpv, file, embedded, mtimes, notice, black, lockout>>
  <2>1. jobs' \subseteq Jobs /\ ui' = ui /\ ui'.phase \in {"slate", "video", "out"}
    BY <1>1 DEF Jobs, InSession
  <2> QED
    BY <1>0, <1>1, <2>1, SessionKeeps
<1>2. CASE Unavailable(ui)
  BY <1>0, <1>2, UnavailableKeeps
<1>3. CASE Unavailable([ui EXCEPT !.scores = FALSE])
  <2>1. [ui EXCEPT !.scores = FALSE] \in UiType
    BY <1>0 DEF UiType
  <2> QED
    BY <1>3, <2>1, UnavailableKeeps
<1>4. CASE /\ ui' = [ui EXCEPT !.embed = TRUE, !.host = TRUE, !.scores = FALSE]
           /\ jobs' = (left \ {"grace"}) \cup {"embed"}
           /\ mtimes' = [mtimes EXCEPT !.pending = file.mtime]
           /\ UNCHANGED <<fadeTo, proc, mpv, file, embedded, notice, black, lockout>>
  <2>1. ui' \in UiType /\ ui'.phase = ui.phase /\ ui'.showing /\ ui'.active = ui.active
    BY <1>0, <1>4 DEF UiType
  <2>2. mtimes' \in MtimesType /\ jobs' \subseteq Jobs
    BY <1>0, <1>4 DEF MtimesType, Jobs
  <2> QED
    BY <1>0, <1>4, <2>1, <2>2, SessionKeeps DEF InSession
<1>5. CASE ~ui.active /\ MayPlay /\ VideoStarts(file.mtime, left \ {"grace"})
  BY <1>0, <1>5, VideoKeeps
<1> QED
  BY <1>1, <1>2, <1>3, <1>4, <1>5 DEF StartVideo

(* A callback that goes, having found nothing to do. *)
LEMMA DropKeeps ==
    ASSUME Inv, InSession, ui.showing, NEW left, left \subseteq Jobs, jobs' = left,
           UNCHANGED <<ui, fadeTo, proc, mpv, file, embedded, mtimes, notice, black, lockout>>
    PROVE  Inv'
<1>1. ui' \in UiType /\ mtimes' \in MtimesType /\ notice' \in Notices
  BY UiTypes DEF Inv
<1> QED
  BY <1>1, SessionKeeps DEF InSession

LEMMA LaunchKeeps ==
    ASSUME Inv, StartFires \/ EmbedFires \/ GraceFires \/ GraceExpires
    PROVE  Inv'
<1>0. /\ ui \in UiType /\ jobs \subseteq Jobs /\ mtimes \in MtimesType /\ notice \in Notices
      /\ mtimes.pending \in 0 .. MaxFiles
  BY UiTypes DEF Inv, MtimesType
<1>s. InSession /\ ui.showing
  BY ArmedInSession DEF StartFires, EmbedFires, GraceFires, GraceExpires
<1>1. CASE StartFires
  BY <1>0, <1>s, <1>1, StartVideoKeeps DEF StartFires
<1>2. CASE EmbedFires
  <2>1. CASE ui.active
    <3>1. /\ ui' = [ui EXCEPT !.embed = FALSE, !.host = FALSE]
          /\ jobs' = jobs \ {"embed"}
          /\ mtimes' = [mtimes EXCEPT !.pending = 0]
          /\ UNCHANGED <<fadeTo, proc, mpv, file, embedded, notice, black, lockout>>
      BY <1>2, <2>1 DEF EmbedFires
    <3>2. ui' \in UiType /\ ui'.phase = ui.phase /\ ui'.showing /\ ui'.active
      BY <1>0, <1>s, <2>1, <3>1 DEF UiType
    <3>3. mtimes' \in MtimesType
      BY <1>0, <3>1, Bounds DEF MtimesType
    <3> QED
      BY <1>0, <1>s, <3>1, <3>2, <3>3, SessionKeeps DEF InSession
  <2>2. CASE ~ui.active
    BY <1>0, <1>2, <1>s, <2>2, UnavailableKeeps, VideoKeeps DEF EmbedFires
  <2> QED
    BY <2>1, <2>2
<1>3. CASE GraceFires
  BY <1>0, <1>3, <1>s, StartVideoKeeps, DropKeeps DEF GraceFires
<1>4. CASE GraceExpires
  BY <1>0, <1>4, <1>s, UnavailableKeeps DEF GraceExpires
<1> QED
  BY <1>1, <1>2, <1>3, <1>4

LEMMA ReturnKeeps ==
    ASSUME Inv, PollFires \/ ReturnFires
    PROVE  Inv'
<1>0. /\ ui \in UiType /\ jobs \subseteq Jobs /\ mtimes \in MtimesType /\ notice \in Notices
      /\ embedded \in BOOLEAN
  BY UiTypes DEF Inv, TypeOK
<1>s. InSession /\ ui.showing
  BY ArmedInSession DEF PollFires, ReturnFires
<1>1. CASE PollFires
  <2>1. proc' = NoProcess /\ mpv' = mpv /\ \A n \in Plays : mpv[n] # "playing"
    BY <1>1 DEF PollFires, Inv, OnePlayer
  <2>2. ui' \in UiType /\ ui'.phase \in {"slate", "video", "out"} /\ ui'.showing
    <3>1. CASE ui' = SlateAfterMpv
      <4>1. PICK b \in BOOLEAN :
              ui' = [ui EXCEPT !.phase = "slate", !.host = FALSE, !.scores = TRUE,
                               !.active = FALSE, !.embed = FALSE, !.slate = b]
        BY <1>0, <3>1 DEF SlateAfterMpv, UiType
      <4> QED
        BY <1>0, <1>s, <4>1 DEF UiType
    <3>2. CASE ui' = [ui EXCEPT !.active = FALSE]
      BY <1>0, <1>s, <3>2 DEF UiType, InSession
    <3> QED
      BY <1>1, <3>1, <3>2 DEF PollFires
  <2>3. jobs' \subseteq Jobs
    BY <1>0, <1>1 DEF PollFires, Jobs
  <2> QED
    BY <1>0, <1>1, <1>s, <2>1, <2>2, <2>3, WithoutMpvKeeps DEF PollFires
<1>2. CASE ReturnFires
  BY <1>0, <1>2, <1>s, FadeOutKeeps DEF ReturnFires
<1> QED
  BY <1>1, <1>2

LEMMA RecoverKeeps ==
    ASSUME Inv, TransitionTimeout \/ StuckTimeout
    PROVE  Inv'
<1>0. mtimes \in MtimesType /\ jobs \subseteq Jobs /\ 0 \in 0 .. MaxFiles
  BY UiTypes, Bounds DEF Inv
<1>1. CASE Restore /\ UNCHANGED <<file, embedded>>
  <2>1. mtimes' \in MtimesType /\ notice' \in Notices
    BY <1>0, <1>1 DEF Restore, MtimesType, Notices
  <2> QED
    BY <1>1, <2>1, IdleKeeps DEF Restore
<1>2. ASSUME NEW j \in jobs, j \in {"transition", "stuck"}, jobs' = jobs \ {j}, j = "transition" => ~ui.trans,
             UNCHANGED <<ui, fadeTo, proc, mpv, file, embedded, mtimes, notice, black, lockout>>
      PROVE  Inv'
  <2>1. InSession /\ ui.showing
    BY <1>2, UiTypes DEF Inv, PhaseInv, IdleIsClean, InSession, UiType
  <2> QED
    BY <1>0, <1>2, <2>1, DropKeeps
<1> QED
  BY <1>1, <1>2 DEF TransitionTimeout, StuckTimeout, Recovers

(***************************************************************************)
(* The theorems                                                            *)
(***************************************************************************)

LEMMA NextKeeps ==
    ASSUME Inv, [Next]_vars
    PROVE  Inv'
<1>1. CASE Toggle
  BY <1>1, WorldKeeps, ToggleKeeps DEF Toggle
<1>2. CASE Callback
  BY <1>2, WorldKeeps, FadeKeeps, LaunchKeeps, ReturnKeeps, RecoverKeeps DEF Callback
<1>3. CASE UNCHANGED vars
  BY <1>3 DEF vars, Inv, TypeOK, PhaseInv, InSession, IdleIsClean, OnePlayer,
              BlackScreenReturns
<1> QED
  BY <1>1, <1>2, <1>3, WorldKeeps, BlackScreenKeeps DEF Next

LEMMA Invariance == Spec => []Inv
<1>1. Inv /\ [Next]_vars => Inv'
  BY NextKeeps
<1> QED
  BY InitHolds, <1>1, PTL DEF Spec

(* Every variable keeps its type, whatever is clicked and fires. *)
THEOREM TypeCorrect == Spec => []TypeOK
<1>1. Inv => TypeOK
  BY DEF Inv
<1> QED
  BY <1>1, Invariance, PTL

(* stop_replay_video_process: no path loses the handle of an mpv that plays. *)
THEOREM OneAtATime == Spec => []OnePlayer
<1>1. Inv => OnePlayer
  BY DEF Inv
<1> QED
  BY <1>1, Invariance, PTL

(* _apply_idle_scoreboard_state: however a session ends, no timer of it is
   left that could act on the next one, and no mpv. *)
THEOREM NothingSurvives == Spec => []IdleIsClean
<1>1. Inv => IdleIsClean
  BY DEF Inv
<1> QED
  BY <1>1, Invariance, PTL

(* The black screen is down while a replay is up and back when it is over,
   whichever callback ends it. *)
THEOREM BlackScreenIsBack == Spec => []BlackScreenReturns
<1>1. Inv => BlackScreenReturns
  BY DEF Inv
<1> QED
  BY <1>1, Invariance, PTL

(***************************************************************************)
(* The replay controller implements ReplaySurface                          *)
(***************************************************************************)

LEMMA BusyIsNotIdle ==
    ASSUME Inv
    PROVE  Busy <=> ui.phase # "idle"
BY UiTypes, IdleType DEF Inv, PhaseInv, IdleIsClean, InSession, UiType, IdleUi, Busy

LEMMA BusyIsNotIdlePrimed ==
    ASSUME Inv'
    PROVE  Busy' <=> ui'.phase # "idle"
<1>1. ui' \in UiType
  BY DEF Inv, TypeOK, UiType
<1> QED
  BY <1>1, IdleType DEF Inv, PhaseInv, IdleIsClean, InSession, UiType, IdleUi, Busy

(* A step within a session is GoesOn, whatever it does to the slate. *)
LEMMA SessionGoesOn ==
    ASSUME Inv, Inv', ui.phase # "idle", ui'.phase # "idle", UNCHANGED <<black, lockout>>
    PROVE  Surface!GoesOn
<1>1. Busy = TRUE /\ Busy' = TRUE
  BY BusyIsNotIdle, BusyIsNotIdlePrimed DEF Busy, Inv, TypeOK
<1>2. ui'.slate \in BOOLEAN
  BY DEF Inv, TypeOK
<1> QED
  BY <1>1, <1>2 DEF Surface!GoesOn

(* Every way to the idle scoreboard is Ends. *)
LEMMA GoIdleEnds ==
    ASSUME Inv, Inv', ui.phase # "idle", GoIdle
    PROVE  Surface!Ends
<1>1. Busy = TRUE
  BY BusyIsNotIdle DEF Busy, Inv, TypeOK
<1>2. Busy' = FALSE /\ ui'.slate = FALSE
  BY DEF GoIdle, IdleUi, Busy
<1>3. black' = [black EXCEPT !.cover = black.on]
  BY DEF GoIdle, Inv, TypeOK, BlackScreenReturns
<1>4. lockout' \in {lockout, TRUE}
  BY DEF GoIdle, Inv, TypeOK
<1> QED
  BY <1>1, <1>2, <1>3, <1>4 DEF Surface!Ends, Surface!NoReplay

LEMMA QuietStutters ==
    ASSUME UNCHANGED <<ui, black, lockout>>
    PROVE  UNCHANGED Surface!surface
BY DEF Surface!surface, Busy

LEMMA ToggleOnSurface ==
    ASSUME Inv, Inv', Toggle
    PROVE  [Surface!SurfaceNext]_(Surface!surface)
<1>1. CASE ToggleDismisses \/ ToggleIgnored
  BY <1>1, QuietStutters DEF ToggleDismisses, ToggleIgnored
<1>2. CASE ToggleStopsVideo \/ ToggleFadesOut
  <2>1. InSession
    BY <1>2, BusyPhase DEF ToggleStopsVideo, ToggleFadesOut
  <2>2. ui' \in UiType /\ ui \in UiType
    BY DEF Inv, TypeOK, UiType
  <2>3. ui'.phase # "idle"
    BY <1>2, <2>1, <2>2
       DEF ToggleStopsVideo, ToggleFadesOut, FadeOut, SlateAfterMpv, InSession, UiType
  <2>4. UNCHANGED <<black, lockout>>
    BY <1>2 DEF ToggleStopsVideo, ToggleFadesOut
  <2> QED
    BY <2>1, <2>3, <2>4, SessionGoesOn DEF InSession, Surface!SurfaceNext
<1>3. CASE ToggleFadesIn
  <2>1. ~Busy /\ Busy = FALSE
    BY <1>3 DEF ToggleFadesIn, Busy, Inv, TypeOK
  <2>2. ui'.slate = TRUE /\ ui'.trans = TRUE
    BY <1>3 DEF ToggleFadesIn, Inv, TypeOK
  <2>3. Busy' = TRUE
    BY <2>2 DEF Busy, Inv, TypeOK
  <2> QED
    BY <1>3, <2>1, <2>2, <2>3 DEF ToggleFadesIn, Surface!SurfaceNext, Surface!Begins
<1> QED
  BY <1>1, <1>2, <1>3 DEF Toggle

LEMMA CallbackOnSurface ==
    ASSUME Inv, Inv', Callback
    PROVE  [Surface!SurfaceNext]_(Surface!surface)
<1>0. ui \in UiType /\ ui' \in UiType
  BY DEF Inv, TypeOK, UiType
<1>a. ASSUME NEW j \in jobs PROVE ui.phase # "idle"
  BY <1>a DEF Inv, IdleIsClean
<1>1. CASE FadedIn
  <2>1. ui.phase # "idle" /\ ui'.phase # "idle" /\ UNCHANGED <<black, lockout>>
    BY <1>0, <1>1, <1>a DEF FadedIn, FadeEnds, UiType
  <2> QED
    BY <2>1, SessionGoesOn DEF Surface!SurfaceNext
<1>2. CASE FadedOut
  BY <1>2, <1>a, GoIdleEnds DEF FadedOut, FadeEnds, Surface!SurfaceNext
<1>3. CASE StartFires \/ EmbedFires \/ GraceFires \/ GraceExpires
  <2>1. InSession
    BY <1>3, ArmedInSession DEF StartFires, EmbedFires, GraceFires, GraceExpires
  <2>2. UNCHANGED <<black, lockout>>
    BY <1>3 DEF StartFires, EmbedFires, GraceFires, GraceExpires, StartVideo, Unavailable,
                VideoStarts
  <2>3. ui'.phase # "idle"
    <3>0. ASSUME NEW u \in UiType, Unavailable(u) PROVE ui'.phase # "idle"
      BY <3>0 DEF Unavailable, UiType
    <3>v. ASSUME NEW mtime, NEW left, VideoStarts(mtime, left) PROVE ui'.phase # "idle"
      <4>1. PICK b : ui' = [ui EXCEPT !.phase = "video", !.active = TRUE, !.won = TRUE,
                                       !.embed = FALSE, !.scores = FALSE, !.slate = b]
        BY <1>0, <3>v DEF VideoStarts, UiType
      <4> QED
        BY <1>0, <4>1 DEF UiType
    <3>1. ASSUME NEW left, StartVideo(left) PROVE ui'.phase # "idle"
      <4>1. [ui EXCEPT !.scores = FALSE] \in UiType
        BY <1>0 DEF UiType
      <4>2. CASE ui' = ui \/ ui' = [ui EXCEPT !.embed = TRUE, !.host = TRUE, !.scores = FALSE]
        BY <1>0, <2>1, <4>2 DEF InSession, UiType
      <4> QED
        BY <1>0, <3>0, <3>1, <3>v, <4>1, <4>2 DEF StartVideo
    <3>2. CASE StartFires \/ GraceFires
      BY <2>1, <3>1, <3>2 DEF StartFires, GraceFires, InSession
    <3>3. CASE EmbedFires
      <4>1. CASE ui' = [ui EXCEPT !.embed = FALSE, !.host = FALSE]
        BY <1>0, <2>1, <4>1 DEF InSession, UiType
      <4> QED
        BY <1>0, <3>0, <3>3, <3>v, <4>1 DEF EmbedFires
    <3>4. CASE GraceExpires
      BY <1>0, <3>4 DEF GraceExpires, Unavailable, UiType
    <3> QED
      BY <1>3, <3>2, <3>3, <3>4
  <2> QED
    BY <2>1, <2>2, <2>3, SessionGoesOn DEF InSession, Surface!SurfaceNext
<1>4. CASE PollFires \/ ReturnFires
  <2>1. InSession
    BY <1>4, ArmedInSession DEF PollFires, ReturnFires
  <2>2. UNCHANGED <<black, lockout>>
    BY <1>4 DEF PollFires, ReturnFires
  <2>3. ui'.phase # "idle"
    BY <1>0, <1>4, <2>1
       DEF PollFires, ReturnFires, FadeOut, SlateAfterMpv, InSession, UiType
  <2> QED
    BY <2>1, <2>2, <2>3, SessionGoesOn DEF InSession, Surface!SurfaceNext
<1>5. CASE TransitionTimeout \/ StuckTimeout
  <2>1. CASE Restore
    BY <1>5, <1>a, <2>1, GoIdleEnds
       DEF TransitionTimeout, StuckTimeout, Recovers, Restore, Surface!SurfaceNext
  <2>2. CASE UNCHANGED <<ui, black, lockout>>
    BY <2>2, QuietStutters
  <2> QED
    BY <1>5, <2>1, <2>2 DEF TransitionTimeout, StuckTimeout, Recovers
<1>6. CASE LockoutEnds
  <2>1. Busy' = Busy
    BY <1>6 DEF LockoutEnds, Busy
  <2> QED
    BY <1>6, <2>1 DEF LockoutEnds, Surface!SurfaceNext, Surface!LoadingEnds
<1> QED
  BY <1>1, <1>2, <1>3, <1>4, <1>5, <1>6 DEF Callback

LEMMA StepOnSurface ==
    ASSUME Inv, Inv', [Next]_vars
    PROVE  [Surface!SurfaceNext]_(Surface!surface)
<1>1. CASE \E n \in Plays : MpvEnds(n)
  BY <1>1, QuietStutters DEF MpvEnds
<1>2. CASE FileArrives \/ FileAges \/ GraphicShown \/ GraphicDismissed \/ UNCHANGED vars
  BY <1>2, QuietStutters DEF FileArrives, FileAges, GraphicShown, GraphicDismissed, vars
<1>3. ASSUME NEW on \in BOOLEAN, BlackScreen(on)
      PROVE  Surface!Darkens
  <2>1. Busy = FALSE /\ Busy' = Busy
    BY <1>3 DEF BlackScreen, Busy, Inv, TypeOK
  <2> QED
    BY <1>3, <2>1 DEF BlackScreen, Surface!Darkens
<1> QED
  BY <1>1, <1>2, <1>3, ToggleOnSurface, CallbackOnSurface DEF Next, Surface!SurfaceNext

(* ReplaySurface is all the rest of the scoreboard may count on, and all it
   needs: no click, callback, failure or timeout of the replay controller does
   anything to the slate, the cover and the strip that it does not allow. *)
THEOREM SurfaceRefined == Spec => ImplementsSurface
<1>1. Init => Surface!SurfaceInit
  <2>1. Init => Busy = FALSE /\ ui.slate = FALSE
    BY DEF Init, IdleUi, Busy
  <2> QED
    BY <2>1 DEF Init, Surface!SurfaceInit, Surface!NoReplay
<1>2. Inv /\ Inv' /\ [Next]_vars => [Surface!SurfaceNext]_(Surface!surface)
  BY StepOnSurface
<1> QED
  BY <1>1, <1>2, Invariance, PTL DEF Spec, ImplementsSurface, Surface!SurfaceSpec

(***************************************************************************)
(* The scoreboard: the inductive invariant                                 *)
(***************************************************************************)

(* The gate is asked for by the operator's command only, and the retry job is
   there only for a graphic that waits. *)
GateIsOperators == sync => ~gate
RetryHasGraphic == booking.retry => booking.queued > 0

ReplayType == [on : BOOLEAN, slate : BOOLEAN]
DarkType == [on : BOOLEAN, cover : BOOLEAN]
CaptureType == [on : BOOLEAN, seq : {"unseen", "seen", "advanced"}]
SeesType == [believes : BOOLEAN, starts : {0, 1}, idles : {0, 1}]
BookingType == [visible : BOOLEAN, hide : BOOLEAN, queued : 0 .. MaxQueue, retry : BOOLEAN]
StripType == [painted : BOOLEAN, shown : BOOLEAN, covered : BOOLEAN]

SurfaceType == replay \in ReplayType /\ dark \in DarkType /\ loading \in BOOLEAN

(* What is on the screen: the surface, the canvas item and the slideshow. *)
ScreenInv ==
    /\ SurfaceType /\ item \in {"clear", "slides", "booking", "slate"} /\ saver \in BOOLEAN
    /\ NoGhost /\ SaverYields

TimerInv ==
    /\ rec \in {"hidden", "counting", "ended", "info"} /\ sync \in BOOLEAN /\ gate \in BOOLEAN
    /\ capture \in CaptureType /\ sees \in SeesType
    /\ GateIsOperators /\ TimerFollowsEncoder

GraphicInv == booking \in BookingType /\ RetryHasGraphic /\ GraphicsAreServed
StripInv == strip \in StripType /\ StripYields

BoardInv == ScreenInv /\ TimerInv /\ GraphicInv /\ StripInv

(***************************************************************************)
(* Pieces of callbacks                                                     *)
(***************************************************************************)

(* What a step of the replay does to the surface. *)
LEMMA SurfaceSteps ==
    ASSUME SurfaceType
    PROVE  /\ Begins => SurfaceType' /\ replay'.slate /\ dark'.on = dark.on
           /\ GoesOn => SurfaceType' /\ replay.on /\ dark' = dark
           /\ Ends => SurfaceType' /\ replay.on /\ ~replay'.on /\ ~replay'.slate
                        /\ dark'.on = dark.on
           /\ Darkens => SurfaceType' /\ replay' = replay /\ ~replay.on
           /\ LoadingStarts \/ LoadingEnds =>
                  SurfaceType' /\ UNCHANGED <<replay, dark>>
<1>1. ASSUME Begins PROVE SurfaceType' /\ replay'.slate /\ dark'.on = dark.on
  BY <1>1 DEF SurfaceType, ReplayType, DarkType, Begins
<1>2. ASSUME GoesOn PROVE SurfaceType' /\ replay.on /\ dark' = dark
  BY <1>2 DEF SurfaceType, ReplayType, GoesOn
<1>3. ASSUME Ends
      PROVE  SurfaceType' /\ replay.on /\ ~replay'.on /\ ~replay'.slate /\ dark'.on = dark.on
  <2>1. replay' \in ReplayType /\ ~replay'.on /\ ~replay'.slate /\ loading' \in BOOLEAN
    BY <1>3 DEF SurfaceType, ReplayType, Ends, NoReplay
  <2>2. dark' \in DarkType /\ dark'.on = dark.on
    <3>1. PICK c \in BOOLEAN : dark' = [dark EXCEPT !.cover = c]
      BY <1>3 DEF SurfaceType, DarkType, Ends
    <3> QED
      BY <3>1 DEF SurfaceType, DarkType
  <2> QED
    BY <1>3, <2>1, <2>2 DEF SurfaceType, Ends
<1>4. ASSUME Darkens PROVE SurfaceType' /\ replay' = replay /\ ~replay.on
  BY <1>4 DEF SurfaceType, DarkType, Darkens
<1>5. ASSUME LoadingStarts \/ LoadingEnds PROVE SurfaceType' /\ UNCHANGED <<replay, dark>>
  BY <1>5 DEF SurfaceType, LoadingStarts, LoadingEnds
<1> QED
  BY <1>1, <1>2, <1>3, <1>4, <1>5

(* Stopping the slideshow leaves on the item what is not of the slideshow. *)
LEMMA UnderIsClean ==
    ASSUME ScreenInv
    PROVE  /\ Under \in {"clear", "booking", "slate"}
           /\ Under = "booking" => booking.visible
           /\ Under = "slate" => replay.slate
BY DEF ScreenInv, NoGhost, Under

(* A replay draws its slate, or takes it away, and no other slate is left. *)
LEMMA DrawsIsClean ==
    ASSUME NEW below, below = "slate" => replay.slate, Draws(below)
    PROVE  /\ item' \in {"clear", below, "slate"}
           /\ item' = "slate" => replay'.slate
BY DEF Draws

(* The strip, after anything else that covers it has changed. *)
LEMMA CoverIsKept ==
    ASSUME strip \in StripType, strip.shown <=> (strip.painted /\ ~strip.covered),
           NEW covered \in BOOLEAN, CoverStrip(covered)
    PROVE  /\ strip' \in StripType
           /\ strip'.covered = covered
           /\ strip'.shown <=> (strip'.painted /\ ~strip'.covered)
BY DEF CoverStrip, StripType

LEMMA RecordingKeepsStrip ==
    ASSUME StripInv, NEW to, RecordingBecomes(to), booking' = booking
    PROVE  StripInv' /\ rec' = to
BY CoverIsKept DEF RecordingBecomes, StripInv, StripYields

LEMMA GraphicKeeps ==
    ASSUME ScreenInv, GraphicInv, StripInv, NEW left \in 0 .. MaxQueue, ShowGraphic(left),
           UNCHANGED <<surface, rec>>
    PROVE  ScreenInv' /\ GraphicInv' /\ StripInv'
<1>0. booking \in BookingType /\ left \in Nat /\ SurfaceType' /\ ~saver'
  BY DEF GraphicInv, ScreenInv, SurfaceType, surface, ShowGraphic
<1>1. CASE /\ item' = "booking"
           /\ booking' = [visible |-> TRUE, hide |-> TRUE, queued |-> left, retry |-> left > 0]
           /\ CoverStrip(TRUE)
  <2>1. GraphicInv' /\ booking'.visible
    <3>1. PICK more \in BOOLEAN :
            /\ more = (left > 0)
            /\ booking' = [visible |-> TRUE, hide |-> TRUE, queued |-> left, retry |-> more]
      <4> WITNESS (left > 0) \in BOOLEAN
      <4> QED
        BY <1>1
    <3> QED
      BY <1>0, <3>1 DEF GraphicInv, BookingType, GraphicsAreServed, RetryHasGraphic
  <2>2. StripInv'
    BY <1>1, <2>1, CoverIsKept DEF StripInv, StripYields
  <2>3. ScreenInv'
    BY <1>0, <1>1, <2>1 DEF ShowGraphic, ScreenInv, NoGhost, SaverYields
  <2> QED
    BY <2>1, <2>2, <2>3
<1>2. CASE /\ item' = Under
           /\ booking' = [booking EXCEPT !.queued = left, !.retry = left > 0]
           /\ UNCHANGED strip
  <2>1. GraphicInv' /\ booking'.visible = booking.visible
    <3>1. PICK more \in BOOLEAN :
            /\ more = (left > 0)
            /\ booking' = [booking EXCEPT !.queued = left, !.retry = more]
      <4> WITNESS (left > 0) \in BOOLEAN
      <4> QED
        BY <1>2
    <3> QED
      BY <1>0, <3>1 DEF GraphicInv, BookingType, GraphicsAreServed, RetryHasGraphic
  <2>2. StripInv'
    BY <1>2, <2>1 DEF StripInv, StripYields
  <2>3. ScreenInv'
    BY <1>0, <1>2, <2>1, UnderIsClean DEF ShowGraphic, ScreenInv, NoGhost, SaverYields, surface
  <2> QED
    BY <2>1, <2>2, <2>3
<1> QED
  BY <1>1, <1>2 DEF ShowGraphic

(* What a step leaves alone stays as it is. *)
LEMMA PartsStay ==
    ASSUME BoardInv
    PROVE  /\ UNCHANGED <<surface, item, saver, booking>> => ScreenInv'
           /\ UNCHANGED recording => TimerInv'
           /\ UNCHANGED booking => GraphicInv'
           /\ UNCHANGED <<rec, booking, strip>> => StripInv'
<1>1. UNCHANGED <<surface, item, saver, booking>> => ScreenInv'
  BY DEF BoardInv, ScreenInv, SurfaceType, NoGhost, SaverYields, surface
<1>2. UNCHANGED recording => TimerInv'
  BY DEF BoardInv, TimerInv, GateIsOperators, TimerFollowsEncoder, recording
<1>3. UNCHANGED booking => GraphicInv'
  BY DEF BoardInv, GraphicInv, RetryHasGraphic, GraphicsAreServed
<1>4. UNCHANGED <<rec, booking, strip>> => StripInv'
  BY DEF BoardInv, StripInv, StripYields
<1> QED
  BY <1>1, <1>2, <1>3, <1>4

(* The slideshow is stopped, and at most the cover or the strip changes. *)
LEMMA WokenKeeps ==
    ASSUME BoardInv, Woken, UNCHANGED booking,
           UNCHANGED surface \/ Darkens \/ LoadingStarts
    PROVE  ScreenInv'
<1>1. SurfaceType' /\ replay' = replay
  BY SurfaceSteps DEF BoardInv, ScreenInv, SurfaceType, surface
<1> QED
  BY <1>1, UnderIsClean DEF BoardInv, ScreenInv, Woken, NoGhost, SaverYields

LEMMA ToggleReplayKeeps ==
    ASSUME BoardInv, ToggleReplay, UNCHANGED booking
    PROVE  ScreenInv'
<1>1. CASE item' = Under /\ UNCHANGED surface
  BY <1>1, WokenKeeps DEF ToggleReplay, Woken
<1>2. CASE (Begins \/ GoesOn) /\ Draws(Under)
  <2>1. SurfaceType'
    BY <1>2, SurfaceSteps DEF BoardInv, ScreenInv
  <2>2. item' \in {"clear", Under, "slate"} /\ (item' = "slate" => replay'.slate)
    BY <1>2, UnderIsClean, DrawsIsClean DEF BoardInv
  <2> QED
    BY <2>1, <2>2, UnderIsClean
       DEF BoardInv, ScreenInv, ToggleReplay, NoGhost, SaverYields
<1> QED
  BY <1>1, <1>2 DEF ToggleReplay

(***************************************************************************)
(* The scoreboard: the steps                                               *)
(***************************************************************************)

LEMMA CommandKeeps ==
    ASSUME BoardInv, Command
    PROVE  BoardInv'
<1>1. CASE OtherCommand \/ ScreenCommand
  BY <1>1, WokenKeeps, PartsStay DEF OtherCommand, ScreenCommand, BoardInv, recording
<1>2. CASE ToggleCommand
  BY <1>2, ToggleReplayKeeps, PartsStay DEF ToggleCommand, BoardInv, recording
<1>3. CASE StartRecording
  <2>1. ScreenInv' /\ GraphicInv'
    BY <1>3, WokenKeeps, PartsStay DEF StartRecording
  <2>2. TimerInv' /\ StripInv'
    BY <1>3, RecordingKeepsStrip, PartsStay
       DEF StartRecording, RecordingBecomes, BoardInv, TimerInv, GateIsOperators,
           TimerFollowsEncoder
  <2> QED
    BY <2>1, <2>2 DEF BoardInv
<1>4. CASE DismissRecording
  <2>1. ScreenInv' /\ GraphicInv'
    BY <1>4, WokenKeeps, PartsStay DEF DismissRecording
  <2>2. TimerInv' /\ rec' \in {"hidden", "info"}
    BY <1>4 DEF DismissRecording, RecordingBecomes, BoardInv, TimerInv, GateIsOperators,
                TimerFollowsEncoder
  <2>3. StripInv'
    BY <1>4, RecordingKeepsStrip DEF DismissRecording, BoardInv, StripInv, StripYields
  <2> QED
    BY <2>1, <2>2, <2>3 DEF BoardInv
<1> QED
  BY <1>1, <1>2, <1>3, <1>4 DEF Command

LEMMA ReplayOnScreenKeeps ==
    ASSUME BoardInv, ReplayEnds \/ ReplayGoesOn \/ LockoutFinished \/ IdleTimeout \/ SlideShown
    PROVE  BoardInv'
<1>0. TimerInv' /\ GraphicInv' /\ StripInv'
  BY PartsStay
     DEF ReplayEnds, ReplayGoesOn, LockoutFinished, IdleTimeout, SlideShown, recording
<1>1. ScreenInv'
  <2>1. CASE ReplayEnds
    BY <2>1, SurfaceSteps DEF ReplayEnds, BoardInv, ScreenInv, NoGhost, SaverYields
  <2>2. CASE ReplayGoesOn
    <3>1. item = "slate" => replay.slate
      BY DEF BoardInv, ScreenInv, NoGhost
    <3>2. item' \in {"clear", item, "slate"} /\ (item' = "slate" => replay'.slate)
      BY <2>2, <3>1, DrawsIsClean DEF ReplayGoesOn
    <3> QED
      BY <2>2, <3>2, SurfaceSteps DEF ReplayGoesOn, BoardInv, ScreenInv, NoGhost, SaverYields
  <2>3. CASE LockoutFinished
    BY <2>3, SurfaceSteps DEF LockoutFinished, BoardInv, ScreenInv, NoGhost, SaverYields
  <2>4. CASE IdleTimeout \/ SlideShown
    BY <2>4 DEF IdleTimeout, SlideShown, BoardInv, ScreenInv, SurfaceType, NoGhost,
                SaverYields, surface
  <2> QED
    BY <2>1, <2>2, <2>3, <2>4
<1> QED
  BY <1>0, <1>1 DEF BoardInv

LEMMA TimerKeeps ==
    ASSUME BoardInv, GateAnswers \/ MaxLength \/ SlateExpires \/ EncoderPublishes \/ SyncPoll
    PROVE  BoardInv'
<1>0. ScreenInv' /\ GraphicInv'
  BY PartsStay DEF GateAnswers, MaxLength, SlateExpires, EncoderPublishes, SyncPoll
<1>1. CASE GateAnswers
  <2>1. TimerInv'
    BY <1>1 DEF GateAnswers, RecordingBecomes, BoardInv, TimerInv, GateIsOperators,
                TimerFollowsEncoder
  <2>2. StripInv'
    BY <1>1, RecordingKeepsStrip, PartsStay DEF GateAnswers, BoardInv
  <2> QED
    BY <1>0, <2>1, <2>2 DEF BoardInv
<1>2. CASE MaxLength
  <2>1. TimerInv' /\ StripInv'
    BY <1>2 DEF MaxLength, BoardInv, TimerInv, GateIsOperators, TimerFollowsEncoder,
                StripInv, StripYields
  <2> QED
    BY <1>0, <2>1 DEF BoardInv
<1>3. CASE SlateExpires
  <2>1. TimerInv'
    BY <1>3 DEF SlateExpires, RecordingBecomes, BoardInv, TimerInv, GateIsOperators,
                TimerFollowsEncoder
  <2>2. StripInv'
    BY <1>3, RecordingKeepsStrip DEF SlateExpires, BoardInv
  <2> QED
    BY <1>0, <2>1, <2>2 DEF BoardInv
<1>4. CASE EncoderPublishes
  <2>1. TimerInv'
    BY <1>4 DEF EncoderPublishes, BoardInv, TimerInv, CaptureType, GateIsOperators,
                TimerFollowsEncoder
  <2> QED
    BY <1>0, <1>4, <2>1, PartsStay DEF EncoderPublishes, BoardInv
<1>5. CASE SyncPoll
  <2>0. /\ capture' \in CaptureType
        /\ UNCHANGED <<sync, gate, booking>>
    BY <1>5 DEF SyncPoll, BoardInv, TimerInv, CaptureType
  <2>1. CASE SampleIdle
    <3>1. /\ sees' \in SeesType
          /\ sees'.believes <=> sees.believes /\ sees.idles = 0
      BY <2>1 DEF SampleIdle, BoardInv, TimerInv, SeesType
    <3>2. TimerInv'
      BY <2>0, <2>1, <3>1
         DEF SampleIdle, RecordingBecomes, BoardInv, TimerInv, SeesType, GateIsOperators,
             TimerFollowsEncoder
    <3>3. StripInv'
      BY <2>0, <2>1, RecordingKeepsStrip, PartsStay DEF SampleIdle, BoardInv
    <3> QED
      BY <1>0, <3>2, <3>3 DEF BoardInv
  <2>2. CASE SampleCapture
    <3>1. /\ sees' \in SeesType
          /\ sees'.believes <=> sees.believes \/ sees.starts = 1
      BY <2>2 DEF SampleCapture, BoardInv, TimerInv, SeesType
    <3>2. TimerInv'
      BY <2>0, <2>2, <3>1
         DEF SampleCapture, RecordingBecomes, BoardInv, TimerInv, SeesType, GateIsOperators,
             TimerFollowsEncoder
    <3>3. StripInv'
      BY <2>0, <2>2, RecordingKeepsStrip, PartsStay DEF SampleCapture, BoardInv
    <3> QED
      BY <1>0, <3>2, <3>3 DEF BoardInv
  <2> QED
    BY <1>5, <2>1, <2>2 DEF SyncPoll
<1> QED
  BY <1>1, <1>2, <1>3, <1>4, <1>5

LEMMA BookingKeeps ==
    ASSUME BoardInv, RequestQueued \/ RequestShown \/ RetryFires \/ HideFires
    PROVE  BoardInv'
<1>0. TimerInv' /\ booking \in BookingType
  BY PartsStay DEF RequestQueued, RequestShown, RetryFires, HideFires, BoardInv, GraphicInv
<1>1. CASE RequestQueued
  <2>1. PICK n \in {1, 2} :
          /\ booking.queued + n <= MaxQueue
          /\ booking' = [booking EXCEPT !.queued = booking.queued + n, !.retry = TRUE]
    BY <1>1, <1>0 DEF RequestQueued, BookingType
  <2>2. GraphicInv' /\ booking'.visible = booking.visible
    <3>1. booking.queued + n \in 0 .. MaxQueue /\ booking.queued + n > 0
      BY <1>0, <2>1, BoardAssumption DEF BookingType
    <3>2. /\ booking' \in BookingType /\ booking'.retry
          /\ booking'.queued = booking.queued + n
          /\ booking'.visible = booking.visible /\ booking'.hide = booking.hide
      BY <1>0, <2>1, <3>1 DEF BookingType
    <3> QED
      BY <3>1, <3>2 DEF BoardInv, GraphicInv, RetryHasGraphic, GraphicsAreServed
  <2>3. StripInv'
    BY <1>1, <2>2 DEF RequestQueued, BoardInv, StripInv, StripYields, recording
  <2>4. ScreenInv'
    <3>1. CASE Woken
      BY <1>1, <2>2, <3>1, UnderIsClean
         DEF RequestQueued, Woken, BoardInv, ScreenInv, SurfaceType, NoGhost, SaverYields, surface
    <3>2. CASE UNCHANGED <<item, saver>>
      BY <1>1, <2>2, <3>2
         DEF RequestQueued, BoardInv, ScreenInv, SurfaceType, NoGhost, SaverYields, surface
    <3> QED
      BY <1>1, <3>1, <3>2 DEF RequestQueued
  <2> QED
    BY <1>0, <2>2, <2>3, <2>4 DEF BoardInv
<1>2. CASE RequestShown
  <2>1. booking.queued \in 0 .. MaxQueue
    BY <1>0 DEF BookingType
  <2> QED
    BY <1>0, <1>2, <2>1, GraphicKeeps DEF RequestShown, BoardInv, recording
<1>3. CASE RetryFires
  <2>1. booking.queued - 1 \in 0 .. MaxQueue
    BY <1>0, <1>3, BoardAssumption
       DEF RetryFires, BoardInv, GraphicInv, RetryHasGraphic, BookingType
  <2> QED
    BY <1>0, <1>3, <2>1, GraphicKeeps DEF RetryFires, BoardInv, recording
<1>4. CASE HideFires
  <2>1. GraphicInv' /\ ~booking'.visible
    BY <1>0, <1>4
       DEF HideFires, BoardInv, GraphicInv, BookingType, RetryHasGraphic, GraphicsAreServed
  <2>2. StripInv'
    BY <1>4, <2>1, CoverIsKept DEF HideFires, BoardInv, StripInv, StripYields, recording
  <2>3. ScreenInv'
    BY <1>4 DEF HideFires, BoardInv, ScreenInv, SurfaceType, NoGhost, SaverYields, surface
  <2> QED
    BY <1>0, <2>1, <2>2, <2>3 DEF BoardInv
<1> QED
  BY <1>1, <1>2, <1>3, <1>4

LEMMA StripKeeps ==
    ASSUME BoardInv, StripPainted
    PROVE  BoardInv'
<1>1. PICK b \in BOOLEAN :
        b = (~strip.covered) /\ strip' = [strip EXCEPT !.painted = TRUE, !.shown = b]
  <2> WITNESS (~strip.covered) \in BOOLEAN
  <2> QED
    BY DEF StripPainted
<1>2. StripInv'
  BY <1>1 DEF StripPainted, BoardInv, StripInv, StripType, StripYields, recording
<1> QED
  BY <1>2, PartsStay DEF StripPainted, BoardInv

LEMMA BoardInitHolds == BoardInit => BoardInv
<1> SUFFICES ASSUME BoardInit PROVE BoardInv
  OBVIOUS
<1>1. ScreenInv
  BY DEF BoardInit, SurfaceInit, NoReplay, ScreenInv, SurfaceType, ReplayType, DarkType,
         NoGhost, SaverYields
<1>2. TimerInv
  BY DEF BoardInit, TimerInv, CaptureType, SeesType, GateIsOperators, TimerFollowsEncoder
<1>3. GraphicInv
  BY BoardAssumption
     DEF BoardInit, GraphicInv, BookingType, RetryHasGraphic, GraphicsAreServed
<1>4. StripInv
  BY DEF BoardInit, StripInv, StripType, StripYields
<1> QED
  BY <1>1, <1>2, <1>3, <1>4 DEF BoardInv

LEMMA BoardInvariance == BoardSpec => []BoardInv
<1>1. BoardInv /\ [BoardNext]_boardVars => BoardInv'
  <2> SUFFICES ASSUME BoardInv, [BoardNext]_boardVars PROVE BoardInv'
    OBVIOUS
  <2>1. CASE UNCHANGED boardVars
    BY <2>1, PartsStay DEF boardVars, BoardInv, recording
  <2> QED
    BY <2>1, CommandKeeps, ReplayOnScreenKeeps, TimerKeeps, BookingKeeps, StripKeeps
       DEF BoardNext
<1> QED
  BY BoardInitHolds, <1>1, PTL DEF BoardSpec

(***************************************************************************)
(* The scoreboard: the theorems                                            *)
(***************************************************************************)

(* Every variable of the scoreboard keeps its type, and no more graphics wait
   than MaxQueue. *)
THEOREM BoardTypeCorrect == BoardSpec => []BoardTypeOK
<1>1. BoardInv => BoardTypeOK
  BY DEF BoardInv, ScreenInv, SurfaceType, ReplayType, DarkType, TimerInv, CaptureType,
         SeesType, GraphicInv, BookingType, StripInv, StripType, BoardTypeOK
<1> QED
  BY <1>1, BoardInvariance, PTL

(* The canvas item has three writers and no owner, and yet what is on it is
   always something that is up, and that will clear it. *)
THEOREM NoGhostStays == BoardSpec => []NoGhost
<1>1. BoardInv => NoGhost
  BY DEF BoardInv, ScreenInv
<1> QED
  BY <1>1, BoardInvariance, PTL

(* check_idle_timeout and the commands: no order of them leaves a slideshow
   running over a replay or in the dark. *)
THEOREM SaverAlwaysYields == BoardSpec => []SaverYields
<1>1. BoardInv => SaverYields
  BY DEF BoardInv, ScreenInv
<1> QED
  BY <1>1, BoardInvariance, PTL

(* The encoder strip is on the screen unless the recording window or a graphic
   is, however these two overlap. *)
THEOREM StripAlwaysYields == BoardSpec => []StripYields
<1>1. BoardInv => StripYields
  BY DEF BoardInv, StripInv
<1> QED
  BY <1>1, BoardInvariance, PTL

(* In sync mode nothing but the encoder brings the timer up: no command, and
   no answer of a gate that was asked for. *)
THEOREM TimerIsTheEncoders == BoardSpec => []TimerFollowsEncoder
<1>1. BoardInv => TimerFollowsEncoder
  BY DEF BoardInv, TimerInv
<1> QED
  BY <1>1, BoardInvariance, PTL

(* A graphic that is up has its hide job, one that waits has a retry job. *)
THEOREM GraphicsAlwaysServed == BoardSpec => []GraphicsAreServed
<1>1. BoardInv => GraphicsAreServed
  BY DEF BoardInv, GraphicInv
<1> QED
  BY <1>1, BoardInvariance, PTL
=============================================================================
