--------------------------- MODULE Launcher_proofs ---------------------------
(***************************************************************************)
(* Safety of the lease, for any number of launchers, applications, intents *)
(* and events: types, the restart budget among them, and that a supervisor *)
(* starts nothing the operator had stopped, however long its lease lapsed. *)
(***************************************************************************)
EXTENDS Launcher, SequenceTheorems, TLAPS

(***************************************************************************)
(* The inductive invariant                                                 *)
(***************************************************************************)

Intent == [act : Verbs, app : Apps]

(* An intent in work is one of those counted at the heartbeat. *)
Sound == {m \in Memory : m.pc \in {"look", "act", "move"} => m.left > 0 /\ m.job \in Intent}
SupOK == sup \in [Launchers -> Sound]
LeaseOK ==
    lease \in [owner : Launchers \cup {"nobody"}, alive : BOOLEAN, fresh : BOOLEAN,
               released : BOOLEAN]
FilesOK ==
    /\ snapshot \subseteq Apps /\ wish \subseteq Apps
    /\ pending \in Seq(Intent) /\ Len(pending) <= events /\ events \in 0..MaxEvents
AppsOK == procs \in [Apps -> 0..MaxProcs] /\ sick \subseteq Apps
BoardOK ==
    /\ status \in Statuses /\ age \in {"fresh", "stale", "old"}
    /\ saver \in BOOLEAN /\ closing \in BOOLEAN
    /\ ui \in Apps \cup {"idle"}

(* Every intent that waits was an event, so the bound on events bounds them. *)
Types == SupOK /\ LeaseOK /\ FilesOK /\ AppsOK /\ BoardOK

(***************************************************************************)
(* Lemmas about the operators                                              *)
(***************************************************************************)

LEMMA Names ==
    /\ "obs" \in Apps /\ "scoreboard" \in Apps /\ "encoder_watchdog" \in Apps
    /\ "worker" \in Apps
    /\ \A i \in 1..4 : BootOrder[i] \in Apps
BY DEF Apps, BootOrder

LEMMA ProcsType ==
    ASSUME NEW ps \in [Apps -> 0..MaxProcs], NEW a \in Apps, NEW stopped
    PROVE  /\ OneMore(ps, a) \in [Apps -> 0..MaxProcs]
           /\ StartOne(ps, a) \in [Apps -> 0..MaxProcs]
           /\ Started(ps, a, stopped) \in [Apps -> 0..MaxProcs]
<1>0. MaxProcs \in Nat \ {0}
  BY LauncherAssumption
<1>1. \A qs \in [Apps -> 0..MaxProcs], b \in Apps : OneMore(qs, b) \in [Apps -> 0..MaxProcs]
  BY <1>0 DEF OneMore
<1>2. \A qs \in [Apps -> 0..MaxProcs], b \in Apps : StartOne(qs, b) \in [Apps -> 0..MaxProcs]
  BY <1>1 DEF StartOne
<1> QED
  BY <1>1, <1>2, Names DEF Started

LEMMA WithoutType ==
    ASSUME AppsOK, NEW killed
    PROVE  Without(killed) \in [Apps -> 0..MaxProcs]
BY LauncherAssumption DEF AppsOK, Without

LEMMA ChangedType ==
    ASSUME AppsOK, NEW ps \in [Apps -> 0..MaxProcs], Changed(ps)
    PROVE  AppsOK'
BY DEF AppsOK, Changed

LEMMA HandledType ==
    ASSUME AppsOK, BoardOK, NEW ps \in [Apps -> 0..MaxProcs], NEW killed, Handled(ps, killed)
    PROVE  AppsOK' /\ saver' \in BOOLEAN /\ closing' \in BOOLEAN
BY DEF AppsOK, BoardOK, Handled

LEMMA OffType == Off \in Sound
<1>1. MaxRestarts \in Nat /\ MaxEvents \in Nat
  BY LauncherAssumption
<1>2. Absent \in Statuses
  BY <1>1 DEF Absent, Statuses
<1> QED
  BY <1>1, <1>2 DEF Off, Memory, NoJob, Sound

LEMMA EventType ==
    ASSUME FilesOK, Event
    PROVE  events' \in 0..MaxEvents /\ events' = events + 1 /\ events \in Nat
BY LauncherAssumption DEF FilesOK, Event

LEMMA TailType ==
    ASSUME FilesOK, pending # <<>>
    PROVE  Head(pending) \in Intent /\ Tail(pending) \in Seq(Intent)
           /\ Len(Tail(pending)) <= events
<1>1. /\ Head(pending) \in Intent /\ Tail(pending) \in Seq(Intent)
      /\ Len(Tail(pending)) = Len(pending) - 1
  BY HeadTailProperties DEF FilesOK
<1> QED
  BY <1>1, LenProperties DEF FilesOK

(* Only the memory of l changes. *)
LEMMA OneMemory ==
    ASSUME SupOK, NEW l \in Launchers, NEW m \in Sound, sup' = [sup EXCEPT ![l] = m]
    PROVE  SupOK' /\ sup'[l] = m /\ \A k \in Launchers \ {l} : sup'[k] = sup[k]
BY DEF SupOK

(* The steps that only change the memory of l, which goes on. *)
LEMMA GoesType ==
    ASSUME SupOK, NEW l \in Launchers,
           NEW pc \in {"claim", "boot", "validate"} \cup LoopPCs,
           pc \notin {"look", "act", "move"}, Goes(l, pc)
    PROVE  SupOK' /\ sup'[l].pc = pc /\ \A k \in Launchers \ {l} : sup'[k] = sup[k]
<1>1. sup[l] \in Memory
  BY DEF SupOK, Sound
<1>2. [sup[l] EXCEPT !.pc = pc, !.at = 1] \in Sound
  <2>1. /\ sup[l].pc \in {"off", "claim", "boot", "validate"} \cup LoopPCs
        /\ pc \in {"off", "claim", "boot", "validate"} \cup LoopPCs /\ 1 \in 1..4
    BY <1>1 DEF Memory
  <2> QED
    BY <1>1, <2>1 DEF Memory, Sound
<1>3. sup' = [sup EXCEPT ![l] = [sup[l] EXCEPT !.pc = pc, !.at = 1]]
  BY DEF Goes, SupOK
<1>4. [sup[l] EXCEPT !.pc = pc, !.at = 1].pc = pc
  BY <1>1 DEF Memory
<1> QED
  BY <1>2, <1>3, <1>4, OneMemory

(***************************************************************************)
(* Types                                                                   *)
(***************************************************************************)

LEMMA InitTypes == Init => Types
<1> SUFFICES ASSUME Init PROVE Types
  OBVIOUS
<1>1. MaxProcs \in Nat /\ MaxEvents \in Nat
  BY LauncherAssumption
<1>2. SupOK
  BY OffType DEF Init, SupOK
<1>3. FilesOK
  BY <1>1 DEF Init, FilesOK
<1>4. AppsOK /\ LeaseOK
  BY <1>1 DEF Init, AppsOK, LeaseOK
<1>5. BoardOK
  <2>1. Absent \in Statuses
    BY <1>1 DEF Absent, Statuses
  <2> QED
    BY <2>1 DEF Init, BoardOK
<1> QED
  BY <1>2, <1>3, <1>4, <1>5 DEF Types

(* The life of a launcher outside the loop. *)
LEMMA LifeTypes ==
    ASSUME Types, NEW l \in Launchers,
           Reads(l) \/ Claims(l) \/ Crash(l) \/ Release(l) \/ Boots(l) \/ Validates(l)
    PROVE  Types'
<1> USE DEF Types
<1>m. sup[l] \in Memory
  BY DEF SupOK, Sound
<1>e. \A leased \in [owner : Launchers \cup {"nobody"}, alive : BOOLEAN, fresh : BOOLEAN,
                     released : BOOLEAN] :
        Ends(l, leased) => SupOK' /\ LeaseOK'
  BY OffType DEF Ends, LeaseOK, SupOK
<1>w. \A r \in BOOLEAN : Written(l, r) \in [owner : Launchers \cup {"nobody"}, alive : BOOLEAN,
                                            fresh : BOOLEAN, released : BOOLEAN]
  BY DEF Written
<1>1. CASE Reads(l)
  <2>1. [sup[l] EXCEPT !.pc = "claim"] \in Sound
    BY <1>m DEF Memory, Sound
  <2>2. sup' = sup \/ sup' = [sup EXCEPT ![l] = [sup[l] EXCEPT !.pc = "claim"]]
    BY <1>1 DEF Reads, SupOK
  <2>3. SupOK'
    BY <2>1, <2>2 DEF SupOK
  <2> QED
    BY <1>1, <2>3 DEF Reads, files, apps, board, LeaseOK, FilesOK, AppsOK, BoardOK
<1>2. CASE Claims(l)
  <2>1. SupOK'
    BY <1>2, GoesType DEF Claims
  <2>2. LeaseOK'
    BY <1>2, <1>w DEF Claims, LeaseOK
  <2> QED
    BY <1>2, <2>1, <2>2 DEF Claims, apps, board, FilesOK, AppsOK, BoardOK
<1>3. CASE Crash(l)
  <2>1. SupOK' /\ LeaseOK'
    BY <1>3, <1>e DEF Crash, LeaseOK
  <2> QED
    BY <1>3, <2>1 DEF Crash, apps, board, FilesOK, AppsOK, BoardOK
<1>4. CASE Release(l)
  <2>1. SupOK' /\ LeaseOK'
    BY <1>4, <1>e, <1>w DEF Release
  <2> QED
    BY <1>4, <2>1 DEF Release, apps, board, FilesOK, AppsOK, BoardOK
<1>5. CASE Boots(l)
  <2>1. sup[l].at \in 1..4
    BY <1>m DEF Memory
  <2>2. AppsOK'
    <3>1. OneMore(procs, BootOrder[sup[l].at]) \in [Apps -> 0..MaxProcs]
      BY <2>1, Names, ProcsType DEF AppsOK
    <3> QED
      BY <1>5, <3>1, ChangedType DEF Boots
  <2>3. SupOK'
    <3>1. CASE sup[l].at < 4
      <4>1. [sup[l] EXCEPT !.at = @ + 1] \in Sound
        BY <1>5, <1>m, <3>1, <2>1 DEF Boots, At, Memory, Sound
      <4>2. sup' = [sup EXCEPT ![l] = [sup[l] EXCEPT !.at = @ + 1]]
        BY <1>5, <3>1 DEF Boots, SupOK
      <4> QED
        BY <4>1, <4>2, OneMemory
    <3>2. CASE ~(sup[l].at < 4)
      BY <1>5, <3>2, GoesType DEF Boots
    <3> QED
      BY <3>1, <3>2
  <2> QED
    BY <1>5, <2>2, <2>3 DEF Boots, files, board, LeaseOK, FilesOK, BoardOK
<1>6. CASE Validates(l)
  <2>1. SupOK' /\ LeaseOK'
    <3>1. CASE Ends(l, Written(l, FALSE))
      BY <3>1, <1>e, <1>w
    <3>2. CASE /\ sup' = [sup EXCEPT ![l] = [Rehydrated(@) EXCEPT !.pc = "beat"]]
               /\ UNCHANGED lease
      <4>1. [Rehydrated(sup[l]) EXCEPT !.pc = "beat"] \in Sound
        BY <1>m DEF Memory, Rehydrated, FilesOK, LoopPCs, Sound
      <4>2. sup' = [sup EXCEPT ![l] = [Rehydrated(sup[l]) EXCEPT !.pc = "beat"]]
        BY <3>2 DEF SupOK
      <4> QED
        BY <3>2, <4>1, <4>2, OneMemory DEF LeaseOK
    <3> QED
      BY <1>6, <3>1, <3>2 DEF Validates
  <2> QED
    BY <1>6, <2>1 DEF Validates, apps, board, FilesOK, AppsOK, BoardOK
<1> QED
  BY <1>1, <1>2, <1>3, <1>4, <1>5, <1>6

(* The loop: the heartbeat and the intents. *)
LEMMA IntentTypes ==
    ASSUME Types, NEW l \in Launchers,
           Beat(l) \/ Applies(l) \/ Looks(l) \/ Acts(l) \/ Moves(l)
    PROVE  Types'
<1> USE DEF Types
<1>m. sup[l] \in Memory
  BY DEF SupOK, Sound
<1>n. MaxEvents \in Nat
  BY LauncherAssumption
<1>1. CASE Beat(l)
  <2>1. Len(pending) \in 0..MaxEvents
    BY <1>n, LenProperties DEF FilesOK
  <2>2. [sup[l] EXCEPT !.pc = "intents", !.at = 1, !.left = Len(pending)] \in Sound
    <3>1. 1 \in 1..4 /\ "intents" \in {"off", "claim", "boot", "validate"} \cup LoopPCs
      BY DEF LoopPCs
    <3> HIDE DEF Types
    <3> QED
      BY <1>m, <2>1, <3>1 DEF Memory, Sound
  <2>3. sup' = [sup EXCEPT ![l] = [sup[l] EXCEPT !.pc = "intents", !.at = 1, !.left = Len(pending)]]
    BY <1>1 DEF Beat, SupOK
  <2>4. SupOK'
    BY <2>2, <2>3, OneMemory
  <2>5. LeaseOK'
    BY <1>1 DEF Beat, Written, LeaseOK
  <2> QED
    BY <1>1, <2>4, <2>5 DEF Beat, apps, board, FilesOK, AppsOK, BoardOK
<1>2. CASE Applies(l)
  <2>1. PICK stopped \in SUBSET Apps, pc \in {"move", "look", "act"} : Wants(l, stopped, pc)
    <3>1. Head(pending).app \in Apps
      BY <1>2, TailType DEF Applies, Intent
    <3>2. sup[l].stopped \subseteq Apps
      BY <1>m DEF Memory
    <3> QED
      BY <1>2, <3>1, <3>2 DEF Applies
  <2>2. [sup[l] EXCEPT !.stopped = stopped, !.pc = pc, !.job = Head(pending)] \in Sound
    <3>1. Head(pending) \in Intent
      BY <1>2, TailType DEF Applies
    <3>2. stopped \in SUBSET Apps /\ pc \in {"off", "claim", "boot", "validate"} \cup LoopPCs
      BY <2>1 DEF LoopPCs
    <3>3. sup[l].left > 0
      BY <1>2 DEF Applies
    <3> QED
      BY <1>m, <3>1, <3>2, <3>3 DEF Memory, Intent, Sound
  <2>3. sup' = [sup EXCEPT ![l] = [sup[l] EXCEPT !.stopped = stopped, !.pc = pc, !.job = Head(pending)]]
    BY <2>1 DEF Wants, SupOK
  <2>4. SupOK'
    BY <2>2, <2>3, OneMemory
  <2>5. FilesOK'
    <3>1. Head(pending).app \in Apps
      BY <1>2, TailType DEF Applies, Intent
    <3>2. wish' \subseteq Apps
      BY <1>2, <3>1 DEF Applies, FilesOK
    <3>3. snapshot' \subseteq Apps
      BY <2>1 DEF Wants, FilesOK
    <3> QED
      BY <1>2, <3>2, <3>3 DEF Applies, FilesOK
  <2> QED
    BY <1>2, <2>4, <2>5 DEF Applies, apps, board, LeaseOK, AppsOK, BoardOK
<1>3. CASE Looks(l)
  <2>1. PICK spare \in BOOLEAN : sup' = [sup EXCEPT ![l].spare = spare, ![l].pc = "act"]
    BY <1>3 DEF Looks
  <2>2. [sup[l] EXCEPT !.spare = spare, !.pc = "act"] \in Sound
    BY <1>3, <1>m DEF Looks, At, SupOK, Memory, LoopPCs, Sound
  <2>3. sup' = [sup EXCEPT ![l] = [sup[l] EXCEPT !.spare = spare, !.pc = "act"]]
    BY <2>1 DEF SupOK
  <2>4. SupOK'
    BY <2>2, <2>3, OneMemory
  <2> QED
    BY <1>3, <2>4 DEF Looks, files, apps, board, LeaseOK, FilesOK, AppsOK, BoardOK
<1>4. CASE Acts(l)
  <2>1. sup[l].job.app \in Apps
    BY <1>4 DEF Acts, At, SupOK, Sound, Intent
  <2>2. AppsOK' /\ saver' \in BOOLEAN /\ closing' \in BOOLEAN
    <3>1. PICK ps, killed : /\ Handled(ps, killed)
                           /\ \/ ps = Without(killed)
                              \/ ps = Started(Without(killed), sup[l].job.app, sup[l].stopped)
      BY <1>4 DEF Acts
    <3>2. ps \in [Apps -> 0..MaxProcs]
      BY <2>1, <3>1, WithoutType, ProcsType
    <3> QED
      BY <3>1, <3>2, HandledType
  <2>3. [sup[l] EXCEPT !.pc = "move", !.spare = FALSE] \in Sound
    BY <1>4, <1>m DEF Acts, At, SupOK, Memory, LoopPCs, Sound
  <2>4. sup' = [sup EXCEPT ![l] = [sup[l] EXCEPT !.pc = "move", !.spare = FALSE]]
    BY <1>4 DEF Acts, SupOK
  <2>5. SupOK'
    BY <2>3, <2>4, OneMemory
  <2> QED
    BY <1>4, <2>2, <2>5 DEF Acts, files, LeaseOK, FilesOK, BoardOK
<1>5. CASE Moves(l)
  <2>1. PICK n \in {sup[l].left - 1, 0}, pc \in {"intents", "beat"} :
           sup' = [sup EXCEPT ![l].pc = pc, ![l].left = n, ![l].job = NoJob]
    BY <1>5 DEF Moves
  <2>2. [sup[l] EXCEPT !.pc = pc, !.left = n, !.job = NoJob] \in Sound
    <3>1. sup[l].left \in 0..MaxEvents /\ sup[l].left > 0
      BY <1>5, <1>m DEF Moves, At, SupOK, Sound, Memory
    <3>2. n \in 0..MaxEvents /\ pc \in {"off", "claim", "boot", "validate"} \cup LoopPCs
      BY <1>n, <2>1, <3>1 DEF LoopPCs
    <3> QED
      BY <1>m, <2>1, <3>2 DEF Memory, Sound
  <2>3. sup' = [sup EXCEPT ![l] = [sup[l] EXCEPT !.pc = pc, !.left = n, !.job = NoJob]]
    BY <2>1 DEF SupOK
  <2>4. SupOK'
    BY <2>2, <2>3, OneMemory
  <2>5. FilesOK'
    <3>1. CASE pending # <<>> /\ pending' = Tail(pending) /\ UNCHANGED events
      BY <1>5, <3>1, TailType DEF Moves, FilesOK
    <3>2. CASE Event /\ UNCHANGED pending
      BY <1>5, <3>2, EventType, LenProperties DEF Moves, FilesOK
    <3> QED
      BY <1>5, <3>1, <3>2 DEF Moves
  <2> QED
    BY <1>5, <2>4, <2>5 DEF Moves, apps, board, LeaseOK, AppsOK, BoardOK
<1> QED
  BY <1>1, <1>2, <1>3, <1>4, <1>5

(* The loop: the scoreboard's status. *)
LEMMA WatchTypes ==
    ASSUME Types, NEW l \in Launchers,
           Watches(l) \/ RestartsObs(l) \/ SaverStays(l) \/ SaverEnds(l)
    PROVE  Types'
<1> USE DEF Types
<1>m. sup[l] \in Memory
  BY DEF SupOK, Sound
<1>n. MaxEvents \in Nat /\ MaxProcs \in Nat \ {0}
  BY LauncherAssumption
<1>s. status \in Statuses /\ status.req \in 0..MaxEvents
  BY DEF BoardOK, Statuses
<1>1. CASE Watches(l)
  <2>1. CASE age # "fresh"
    <3>1. SupOK'
      BY <1>1, <2>1, GoesType DEF Watches, LoopPCs
    <3> QED
      BY <1>1, <2>1, <3>1 DEF Watches, files, apps, board, LeaseOK, FilesOK, AppsOK, BoardOK
  <2>2. CASE age = "fresh"
    <3>1. PICK asked \in BOOLEAN, pc \in {"reobs", "saver"} :
             /\ sup' = [sup EXCEPT ![l].seen = status, ![l].asked = asked, ![l].pc = pc]
             /\ Changed([procs EXCEPT !["obs"] = 0]) \/ UNCHANGED apps
      BY <1>1, <2>2 DEF Watches
    <3>2. [sup[l] EXCEPT !.seen = status, !.asked = asked, !.pc = pc] \in Sound
      BY <1>m, <1>s DEF Memory, LoopPCs, Sound
    <3>3. sup' = [sup EXCEPT ![l] = [sup[l] EXCEPT !.seen = status, !.asked = asked, !.pc = pc]]
      BY <3>1 DEF SupOK
    <3>4. SupOK'
      BY <3>2, <3>3, OneMemory
    <3>5. AppsOK'
      <4>1. 0 \in 0..MaxProcs /\ procs \in [Apps -> 0..MaxProcs]
        BY <1>n DEF AppsOK
      <4>2. [procs EXCEPT !["obs"] = 0] \in [Apps -> 0..MaxProcs]
        BY <4>1, Zenon
      <4> QED
        BY <3>1, <4>2, ChangedType DEF apps, AppsOK
    <3> QED
      BY <1>1, <3>4, <3>5 DEF Watches, files, board, LeaseOK, FilesOK, BoardOK
  <2> QED
    BY <2>1, <2>2
<1>2. CASE RestartsObs(l)
  <2>1. sup[l].seen \in Statuses /\ sup[l].seen.req \in 0..MaxEvents
    BY <1>m DEF Memory, Statuses
  <2>2. [sup[l].seen EXCEPT !.req = 0] \in Statuses
    BY <1>n, <2>1 DEF Statuses
  <2>3. CASE At(l, "reobs") /\ Acknowledges(l)
    <3>1. [sup[l] EXCEPT !.pc = "saver", !.key = sup[l].seen.req] \in Sound
      BY <1>m, <2>1 DEF Memory, LoopPCs, Sound
    <3>2. sup' = [sup EXCEPT ![l] = [sup[l] EXCEPT !.pc = "saver", !.key = sup[l].seen.req]]
      BY <2>3 DEF Acknowledges, SupOK
    <3>3. SupOK'
      BY <3>1, <3>2, OneMemory
    <3>4. AppsOK'
      BY <2>3, Names, ProcsType, ChangedType DEF Acknowledges, AppsOK
    <3>5. age' \in {"fresh", "stale", "old"} /\ status' \in Statuses
      BY <2>2, <2>3 DEF Acknowledges, OneOlder, BoardOK
    <3>6. BoardOK' /\ FilesOK' /\ LeaseOK'
      BY <1>2, <2>3, <3>5 DEF RestartsObs, Acknowledges, files, BoardOK, FilesOK, LeaseOK
    <3> QED
      BY <3>3, <3>4, <3>6
  <2>4. CASE At(l, "reobs") /\ FailsToStart(l)
    <3>1. Absent \in Statuses
      BY <1>n DEF Absent, Statuses
    <3>2. [sup[l] EXCEPT !.pc = "beat", !.seen = Absent, !.asked = FALSE] \in Sound
      BY <1>m, <3>1 DEF Memory, LoopPCs, Sound
    <3>3. sup' = [sup EXCEPT ![l] = [sup[l] EXCEPT !.pc = "beat", !.seen = Absent,
                                                   !.asked = FALSE]]
      BY <2>4 DEF FailsToStart, SupOK
    <3>4. SupOK'
      BY <3>2, <3>3, OneMemory
    <3>5. BoardOK' /\ AppsOK' /\ LeaseOK'
      BY <1>2, <2>4 DEF RestartsObs, FailsToStart, files, apps, BoardOK, AppsOK, LeaseOK
    <3>6. FilesOK'
      BY <1>2, <2>4, EventType, LenProperties DEF RestartsObs, FailsToStart, files, FilesOK
    <3> QED
      BY <3>4, <3>5, <3>6
  <2> QED
    BY <1>2, <2>3, <2>4 DEF RestartsObs
<1>3. CASE SaverStays(l)
  <2>1. Seen(l) \in {"unknown", "on", "off"}
    BY DEF Seen
  <2>2. Absent \in Statuses
    BY <1>n DEF Absent, Statuses
  <2>3. [sup[l] EXCEPT !.pc = "tick", !.saver = Seen(l), !.seen = Absent] \in Sound
    BY <1>m, <2>1, <2>2 DEF Memory, LoopPCs, Sound
  <2>4. sup' = [sup EXCEPT ![l] = [sup[l] EXCEPT !.pc = "tick", !.saver = Seen(l), !.seen = Absent]]
    BY <1>3 DEF SaverStays, SupOK
  <2>5. SupOK'
    BY <2>3, <2>4, OneMemory
  <2> QED
    BY <1>3, <2>5 DEF SaverStays, files, apps, board, LeaseOK, FilesOK, AppsOK, BoardOK
<1>4. CASE SaverEnds(l)
  <2>1. PICK stopped \in SUBSET Apps :
           /\ sup' = [sup EXCEPT ![l].pc = "tick", ![l].saver = "off", ![l].seen = Absent,
                                 ![l].stopped = stopped]
           /\ snapshot' = stopped
    BY <1>4, <1>m DEF SaverEnds, Memory
  <2>2. Absent \in Statuses
    BY <1>n DEF Absent, Statuses
  <2>3. [sup[l] EXCEPT !.pc = "tick", !.saver = "off", !.seen = Absent, !.stopped = stopped]
           \in Sound
    BY <1>m, <2>2 DEF Memory, LoopPCs, Sound
  <2>4. sup' = [sup EXCEPT ![l] = [sup[l] EXCEPT !.pc = "tick", !.saver = "off", !.seen = Absent,
                                              !.stopped = stopped]]
    BY <2>1 DEF SupOK
  <2>5. SupOK'
    BY <2>3, <2>4, OneMemory
  <2>6. AppsOK'
    <3>1. StartOne(procs, "encoder_watchdog") \in [Apps -> 0..MaxProcs]
      BY Names, ProcsType DEF AppsOK
    <3>2. StartOne(StartOne(procs, "encoder_watchdog"), "obs") \in [Apps -> 0..MaxProcs]
      BY <3>1, Names, ProcsType
    <3> QED
      BY <1>4, <3>2, ChangedType DEF SaverEnds
  <2>7. FilesOK'
    BY <1>4, <2>1 DEF SaverEnds, FilesOK
  <2> QED
    BY <1>4, <2>5, <2>6, <2>7 DEF SaverEnds, board, LeaseOK, BoardOK
<1> QED
  BY <1>1, <1>2, <1>3, <1>4

LEMMA StruckType ==
    ASSUME SupOK, NEW l \in Launchers, NEW a \in Apps
    PROVE  Struck(l, a) \in Memory /\ Struck(l, a).pc = sup[l].pc
<1>m. sup[l] \in Memory
  BY DEF SupOK, Sound
<1>1. sup[l].strikes \in [Apps -> 0..2] /\ sup[l].strikes[a] \in 0..2
  BY <1>m DEF Memory
<1>2. Strikes(l, a) \in 0..2
  BY <1>1 DEF Strikes
<1>3. [sup[l].strikes EXCEPT ![a] = Strikes(l, a)] \in [Apps -> 0..2]
  BY <1>1, <1>2
<1>4. Struck(l, a) = [sup[l] EXCEPT !.strikes = [sup[l].strikes EXCEPT ![a] = Strikes(l, a)]]
  BY <1>m DEF Struck, Memory
<1> QED
  BY <1>m, <1>3, <1>4 DEF Memory

(* The loop: the supervision of one application, and the clock. *)
LEMMA TickTypes ==
    ASSUME Types, NEW l \in Launchers,
           \/ TickLeaves(l) \/ TickHonours(l) \/ TickRestarts(l)
           \/ \E a \in Apps : TimePasses(l, a)
    PROVE  Types'
<1> USE DEF Types
<1>m. sup[l] \in Memory
  BY DEF SupOK, Sound
<1>n. MaxEvents \in Nat /\ MaxRestarts \in Nat
  BY LauncherAssumption
<1>b. At(l, "tick") => BootOrder[sup[l].at] \in Apps
  BY <1>m, Names DEF Memory
<1>o. ASSUME NEW m \in Memory, m.pc = "tick", Onward(l, m)
      PROVE  SupOK'
  <2>1. m.at \in 1..4
    BY <1>o DEF Memory
  <2>2. CASE m.at < 4
    <3>1. [m EXCEPT !.at = @ + 1] \in Sound
      BY <1>o, <2>1, <2>2 DEF Memory, Sound
    <3> QED
      BY <1>o, <2>2, <3>1, OneMemory DEF Onward
  <2>3. CASE ~(m.at < 4)
    <3>1. 1 \in 1..4 /\ "beat" \in {"off", "claim", "boot", "validate"} \cup LoopPCs
      BY DEF LoopPCs
    <3>2. [m EXCEPT !.at = 1, !.pc = "beat"] \in Sound
      BY <1>o, <3>1 DEF Memory, Sound
    <3> QED
      BY <1>o, <2>3, <3>2, OneMemory DEF Onward
  <2> QED
    BY <2>2, <2>3
<1>k. ASSUME NEW a \in Apps, At(l, "tick")
      PROVE  Struck(l, a) \in Memory /\ Struck(l, a).pc = "tick"
  BY <1>k, StruckType DEF At
<1>1. CASE TickLeaves(l)
  <2>1. SupOK'
    BY <1>1, <1>b, <1>k, <1>o DEF TickLeaves
  <2> QED
    BY <1>1, <2>1 DEF TickLeaves, files, apps, board, LeaseOK, FilesOK, AppsOK, BoardOK
<1>2. CASE TickHonours(l)
  <2>1. PICK a \in Apps : /\ Onward(l, [sup[l] EXCEPT !.stopped = sup[l].stopped \cup {a},
                                                     !.strikes[a] = 0])
                          /\ snapshot' = sup[l].stopped \cup {a}
    BY <1>2, <1>b DEF TickHonours
  <2>2. sup[l].stopped \cup {a} \subseteq Apps /\ sup[l].strikes \in [Apps -> 0..2]
    BY <1>m DEF Memory
  <2>3. [sup[l].strikes EXCEPT ![a] = 0] \in [Apps -> 0..2]
    BY <2>2
  <2>4. /\ [sup[l] EXCEPT !.stopped = sup[l].stopped \cup {a}, !.strikes[a] = 0] \in Memory
        /\ [sup[l] EXCEPT !.stopped = sup[l].stopped \cup {a}, !.strikes[a] = 0].pc = "tick"
    BY <1>2, <1>m, <2>2, <2>3 DEF TickHonours, At, Memory
  <2>5. SupOK'
    BY <1>o, <2>1, <2>4
  <2>6. FilesOK'
    BY <1>2, <2>1, <2>2 DEF TickHonours, FilesOK
  <2> QED
    BY <1>2, <2>5, <2>6 DEF TickHonours, apps, board, LeaseOK, AppsOK, BoardOK
<1>3. CASE TickRestarts(l)
  <2>0. PICK a \in Apps : \E m :
          /\ m = [Struck(l, a) EXCEPT !.tries[a] = @ + 1, !.cooling = @ \cup {a}]
          /\ ~LeavesAlone(l, a)
          /\ \/ /\ Onward(l, [m EXCEPT !.strikes[a] = 0])
                /\ Changed(Started(procs, a, sup[l].stopped))
                /\ UNCHANGED events
             \/ Onward(l, m) /\ Event /\ UNCHANGED apps
    BY <1>3, <1>b DEF TickRestarts
  <2>1. PICK m :
          /\ m = [Struck(l, a) EXCEPT !.tries[a] = @ + 1, !.cooling = @ \cup {a}]
          /\ ~LeavesAlone(l, a)
          /\ \/ /\ Onward(l, [m EXCEPT !.strikes[a] = 0])
                /\ Changed(Started(procs, a, sup[l].stopped))
                /\ UNCHANGED events
             \/ Onward(l, m) /\ Event /\ UNCHANGED apps
    BY <2>0
  <2>2. m \in Memory /\ m.pc = "tick"
    <3>1. Struck(l, a) \in Memory /\ Struck(l, a).pc = "tick"
      BY <1>3, <1>k DEF TickRestarts
    <3>2. /\ Struck(l, a).tries \in [Apps -> 0..MaxRestarts]
          /\ Struck(l, a).tries[a] # MaxRestarts
          /\ Struck(l, a).cooling \cup {a} \subseteq Apps
      BY <1>m, <2>1, <3>1 DEF Memory, Struck, LeavesAlone
    <3>3. [Struck(l, a).tries EXCEPT ![a] = @ + 1] \in [Apps -> 0..MaxRestarts]
      BY <1>n, <3>2
    <3> QED
      BY <2>1, <3>1, <3>2, <3>3 DEF Memory
  <2>3. [m EXCEPT !.strikes[a] = 0] \in Memory /\ [m EXCEPT !.strikes[a] = 0].pc = "tick"
    <3>1. m.strikes \in [Apps -> 0..2]
      BY <2>2 DEF Memory
    <3>2. [m.strikes EXCEPT ![a] = 0] \in [Apps -> 0..2]
      BY <3>1
    <3> QED
      BY <2>2, <3>2 DEF Memory
  <2>4. SupOK'
    BY <1>o, <2>1, <2>2, <2>3
  <2>5. AppsOK'
    <3>1. Started(procs, a, sup[l].stopped) \in [Apps -> 0..MaxProcs]
      BY ProcsType DEF AppsOK
    <3> QED
      BY <2>1, <3>1, ChangedType DEF apps, AppsOK
  <2>6. FilesOK'
    BY <1>3, <2>1, EventType, LenProperties DEF TickRestarts, files, FilesOK
  <2> QED
    BY <1>3, <2>4, <2>5, <2>6 DEF TickRestarts, files, board, LeaseOK, BoardOK
<1>4. CASE \E a \in Apps : TimePasses(l, a)
  <2>1. PICK a \in Apps : TimePasses(l, a)
    BY <1>4
  <2>2. /\ sup[l].tries \in [Apps -> 0..MaxRestarts] /\ sup[l].tries[a] \in 0..MaxRestarts
        /\ sup[l].cooling \subseteq Apps
    BY <1>m DEF Memory
  <2>3. CASE BackoffEnds(l, a)
    <3>1. [sup[l] EXCEPT !.cooling = @ \ {a}] \in Sound
      BY <1>m, <2>2 DEF SupOK, Memory, Sound
    <3>2. sup' = [sup EXCEPT ![l] = [sup[l] EXCEPT !.cooling = @ \ {a}]]
      BY <2>3 DEF BackoffEnds, SupOK
    <3>3. SupOK'
      BY <3>1, <3>2, OneMemory
    <3> QED
      BY <2>3, <3>3 DEF BackoffEnds, files, apps, board, LeaseOK, FilesOK, AppsOK, BoardOK
  <2>4. CASE WindowSlides(l, a)
    <3>1. [sup[l].tries EXCEPT ![a] = @ - 1] \in [Apps -> 0..MaxRestarts]
      BY <1>n, <2>2, <2>4 DEF WindowSlides
    <3>2. [sup[l] EXCEPT !.tries[a] = @ - 1] \in Sound
      BY <1>m, <3>1 DEF SupOK, Memory, Sound
    <3>3. sup' = [sup EXCEPT ![l] = [sup[l] EXCEPT !.tries[a] = @ - 1]]
      BY <2>4 DEF WindowSlides, SupOK
    <3>4. SupOK'
      BY <3>2, <3>3, OneMemory
    <3> QED
      BY <2>4, <3>4 DEF WindowSlides, files, apps, board, LeaseOK, FilesOK, AppsOK, BoardOK
  <2> QED
    BY <2>1, <2>3, <2>4 DEF TimePasses
<1> QED
  BY <1>1, <1>2, <1>3, <1>4

(* What happens outside the launchers. *)
Outside ==
    \/ LeaseAges
    \/ Publishes \/ SaverToggles \/ Requests \/ Closes \/ Closed \/ StatusAges
    \/ \E i \in Intents : Intends(i) \/ UiActs(i)
    \/ UiStarts
    \/ \E a \in Faulty : Dies(a) \/ Hangs(a)

LEMMA OutsideTypes ==
    ASSUME Types, Outside
    PROVE  Types'
<1> USE DEF Types
<1>n. MaxEvents \in Nat /\ MaxProcs \in Nat \ {0} /\ Faulty \subseteq Apps /\ Intents \subseteq Intent
  BY LauncherAssumption DEF Intent
<1>e. ASSUME Event, pending' = pending, snapshot' = snapshot, wish' = wish
      PROVE  FilesOK' /\ events' \in 0..MaxEvents
  BY <1>e, EventType, LenProperties DEF FilesOK
<1>p. \A n \in 0..MaxProcs, a \in Apps : [procs EXCEPT ![a] = n] \in [Apps -> 0..MaxProcs]
  BY DEF AppsOK
<1>q. \A up, on \in BOOLEAN, r \in 0..MaxEvents : [up |-> up, saver |-> on, req |-> r] \in Statuses
  BY DEF Statuses
<1>z. /\ [up |-> TRUE, saver |-> saver, req |-> 0] \in Statuses
      /\ [up |-> TRUE, saver |-> ~saver, req |-> 0] \in Statuses /\ (~saver) \in BOOLEAN
      /\ [up |-> FALSE, saver |-> FALSE, req |-> 0] \in Statuses
  <2>1. saver \in BOOLEAN /\ (~saver) \in BOOLEAN /\ TRUE \in BOOLEAN /\ FALSE \in BOOLEAN
    BY DEF BoardOK
  <2>2. 0 \in 0..MaxEvents
    BY <1>n
  <2>3. [up |-> TRUE, saver |-> saver, req |-> 0] \in Statuses
    BY <1>q, <2>1, <2>2
  <2>4. [up |-> TRUE, saver |-> ~saver, req |-> 0] \in Statuses
    <3>1. \A on \in BOOLEAN : [up |-> TRUE, saver |-> on, req |-> 0] \in Statuses
      BY <1>q, <2>1, <2>2
    <3> HIDE DEF Types
    <3> QED
      BY <2>1, <3>1, Zenon
  <2>5. [up |-> FALSE, saver |-> FALSE, req |-> 0] \in Statuses
    BY <1>q, <2>1, <2>2
  <2> QED
    BY <2>1, <2>3, <2>4, <2>5
<1>1. CASE LeaseAges
  BY <1>1 DEF LeaseAges, apps, board, SupOK, LeaseOK, FilesOK, AppsOK, BoardOK
<1>2. CASE Publishes
  <2>1. BoardOK'
    BY <1>2, <1>z DEF Publishes, BoardOK
  <2> QED
    BY <1>2, <2>1 DEF Publishes, files, apps, SupOK, LeaseOK, FilesOK, AppsOK
<1>3. CASE SaverToggles
  <2>1. BoardOK'
    BY <1>3, <1>z DEF SaverToggles, BoardOK
  <2> QED
    BY <1>3, <1>e, <2>1 DEF SaverToggles, files, apps, SupOK, LeaseOK, AppsOK
<1>4. CASE Requests
  <2>1. FilesOK' /\ events' \in 0..MaxEvents
    BY <1>4, <1>e DEF Requests, files
  <2>2. BoardOK'
    BY <1>4, <1>q, <2>1 DEF Requests, BoardOK
  <2>3. AppsOK'
    <3>1. [procs EXCEPT !["obs"] = 1] \in [Apps -> 0..MaxProcs]
      BY <1>n, <1>p, Names, 1 \in 0..MaxProcs
    <3> QED
      BY <1>4, <3>1, ChangedType DEF Requests, apps, AppsOK
  <2> QED
    BY <1>4, <2>1, <2>2, <2>3 DEF Requests, files, SupOK, LeaseOK
<1>5. CASE Closes
  <2>1. BoardOK'
    BY <1>5, <1>z DEF Closes, BoardOK
  <2> QED
    BY <1>5, <1>e, <2>1 DEF Closes, files, apps, SupOK, LeaseOK, AppsOK
<1>6. CASE Closed
  <2>1. AppsOK'
    <3>1. procs["scoreboard"] \in 0..MaxProcs
      BY Names DEF AppsOK
    <3>2. (IF procs["scoreboard"] > 0 THEN procs["scoreboard"] - 1 ELSE 0) \in 0..MaxProcs
      BY <1>n, <3>1
    <3>3. PICK n \in 0..MaxProcs : Changed([procs EXCEPT !["scoreboard"] = n])
      BY <1>6, <3>2 DEF Closed
    <3> QED
      BY <1>p, <3>3, Names, ChangedType
  <2> QED
    BY <1>6, <2>1 DEF Closed, files, SupOK, LeaseOK, FilesOK, BoardOK
<1>7. CASE StatusAges
  BY <1>7 DEF StatusAges, OneOlder, files, apps, SupOK, LeaseOK, FilesOK, AppsOK, BoardOK
<1>8. CASE \E i \in Intents : Intends(i)
  <2>1. PICK i \in Intent : Intends(i)
    BY <1>8, <1>n
  <2>2. Append(pending, i) \in Seq(Intent) /\ Len(Append(pending, i)) = Len(pending) + 1
    BY <2>1, AppendProperties DEF FilesOK
  <2>3. FilesOK'
    BY <2>1, <2>2, EventType, LenProperties DEF Intends, Clicks, FilesOK
  <2> QED
    BY <2>1, <2>3 DEF Intends, apps, board, SupOK, LeaseOK, AppsOK, BoardOK
<1>9. CASE \E i \in Intents : UiActs(i)
  <2>1. PICK i \in Intent : UiActs(i)
    BY <1>9, <1>n
  <2>2. PICK killed : Handled(Without(killed), killed)
    BY <2>1 DEF UiActs
  <2>3. AppsOK' /\ saver' \in BOOLEAN /\ closing' \in BOOLEAN
    BY <2>2, WithoutType, HandledType
  <2>4. FilesOK'
    BY <2>1, <1>e DEF UiActs, Clicks, files
  <2>5. BoardOK'
    BY <2>1, <2>3 DEF UiActs, Intent, BoardOK
  <2> QED
    BY <2>1, <2>3, <2>4, <2>5 DEF UiActs, files, SupOK, LeaseOK
<1>10. CASE UiStarts
  <2>1. ui \in Apps
    BY <1>10 DEF UiStarts, BoardOK
  <2>2. AppsOK'
    BY <1>10, <2>1, ProcsType, ChangedType DEF UiStarts, AppsOK
  <2> QED
    BY <1>10, <2>2 DEF UiStarts, files, board, SupOK, LeaseOK, FilesOK, BoardOK
<1>11. CASE \E a \in Faulty : Dies(a)
  <2>1. PICK a \in Apps : Dies(a)
    BY <1>11, <1>n
  <2>2. procs[a] - 1 \in 0..MaxProcs
    BY <1>n, <2>1 DEF Dies, AppsOK
  <2>3. [procs EXCEPT ![a] = procs[a] - 1] \in [Apps -> 0..MaxProcs]
    BY <1>p, <2>2
  <2>4. AppsOK'
    BY <2>1, <2>3, ChangedType DEF Dies
  <2>5. FilesOK'
    BY <2>1, <1>e DEF Dies, files
  <2>6. BoardOK'
    BY <2>1 DEF Dies, BoardOK
  <2> QED
    BY <2>1, <2>4, <2>5, <2>6 DEF Dies, files, SupOK, LeaseOK
<1>12. CASE \E a \in Faulty : Hangs(a)
  <2>1. PICK a \in Apps : Hangs(a)
    BY <1>12, <1>n
  <2>2. FilesOK'
    BY <2>1, <1>e DEF Hangs, files
  <2> QED
    BY <2>1, <2>2 DEF Hangs, files, board, SupOK, LeaseOK, AppsOK, BoardOK
<1> QED
  BY <1>1, <1>2, <1>3, <1>4, <1>5, <1>6, <1>7, <1>8, <1>9, <1>10, <1>11, <1>12 DEF Outside

LEMMA NextTypes == Types /\ [Next]_vars => Types'
<1> SUFFICES ASSUME Types, [Next]_vars PROVE Types'
  OBVIOUS
<1>1. ASSUME NEW l \in Launchers,
             Step(l) \/ Reads(l) \/ Crash(l) \/ Release(l) \/ \E a \in Apps : TimePasses(l, a)
      PROVE  Types'
  BY <1>1, LifeTypes, IntentTypes, WatchTypes, TickTypes DEF Step
<1>2. CASE Outside
  BY <1>2, OutsideTypes
<1>3. CASE UNCHANGED vars
  BY <1>3 DEF vars, Types, SupOK, LeaseOK, FilesOK, AppsOK, BoardOK
<1> QED
  BY <1>1, <1>2, <1>3 DEF Next, Outside

(* Launchers that were active side by side once are marked for good; only a
   claim marks them. *)
LEMMA OnceSplit ==
    ASSUME split \in BOOLEAN, [Next]_vars
    PROVE  /\ split' \in BOOLEAN
           /\ split => split'
           /\ split' = split \/ \E l \in Launchers : Claims(l)
<1>1. ASSUME NEW l \in Launchers, Claims(l)
      PROVE  split' \in BOOLEAN /\ (split => split')
  BY <1>1 DEF Claims
<1>2. ASSUME NEW l \in Launchers, Boots(l) \/ Validates(l) \/ Beat(l) \/ Applies(l)
             \/ Looks(l) \/ Acts(l) \/ Moves(l)
      PROVE  split' = split
  BY <1>2 DEF Boots, Validates, Beat, Applies, Looks, Acts, Moves
<1>3. ASSUME NEW l \in Launchers, Watches(l) \/ RestartsObs(l) \/ SaverStays(l)
             \/ SaverEnds(l) \/ TickLeaves(l) \/ TickHonours(l) \/ TickRestarts(l)
      PROVE  split' = split
  BY <1>3 DEF Watches, RestartsObs, SaverStays, SaverEnds, TickLeaves, TickHonours,
              TickRestarts
<1>4. ASSUME NEW l \in Launchers,
             Reads(l) \/ Crash(l) \/ Release(l) \/ \E a \in Apps : TimePasses(l, a)
      PROVE  split' = split
  BY <1>4 DEF Reads, Crash, Release, TimePasses, BackoffEnds, WindowSlides
<1>5. CASE Outside
  BY <1>5 DEF Outside, LeaseAges, Publishes, SaverToggles, Requests, Closes, Closed,
              StatusAges, Intends, UiActs, UiStarts, Dies, Hangs
<1>6. CASE UNCHANGED vars
  BY <1>6 DEF vars
<1> QED
  BY <1>1, <1>2, <1>3, <1>4, <1>5, <1>6 DEF Next, Step, Outside

(* Every variable has its type, and no attempt is ever made beyond the budget
   of restarts, for any number of launchers. *)
THEOREM TypeCorrect == Spec => []TypeOK
<1>1. Types /\ split \in BOOLEAN => TypeOK
  BY DEF Types, SupOK, Sound, LeaseOK, FilesOK, AppsOK, BoardOK, TypeOK, Intent
<1>2. Init => split \in BOOLEAN
  BY DEF Init
<1>3. split \in BOOLEAN /\ [Next]_vars => (split \in BOOLEAN)'
  BY OnceSplit
<1> QED
  BY InitTypes, NextTypes, <1>1, <1>2, <1>3, PTL DEF Spec

(***************************************************************************)
(* One supervisor                                                          *)
(***************************************************************************)

(* A step after which l, active before, is active still, and that leaves the
   lease and the other launchers alone. *)
GoesOn(l) ==
    /\ Active(l) /\ Active(l)'
    /\ lease' = lease \/ lease' = Written(l, FALSE)
    /\ \A k \in Launchers \ {l} : sup'[k] = sup[k]

LEMMA GoesOnKeeps ==
    ASSUME OneSupervisor, NEW l \in Launchers, GoesOn(l)
    PROVE  OneSupervisor'
BY DEF OneSupervisor, GoesOn, Active

LEMMA StepGoesOn ==
    ASSUME Types, NEW l \in Launchers, Step(l), ~Claims(l), ~Validates(l)
    PROVE  GoesOn(l)
<1> USE DEF GoesOn, Active, At
<1>m. sup \in [Launchers -> Memory] /\ sup[l] \in Memory
  BY DEF Types, SupOK, Sound
<1>1. CASE Boots(l)
  BY <1>1, <1>m DEF Boots, Goes, files, Memory
<1>2. CASE Beat(l)
  BY <1>2, <1>m DEF Beat, Memory
<1>3. CASE Applies(l)
  BY <1>3, <1>m DEF Applies, Wants, Memory
<1>4. CASE Looks(l)
  <2>1. PICK spare : sup' = [sup EXCEPT ![l].spare = spare, ![l].pc = "act"]
    BY <1>4 DEF Looks
  <2> QED
    BY <1>4, <1>m, <2>1 DEF Looks, files, Memory
<1>14. CASE Acts(l)
  <2>1. sup' = [sup EXCEPT ![l].pc = "move", ![l].spare = FALSE]
    BY <1>14 DEF Acts
  <2> QED
    BY <1>14, <1>m, <2>1 DEF Acts, files, Memory
<1>5. CASE Moves(l)
  BY <1>5, <1>m DEF Moves, Memory
<1>6. CASE Watches(l)
  BY <1>6, <1>m DEF Watches, Goes, files, Memory
<1>7. CASE RestartsObs(l)
  BY <1>7, <1>m DEF RestartsObs, Acknowledges, FailsToStart, files, Memory
<1>8. CASE SaverStays(l)
  BY <1>8, <1>m DEF SaverStays, files, Memory
<1>18. CASE SaverEnds(l)
  <2>1. PICK stopped : sup' = [sup EXCEPT ![l].pc = "tick", ![l].saver = "off",
                                         ![l].seen = Absent, ![l].stopped = stopped]
    BY <1>18 DEF SaverEnds
  <2> QED
    BY <1>18, <1>m, <2>1 DEF SaverEnds, Memory
<1>o. ASSUME NEW m, m.pc = "tick", DOMAIN m = DOMAIN sup[l], "pc" \in DOMAIN m,
             sup[l].pc = "tick", Onward(l, m), lease' = lease
      PROVE  GoesOn(l)
  <2>1. \/ sup' = [sup EXCEPT ![l] = [m EXCEPT !.at = @ + 1]]
        \/ sup' = [sup EXCEPT ![l] = [m EXCEPT !.at = 1, !.pc = "beat"]]
    BY <1>o DEF Onward
  <2>2. sup'[l].pc \in {"tick", "beat"} /\ \A k \in Launchers \ {l} : sup'[k] = sup[k]
    BY <1>m, <1>o, <2>1
  <2> QED
    BY <1>o, <2>2
<1>s. "pc" \in DOMAIN sup[l]
  BY <1>m DEF Memory
<1>9. CASE TickLeaves(l)
  <2>1. PICK a : Onward(l, Struck(l, a))
    BY <1>9 DEF TickLeaves
  <2> QED
    BY <1>9, <1>o, <1>s, <2>1 DEF TickLeaves, Struck, files
<1>19. CASE TickHonours(l)
  <2>1. PICK a, stopped : Onward(l, [sup[l] EXCEPT !.stopped = stopped, !.strikes[a] = 0])
    BY <1>19 DEF TickHonours
  <2> QED
    BY <1>19, <1>o, <1>s, <2>1 DEF TickHonours
<1>29. CASE TickRestarts(l)
  <2>0. PICK a \in Apps : \E m :
          /\ m = [Struck(l, a) EXCEPT !.tries[a] = @ + 1, !.cooling = @ \cup {a}]
          /\ Onward(l, [m EXCEPT !.strikes[a] = 0]) \/ Onward(l, m)
    BY <1>29, <1>m, Names DEF TickRestarts, Memory
  <2>1. PICK m :
          /\ m = [Struck(l, a) EXCEPT !.tries[a] = @ + 1, !.cooling = @ \cup {a}]
          /\ Onward(l, [m EXCEPT !.strikes[a] = 0]) \/ Onward(l, m)
    BY <2>0
  <2>2. m.pc = sup[l].pc /\ DOMAIN m = DOMAIN sup[l]
    BY <1>m, <2>1, StruckType DEF Types, Memory
  <2> QED
    BY <1>29, <1>o, <1>s, <2>1, <2>2 DEF TickRestarts, files
<1> QED
  BY <1>1, <1>2, <1>3, <1>4, <1>14, <1>5, <1>6, <1>7, <1>8, <1>18, <1>9, <1>19, <1>29 DEF Step

LEMMA EndKeeps ==
    ASSUME Types, OneSupervisor, NEW l \in Launchers, NEW leased, Ends(l, leased)
    PROVE  OneSupervisor'
<1>m. sup \in [Launchers -> Memory]
  BY DEF Types, SupOK, Sound
<1>1. sup'[l].pc = "off" /\ \A k \in Launchers \ {l} : sup'[k] = sup[k]
  BY <1>m DEF Ends, Off
<1> QED
  BY <1>1 DEF OneSupervisor, Active

LEMMA LoneInit == Init => OneSupervisor
BY DEF Init, OneSupervisor, Active, Off

(* A step that marks nobody leaves at most one launcher active. *)
LEMMA LoneNext ==
    ASSUME Types, split \in BOOLEAN, ~split', OneSupervisor, [Next]_vars
    PROVE  OneSupervisor'
<1>m. sup \in [Launchers -> Memory]
  BY DEF Types, SupOK, Sound
<1>1. ASSUME NEW l \in Launchers, Step(l), ~Claims(l), ~Validates(l)
      PROVE  OneSupervisor'
  BY <1>1, StepGoesOn, GoesOnKeeps
<1>2. ASSUME NEW l \in Launchers, Claims(l)
      PROVE  OneSupervisor'
  <2>1. \A k \in Launchers \ {l} : sup'[k] = sup[k]
    BY <1>2, <1>m DEF Claims, Goes, Memory
  <2>2. \A k \in Launchers : ~Active(k)
    BY <1>2 DEF Claims
  <2> QED
    BY <2>1, <2>2 DEF OneSupervisor, Active
<1>3. ASSUME NEW l \in Launchers, Validates(l)
      PROVE  OneSupervisor'
  <2>1. CASE Ends(l, Written(l, FALSE))
    BY <2>1, EndKeeps
  <2>2. CASE /\ sup' = [sup EXCEPT ![l] = [Rehydrated(@) EXCEPT !.pc = "beat"]]
             /\ UNCHANGED lease
    BY <1>3, <1>m, <2>2, GoesOnKeeps DEF Validates, GoesOn, Active, At, Rehydrated, Memory
  <2> QED
    BY <1>3, <2>1, <2>2 DEF Validates
<1>4. ASSUME NEW l \in Launchers, Reads(l)
      PROVE  OneSupervisor'
  <2>1. \A k \in Launchers : sup'[k] = sup[k] \/ sup'[k].pc = "claim"
    BY <1>4, <1>m DEF Reads, Memory
  <2> QED
    BY <2>1 DEF OneSupervisor, Active
<1>5. ASSUME NEW l \in Launchers, Crash(l) \/ Release(l)
      PROVE  OneSupervisor'
  BY <1>5, EndKeeps DEF Crash, Release
<1>6. ASSUME NEW l \in Launchers, NEW a \in Apps, TimePasses(l, a)
      PROVE  OneSupervisor'
  <2>1. \/ sup' = [sup EXCEPT ![l].cooling = @ \ {a}]
        \/ sup' = [sup EXCEPT ![l].tries[a] = @ - 1]
    BY <1>6 DEF TimePasses, BackoffEnds, WindowSlides
  <2>2. \A k \in Launchers : sup'[k].pc = sup[k].pc
    <3>1. CASE sup' = [sup EXCEPT ![l].cooling = @ \ {a}]
      BY <1>m, <3>1 DEF Memory
    <3>2. CASE sup' = [sup EXCEPT ![l].tries[a] = @ - 1]
      <4>1. PICK tries : sup' = [sup EXCEPT ![l].tries = tries]
        BY <3>2
      <4> QED
        BY <1>m, <4>1 DEF Memory
    <3> QED
      BY <2>1, <3>1, <3>2
  <2> QED
    BY <2>2 DEF OneSupervisor, Active
<1>7. CASE Outside
  <2>1. UNCHANGED sup
    BY <1>7 DEF Outside, LeaseAges, Publishes, SaverToggles, Requests, Closes, Closed,
                StatusAges, Intends, UiActs, UiStarts, Dies, Hangs, files
  <2> QED
    BY <2>1 DEF OneSupervisor, Active
<1>8. CASE UNCHANGED vars
  BY <1>8 DEF vars, OneSupervisor, Active
<1> QED
  BY <1>1, <1>2, <1>3, <1>4, <1>5, <1>6, <1>7, <1>8 DEF Next, Outside

(***************************************************************************)
(* What the operator stopped stays stopped                                 *)
(***************************************************************************)

(* A supervisor remembers what the snapshot says, and an intent in work that
   is to start its application has taken it off the list. *)
Remembers(l) ==
    /\ sup[l].stopped = snapshot
    /\ sup[l].pc \in {"look", "act"} /\ sup[l].job.act # "stop" => sup[l].job.app \notin snapshot

HoldInv ==
    /\ wish \subseteq snapshot
    /\ \A l \in Launchers : Active(l) => ~lease.released
    /\ \A l \in Supervising : Remembers(l)

(* No step starts what is to be stopped. *)
Held ==
    \A a \in wish' :
        /\ Supervising # {} /\ Supervising' # {} /\ procs'[a] > procs[a]
        => sup' = sup /\ (a = ui \/ (a = "obs" /\ ~lease.fresh))

LEMMA HeldIf ==
    ASSUME Types, Types', \A a \in wish' : procs'[a] <= procs[a]
    PROVE  Held
<1>1. wish' \subseteq Apps /\ MaxProcs \in Nat
  BY LauncherAssumption DEF Types, FilesOK
<1>2. \A a \in wish' : ~(procs'[a] > procs[a])
  BY <1>1 DEF Types, AppsOK
<1> QED
  BY <1>2 DEF Held

LEMMA HoldInit == Init => HoldInv
BY DEF Init, HoldInv, Active, Supervising, LoopPCs, Off

LEMMA StartsOnly ==
    ASSUME NEW ps \in [Apps -> 0..MaxProcs], NEW a \in Apps, NEW b \in Apps, b # a
    PROVE  /\ OneMore(ps, a)[b] = ps[b] /\ StartOne(ps, a)[b] = ps[b]
           /\ \A stopped : (b = "obs" => "obs" \in stopped) => Started(ps, a, stopped)[b] = ps[b]
<1>1. \A qs \in [Apps -> 0..MaxProcs], c \in Apps \ {b} :
        OneMore(qs, c)[b] = qs[b] /\ StartOne(qs, c)[b] = qs[b]
  BY DEF OneMore, StartOne
<1>2. "obs" \in Apps /\ StartOne(ps, "obs") \in [Apps -> 0..MaxProcs]
  BY Names, ProcsType
<1> QED
  BY <1>1, <1>2 DEF Started

(* Nothing is started where the processes stay as they are or end. *)
LEMMA NothingStarts ==
    ASSUME Types, Types', procs' = procs \/ \A a \in Apps : procs'[a] <= procs[a]
    PROVE  Held
<1>1. wish' \subseteq Apps /\ MaxProcs \in Nat
  BY LauncherAssumption DEF Types, FilesOK
<1> QED
  BY <1>1, HeldIf DEF Types, AppsOK

(* A step of the one supervisor; no other launcher is active. *)
LEMMA OneRemembers ==
    ASSUME OneSupervisor, HoldInv, NEW l \in Launchers, GoesOn(l),
           wish' \subseteq snapshot', sup'[l].pc \in LoopPCs => Remembers(l)'
    PROVE  HoldInv'
<1>1. \A k \in Launchers \ {l} : ~Active(k) /\ sup'[k] = sup[k]
  BY DEF OneSupervisor, GoesOn
<1>2. ~lease'.released
  BY DEF HoldInv, GoesOn, Written
<1>3. \A k \in Launchers \ {l} : ~Active(k)' /\ k \notin Supervising'
  BY <1>1 DEF Active, Supervising, LoopPCs
<1> QED
  BY <1>2, <1>3 DEF HoldInv, Supervising

(* The loop, up to the end of the scoreboard's status. *)
LEMMA HoldLoop ==
    ASSUME Types, Types', OneSupervisor, HoldInv, NEW l \in Launchers,
           \/ Beat(l) \/ Applies(l) \/ Looks(l) \/ Acts(l) \/ Moves(l)
           \/ Watches(l) \/ RestartsObs(l) \/ SaverStays(l) \/ SaverEnds(l)
    PROVE  HoldInv' /\ Held
<1>m. /\ sup \in [Launchers -> Memory] /\ sup[l] \in Memory
      /\ procs \in [Apps -> 0..MaxProcs] /\ snapshot \subseteq Apps /\ wish' \subseteq Apps
  BY DEF Types, SupOK, Sound, AppsOK, FilesOK
<1>p. MaxProcs \in Nat
  BY LauncherAssumption
<1>s. sup[l].stopped = snapshot /\ wish \subseteq snapshot
  BY DEF HoldInv, Remembers, Supervising, LoopPCs, Beat, Applies, Looks, Acts, Moves,
         Watches, RestartsObs, SaverStays, SaverEnds, At
<1>j. sup[l].pc \in {"look", "act", "move"} => sup[l].job \in Intent
  BY DEF Types, SupOK, Sound
<1>n. sup[l].pc \in {"look", "act"} /\ sup[l].job.act # "stop" => sup[l].job.app \notin snapshot
  BY DEF HoldInv, Remembers, Supervising, LoopPCs
<1>g. GoesOn(l)
  <2>1. ~Claims(l) /\ ~Validates(l)
    BY DEF Claims, Validates, Beat, Applies, Looks, Acts, Moves,
           Watches, RestartsObs, SaverStays, SaverEnds, At
  <2>2. Step(l)
    BY DEF Step
  <2> QED
    BY <2>1, <2>2, StepGoesOn
<1>1. CASE Beat(l)
  <2>1. /\ sup'[l].stopped = sup[l].stopped /\ sup'[l].pc = "intents"
        /\ UNCHANGED <<snapshot, wish, procs>>
    BY <1>m, <1>1 DEF Beat, Memory, apps
  <2> QED
    BY <1>g, <1>s, <2>1, OneRemembers, NothingStarts DEF Remembers
<1>2. CASE Applies(l)
  <2> DEFINE a == Head(pending).app
             stopped == IF Head(pending).act = "stop" THEN sup[l].stopped \cup {a}
                        ELSE sup[l].stopped \ {a}
  <2>1. /\ sup'[l].stopped = stopped /\ sup'[l].job = Head(pending)
        /\ sup'[l].pc \in {"move", "look", "act"}
        /\ snapshot' = stopped
        /\ procs' = procs
        /\ wish' = IF Head(pending).act = "stop" THEN wish \cup {a} ELSE wish \ {a}
    BY <1>m, <1>s, <1>2 DEF Applies, Wants, Memory, apps
  <2>2. Remembers(l)'
    BY <2>1 DEF Remembers
  <2>3. wish' \subseteq snapshot'
    BY <1>s, <2>1
  <2> QED
    BY <1>g, <2>1, <2>2, <2>3, OneRemembers, NothingStarts
<1>3. CASE Looks(l)
  <2>1. /\ sup'[l].stopped = sup[l].stopped /\ sup'[l].job = sup[l].job /\ sup[l].pc = "look"
        /\ UNCHANGED <<snapshot, wish, procs>>
    <3>1. PICK spare : sup' = [sup EXCEPT ![l].spare = spare, ![l].pc = "act"]
      BY <1>3 DEF Looks
    <3> QED
      BY <1>m, <1>3, <3>1 DEF Looks, At, Memory, apps, files
  <2>2. Remembers(l)'
    BY <1>s, <1>n, <2>1 DEF Remembers
  <2> QED
    BY <1>g, <1>s, <2>1, <2>2, OneRemembers, NothingStarts
<1>4. CASE Acts(l)
  <2> DEFINE a == sup[l].job.app
             killed == IF sup[l].job.act # "start" /\ ~sup[l].spare THEN {a} ELSE {}
             left == Without(killed)
  <2>1. /\ sup'[l].stopped = sup[l].stopped /\ sup'[l].pc = "move"
        /\ UNCHANGED <<snapshot, wish>>
        /\ sup[l].pc = "act" /\ sup[l].job \in Intent
        /\ procs' = IF sup[l].job.act = "stop" THEN left ELSE Started(left, a, sup[l].stopped)
    <3>1. sup' = [sup EXCEPT ![l].pc = "move", ![l].spare = FALSE]
      BY <1>4 DEF Acts
    <3>2. /\ procs' = IF sup[l].job.act = "stop" THEN left ELSE Started(left, a, sup[l].stopped)
          /\ sup[l].pc = "act" /\ UNCHANGED <<snapshot, wish>>
      BY <1>4 DEF Acts, Handled, At, files
    <3>3. sup'[l].stopped = sup[l].stopped /\ sup'[l].pc = "move"
      BY <1>m, <3>1 DEF Memory
    <3> QED
      BY <1>j, <3>2, <3>3
  <2>2. left \in [Apps -> 0..MaxProcs] /\ \A b \in Apps : left[b] <= procs[b]
    BY <1>m, <1>p, WithoutType DEF Types, Without
  <2>3. a \in Apps
    BY <2>1 DEF Intent
  <2> HIDE DEF left, killed
  <2>4. ASSUME NEW b \in snapshot
        PROVE  procs'[b] <= procs[b]
    <3>1. CASE sup[l].job.act = "stop"
      BY <1>m, <2>1, <2>2, <3>1
    <3>2. CASE sup[l].job.act # "stop"
      <4>1. b \in Apps /\ b # a /\ b \in sup[l].stopped
        BY <1>m, <1>s, <1>n, <2>1, <2>4, <3>2
      <4>2. Started(left, a, sup[l].stopped)[b] = left[b]
        BY <2>2, <2>3, <4>1, StartsOnly
      <4> QED
        BY <2>1, <2>2, <3>2, <4>1, <4>2
    <3> QED
      BY <3>1, <3>2
  <2>5. Held
    BY <1>s, <2>1, <2>4, HeldIf
  <2> QED
    BY <1>g, <1>s, <2>1, <2>5, OneRemembers DEF Remembers
<1>5. CASE Moves(l)
  <2>1. /\ sup'[l].stopped = sup[l].stopped /\ sup'[l].pc \in {"intents", "beat"}
        /\ UNCHANGED <<snapshot, wish, procs>>
    BY <1>m, <1>5 DEF Moves, Memory, apps
  <2> QED
    BY <1>g, <1>s, <2>1, OneRemembers, NothingStarts DEF Remembers
<1>6. CASE Watches(l)
  <2>1. /\ sup'[l].stopped = sup[l].stopped /\ sup'[l].pc \in {"tick", "reobs", "saver"}
        /\ UNCHANGED <<snapshot, wish>>
    BY <1>m, <1>6 DEF Watches, Goes, Memory, files
  <2>2. \A a \in Apps : procs'[a] <= procs[a]
    <3>1. procs' = procs \/ procs' = [procs EXCEPT !["obs"] = 0]
      BY <1>6 DEF Watches, Changed, apps
    <3> QED
      BY <1>m, <1>p, <3>1
  <2> QED
    BY <1>g, <1>s, <2>1, <2>2, OneRemembers, NothingStarts DEF Remembers
<1>7. CASE RestartsObs(l)
  <2>0. UNCHANGED <<snapshot, wish>> /\ sup[l].pc = "reobs"
    BY <1>7 DEF RestartsObs, files, At
  <2>1. CASE Acknowledges(l)
    <3>1. sup'[l].stopped = sup[l].stopped /\ sup'[l].pc = "saver"
      BY <1>m, <2>1 DEF Acknowledges, Memory
    <3>2. ASSUME NEW b \in snapshot
          PROVE  procs'[b] <= procs[b]
      <4>1. procs' = IF "obs" \in snapshot THEN procs ELSE StartOne(procs, "obs")
        BY <1>s, <2>1 DEF Acknowledges, Changed
      <4>2. b # "obs" => StartOne(procs, "obs")[b] = procs[b]
        BY <1>m, <3>2, Names, StartsOnly
      <4>3. procs[b] \in Nat
        BY <1>m, <1>p, <3>2
      <4> QED
        BY <3>2, <4>1, <4>2, <4>3
    <3>3. Held
      BY <1>s, <2>0, <3>2, HeldIf
    <3> QED
      BY <1>g, <1>s, <2>0, <3>1, <3>3, OneRemembers DEF Remembers
  <2>2. CASE FailsToStart(l)
    <3>1. sup'[l].stopped = sup[l].stopped /\ sup'[l].pc = "beat" /\ procs' = procs
      BY <1>m, <2>2 DEF FailsToStart, Memory, apps
    <3> QED
      BY <1>g, <1>s, <2>0, <3>1, OneRemembers, NothingStarts DEF Remembers
  <2> QED
    BY <1>7, <2>1, <2>2 DEF RestartsObs
<1>8. CASE SaverStays(l)
  <2>1. /\ sup'[l].stopped = sup[l].stopped /\ sup'[l].pc = "tick"
        /\ UNCHANGED <<snapshot, wish, procs>>
    BY <1>m, <1>8 DEF SaverStays, Memory, apps, files
  <2> QED
    BY <1>g, <1>s, <2>1, OneRemembers, NothingStarts DEF Remembers
<1>9. CASE SaverEnds(l)
  <2> DEFINE both == {"encoder_watchdog", "obs"}
  <2>1. /\ sup'[l].stopped = sup[l].stopped \ both /\ sup'[l].pc = "tick"
        /\ snapshot' = sup[l].stopped \ both /\ wish' = wish \ both
        /\ procs' = StartOne(StartOne(procs, "encoder_watchdog"), "obs")
    <3>1. sup' = [sup EXCEPT ![l].pc = "tick", ![l].saver = "off", ![l].seen = Absent,
                             ![l].stopped = sup[l].stopped \ both]
      BY <1>9 DEF SaverEnds
    <3> QED
      BY <1>m, <1>9, <3>1 DEF SaverEnds, Changed, Memory
  <2>2. ASSUME NEW b \in wish'
        PROVE  procs'[b] <= procs[b]
    <3>1. b \in Apps /\ b # "encoder_watchdog" /\ b # "obs"
      BY <1>m, <2>1, <2>2
    <3>2. StartOne(procs, "encoder_watchdog") \in [Apps -> 0..MaxProcs]
      BY <1>m, Names, ProcsType
    <3>3. procs'[b] = procs[b]
      BY <1>m, <2>1, <3>1, <3>2, Names, StartsOnly
    <3>4. procs[b] \in Nat
      BY <1>m, <1>p, <3>1
    <3> QED
      BY <3>3, <3>4
  <2>3. Held
    BY <2>2, HeldIf
  <2>4. Remembers(l)' /\ wish' \subseteq snapshot'
    BY <1>s, <2>1 DEF Remembers
  <2> QED
    BY <1>g, <2>3, <2>4, OneRemembers
<1> QED
  BY <1>1, <1>2, <1>3, <1>4, <1>5, <1>6, <1>7, <1>8, <1>9

(* The supervision: what is to be stopped is left alone, and no other start
   touches it. *)
LEMMA HoldTick ==
    ASSUME Types, Types', OneSupervisor, HoldInv, NEW l \in Launchers,
           TickLeaves(l) \/ TickHonours(l) \/ TickRestarts(l)
    PROVE  HoldInv' /\ Held
<1>m. /\ sup \in [Launchers -> Memory] /\ sup[l] \in Memory
      /\ procs \in [Apps -> 0..MaxProcs] /\ snapshot \subseteq Apps /\ wish' \subseteq Apps
  BY DEF Types, SupOK, Sound, AppsOK, FilesOK
<1>p. MaxProcs \in Nat
  BY LauncherAssumption
<1>s. sup[l].pc = "tick" /\ sup[l].stopped = snapshot /\ wish \subseteq snapshot
  BY DEF HoldInv, Remembers, Supervising, LoopPCs, TickLeaves, TickHonours, TickRestarts, At
<1>g. GoesOn(l)
  <2>1. Step(l) /\ ~Claims(l) /\ ~Validates(l)
    BY <1>s DEF Step, Claims, Validates, At
  <2> QED
    BY <2>1, StepGoesOn
<1> DEFINE a == BootOrder[sup[l].at]
<1>a. a \in Apps
  BY <1>m, Names DEF Memory
<1> HIDE DEF a
<1>k. Struck(l, a) \in Memory /\ Struck(l, a).stopped = sup[l].stopped
  <2>1. Struck(l, a) \in Memory
    BY <1>a, StruckType DEF Types
  <2>2. Struck(l, a) = [sup[l] EXCEPT !.strikes = [sup[l].strikes EXCEPT ![a] = Strikes(l, a)]]
    BY <1>m DEF Struck, Memory
  <2> QED
    BY <1>m, <2>1, <2>2 DEF Memory
<1>o. ASSUME NEW m, DOMAIN m = DOMAIN sup[l], m.pc = "tick", Onward(l, m)
      PROVE  sup'[l].stopped = m.stopped /\ sup'[l].pc \in {"tick", "beat"}
  <2>1. \/ sup' = [sup EXCEPT ![l] = [m EXCEPT !.at = @ + 1]]
        \/ sup' = [sup EXCEPT ![l] = [m EXCEPT !.at = 1, !.pc = "beat"]]
    BY <1>o DEF Onward
  <2>2. {"pc", "stopped"} \subseteq DOMAIN m
    BY <1>m, <1>o DEF Memory
  <2> QED
    BY <1>m, <1>o, <2>1, <2>2
<1>1. CASE TickLeaves(l)
  <2>1. Onward(l, Struck(l, a)) /\ UNCHANGED <<snapshot, wish, procs>>
    BY <1>1 DEF TickLeaves, files, apps, a
  <2>2. DOMAIN Struck(l, a) = DOMAIN sup[l] /\ Struck(l, a).pc = "tick"
    BY <1>m, <1>s, <1>a, <1>k, StruckType DEF Types, Memory
  <2>3. sup'[l].stopped = snapshot /\ sup'[l].pc \in {"tick", "beat"}
    BY <1>s, <1>k, <1>o, <2>1, <2>2
  <2> QED
    BY <1>g, <1>s, <2>1, <2>3, OneRemembers, NothingStarts DEF Remembers
<1>2. CASE TickHonours(l)
  <2> DEFINE stopped == sup[l].stopped \cup {a}
             m == [sup[l] EXCEPT !.stopped = stopped, !.strikes[a] = 0]
  <2>1. Onward(l, m) /\ snapshot' = stopped /\ UNCHANGED <<wish, procs>>
    BY <1>2 DEF TickHonours, apps, a
  <2>2. m = [sup[l] EXCEPT !.stopped = stopped, !.strikes = [sup[l].strikes EXCEPT ![a] = 0]]
    BY <1>m DEF Memory
  <2>3. DOMAIN m = DOMAIN sup[l] /\ m.pc = "tick" /\ m.stopped = stopped
    BY <1>m, <1>s, <2>2 DEF Memory
  <2> HIDE DEF m
  <2>4. sup'[l].stopped = stopped /\ sup'[l].pc \in {"tick", "beat"}
    BY <1>o, <2>1, <2>3
  <2>5. Remembers(l)' /\ wish' \subseteq snapshot'
    BY <1>s, <2>1, <2>4 DEF Remembers
  <2> QED
    BY <1>g, <2>1, <2>5, OneRemembers, NothingStarts
<1>3. CASE TickRestarts(l)
  <2> DEFINE m == [Struck(l, a) EXCEPT !.tries[a] = @ + 1, !.cooling = @ \cup {a}]
  <2>1. /\ ~LeavesAlone(l, a) /\ UNCHANGED <<snapshot, wish>>
        /\ \/ Onward(l, [m EXCEPT !.strikes[a] = 0]) /\ procs' = Started(procs, a, sup[l].stopped)
           \/ Onward(l, m) /\ procs' = procs
    BY <1>3 DEF TickRestarts, Changed, files, apps, a
  <2>2. m = [Struck(l, a) EXCEPT !.tries = [Struck(l, a).tries EXCEPT ![a] = @ + 1],
                                 !.cooling = Struck(l, a).cooling \cup {a}]
    BY <1>k DEF Memory
  <2>3. DOMAIN m = DOMAIN sup[l] /\ m.pc = "tick" /\ m.stopped = snapshot
    BY <1>m, <1>s, <1>a, <1>k, <2>2, StruckType DEF Types, Memory
  <2> HIDE DEF m
  <2>4. [m EXCEPT !.strikes[a] = 0] = [m EXCEPT !.strikes = [m.strikes EXCEPT ![a] = 0]]
    BY <1>m, <2>3 DEF Memory
  <2>5. /\ DOMAIN [m EXCEPT !.strikes[a] = 0] = DOMAIN sup[l]
        /\ [m EXCEPT !.strikes[a] = 0].pc = "tick" /\ [m EXCEPT !.strikes[a] = 0].stopped = snapshot
    BY <1>m, <2>3, <2>4 DEF Memory
  <2>6. sup'[l].stopped = snapshot /\ sup'[l].pc \in {"tick", "beat"}
    <3>1. CASE Onward(l, m)
      BY <1>o, <2>3, <3>1
    <3>2. CASE Onward(l, [m EXCEPT !.strikes[a] = 0])
      BY <1>o, <2>5, <3>2
    <3> QED
      BY <2>1, <3>1, <3>2
  <2>7. ASSUME NEW b \in snapshot
        PROVE  procs'[b] <= procs[b]
    <3>1. a \notin snapshot
      BY <1>s, <2>1 DEF LeavesAlone
    <3>2. procs[b] \in Nat
      BY <1>m, <1>p, <2>7
    <3>3. Started(procs, a, sup[l].stopped)[b] = procs[b]
      BY <1>m, <1>a, <1>s, <2>7, <3>1, StartsOnly
    <3> QED
      BY <2>1, <3>2, <3>3
  <2>8. Held
    BY <1>s, <2>1, <2>7, HeldIf
  <2> QED
    BY <1>g, <1>s, <2>1, <2>6, <2>8, OneRemembers DEF Remembers
<1> QED
  BY <1>1, <1>2, <1>3

(* With nobody active there is nobody to remember, and nobody to hold to it. *)
LEMMA NobodyHolds ==
    ASSUME HoldInv, UNCHANGED <<snapshot, wish>>, \A k \in Launchers : ~Active(k)'
    PROVE  HoldInv' /\ Held
BY DEF HoldInv, Held, Active, Supervising, LoopPCs

(* The end of an active launcher leaves nobody active. *)
LEMMA HoldEnd ==
    ASSUME Types, OneSupervisor, HoldInv, NEW l \in Launchers, Active(l), NEW leased,
           Ends(l, leased), UNCHANGED <<snapshot, wish>>
    PROVE  HoldInv' /\ Held
<1>1. sup'[l].pc = "off" /\ \A k \in Launchers \ {l} : sup'[k] = sup[k]
  BY DEF Types, SupOK, Ends, Off
<1>2. \A k \in Launchers \ {l} : ~Active(k)
  BY DEF OneSupervisor
<1>3. \A k \in Launchers : ~Active(k)'
  BY <1>1, <1>2 DEF Active
<1> QED
  BY <1>3, NobodyHolds

(* The life of a launcher outside its loop, and the clock. *)
LEMMA HoldLife ==
    ASSUME Types, Types', OneSupervisor, ~split', HoldInv, NEW l \in Launchers,
           \/ Reads(l) \/ Claims(l) \/ Boots(l) \/ Validates(l) \/ Crash(l) \/ Release(l)
           \/ \E a \in Apps : TimePasses(l, a)
    PROVE  HoldInv' /\ Held
<1>m. sup \in [Launchers -> Memory] /\ sup[l] \in Memory
  BY DEF Types, SupOK, Sound
<1>1. CASE Reads(l)
  <2>1. /\ UNCHANGED <<lease, snapshot, wish, procs>>
        /\ \A k \in Launchers : sup'[k] = sup[k] \/ sup'[k].pc = "claim"
    BY <1>m, <1>1 DEF Reads, Memory, files, apps
  <2>2. HoldInv'
    BY <2>1 DEF HoldInv, Active, Supervising, LoopPCs, Remembers
  <2> QED
    BY <2>1, <2>2, NothingStarts
<1>2. CASE Claims(l)
  <2>1. /\ UNCHANGED <<snapshot, wish>> /\ sup'[l].pc = "boot" /\ ~lease'.released
        /\ \A k \in Launchers \ {l} : sup'[k] = sup[k] /\ ~Active(k)
    BY <1>m, <1>2 DEF Claims, Goes, Memory, Written, At
  <2>2. Supervising' = {}
    BY <2>1 DEF Supervising, LoopPCs, Active
  <2> QED
    BY <2>1, <2>2 DEF HoldInv, Held
<1>3. CASE Boots(l)
  <2>1. Step(l) /\ ~Claims(l) /\ ~Validates(l)
    BY <1>3 DEF Boots, Step, Claims, Validates, At
  <2>2. GoesOn(l)
    BY <2>1, StepGoesOn
  <2>3. UNCHANGED <<snapshot, wish>> /\ sup'[l].pc \in {"boot", "validate"}
    BY <1>m, <1>3 DEF Boots, Goes, Memory, files, At
  <2>4. Supervising = {}
    <3>1. \A k \in Launchers \ {l} : ~Active(k)
      BY <2>2 DEF OneSupervisor, GoesOn
    <3> QED
      BY <1>3, <3>1 DEF Boots, At, Supervising, LoopPCs, Active
  <2>5. HoldInv'
    BY <2>2, <2>3, OneRemembers DEF HoldInv, LoopPCs
  <2> QED
    BY <2>4, <2>5 DEF Held
<1>4. CASE Validates(l)
  <2>0. UNCHANGED <<snapshot, wish, procs>>
    BY <1>4 DEF Validates, apps
  <2>1. CASE Ends(l, Written(l, FALSE))
    BY <1>4, <2>0, <2>1, HoldEnd DEF Validates, At, Active
  <2>2. CASE /\ sup' = [sup EXCEPT ![l] = [Rehydrated(@) EXCEPT !.pc = "beat"]]
             /\ UNCHANGED lease
    <3>1. /\ sup'[l].stopped = snapshot /\ sup'[l].pc = "beat"
          /\ \A k \in Launchers \ {l} : sup'[k] = sup[k]
      BY <1>m, <2>2 DEF Rehydrated, Memory
    <3>2. GoesOn(l)
      BY <1>4, <2>2, <3>1 DEF Validates, At, GoesOn, Active
    <3> QED
      BY <2>0, <3>1, <3>2, OneRemembers, NothingStarts DEF HoldInv, Remembers
  <2> QED
    BY <1>4, <2>1, <2>2 DEF Validates
<1>5. CASE Crash(l)
  <2>1. CASE Active(l)
    BY <1>5, <2>1, HoldEnd DEF Crash
  <2>2. CASE ~Active(l)
    <3>1. /\ UNCHANGED <<snapshot, wish, procs>> /\ lease'.released = lease.released
          /\ sup'[l].pc = "off" /\ \A k \in Launchers \ {l} : sup'[k] = sup[k]
      BY <1>5, <1>m DEF Crash, Ends, Off, apps, Types, LeaseOK
    <3>2. HoldInv'
      BY <3>1 DEF HoldInv, Active, Supervising, LoopPCs, Remembers
    <3> QED
      BY <3>1, <3>2, NothingStarts
  <2> QED
    BY <2>1, <2>2
<1>6. CASE Release(l)
  <2>1. Active(l)
    BY <1>6 DEF Release, Supervising, Active, LoopPCs
  <2> QED
    BY <1>6, <2>1, HoldEnd DEF Release
<1>7. ASSUME NEW a \in Apps, TimePasses(l, a)
      PROVE  HoldInv' /\ Held
  <2>1. /\ \/ sup' = [sup EXCEPT ![l].cooling = @ \ {a}]
           \/ sup' = [sup EXCEPT ![l].tries[a] = @ - 1]
        /\ UNCHANGED <<lease, snapshot, wish, procs>>
    BY <1>7 DEF TimePasses, BackoffEnds, WindowSlides, files, apps
  <2>2. \A k \in Launchers :
          sup'[k].pc = sup[k].pc /\ sup'[k].stopped = sup[k].stopped /\ sup'[k].job = sup[k].job
    <3>1. CASE sup' = [sup EXCEPT ![l].cooling = @ \ {a}]
      BY <1>m, <3>1 DEF Memory
    <3>2. CASE sup' = [sup EXCEPT ![l].tries[a] = @ - 1]
      <4>1. PICK tries : sup' = [sup EXCEPT ![l].tries = tries]
        BY <3>2
      <4> QED
        BY <1>m, <4>1 DEF Memory
    <3> QED
      BY <2>1, <3>1, <3>2
  <2>3. HoldInv'
    BY <2>1, <2>2 DEF HoldInv, Active, Supervising, Remembers
  <2> QED
    BY <2>1, <2>3, NothingStarts
<1> QED
  BY <1>1, <1>2, <1>3, <1>4, <1>5, <1>6, <1>7

(* The scoreboard, the UI, the operator and the faults. *)
LEMMA HoldOutside ==
    ASSUME Types, Types', OneSupervisor, HoldInv, Outside
    PROVE  HoldInv' /\ Held
<1>m. procs \in [Apps -> 0..MaxProcs] /\ wish \subseteq Apps
  BY DEF Types, AppsOK, FilesOK
<1>p. MaxProcs \in Nat
  BY LauncherAssumption
<1>1. UNCHANGED <<sup, snapshot, wish>> /\ lease'.released = lease.released
  BY DEF Outside, LeaseAges, Publishes, SaverToggles, Requests, Closes, Closed, StatusAges,
         Intends, UiActs, UiStarts, Dies, Hangs, files, Types, LeaseOK
<1>2. HoldInv'
  BY <1>1 DEF HoldInv, Active, Supervising, Remembers
<1>3. CASE Requests
  <2>1. CASE Supervising = {}
    BY <1>2, <2>1 DEF Held
  <2>2. CASE Supervising # {}
    <3>1. ~lease.released
      BY <2>2 DEF Supervising, Active, LoopPCs, HoldInv
    <3>2. CASE lease.fresh
      BY <1>2, <1>3, <3>1, <3>2, NothingStarts DEF Requests, apps
    <3>3. CASE ~lease.fresh
      <4>1. procs' = [procs EXCEPT !["obs"] = 1]
        BY <1>3, <3>3 DEF Requests, Changed
      <4>2. \A b \in Apps \ {"obs"} : procs'[b] = procs[b] /\ procs[b] \in Nat
        BY <1>m, <1>p, <4>1
      <4>3. \A b \in Apps \ {"obs"} : ~(procs'[b] > procs[b])
        BY <4>2
      <4> QED
        BY <1>1, <1>2, <1>m, <3>3, <4>3 DEF Held
    <3> QED
      BY <3>2, <3>3
  <2> QED
    BY <2>1, <2>2
<1>4. CASE UiStarts
  <2> SUFFICES ASSUME NEW b \in wish \ {ui} PROVE ~(procs'[b] > procs[b])
    BY <1>1, <1>2 DEF Held
  <2>1. ui \in Apps /\ procs' = OneMore(procs, ui)
    BY <1>4 DEF UiStarts, Changed, Types, BoardOK
  <2>2. procs'[b] = procs[b] /\ procs[b] \in Nat
    BY <1>m, <1>p, <2>1, StartsOnly
  <2> QED
    BY <2>2
<1>5. CASE Closed
  <2>1. procs' = [procs EXCEPT !["scoreboard"] = IF @ > 0 THEN @ - 1 ELSE 0]
    BY <1>5 DEF Closed, Changed
  <2>2. \A a \in Apps : procs'[a] <= procs[a]
    BY <1>m, <1>p, <2>1
  <2> QED
    BY <1>2, <2>2, NothingStarts
<1>6. ASSUME NEW i \in Intents, UiActs(i)
      PROVE  Held
  <2>1. PICK killed : procs' = Without(killed)
    BY <1>6 DEF UiActs, Handled
  <2>2. \A a \in Apps : procs'[a] <= procs[a]
    BY <1>m, <1>p, <2>1 DEF Without
  <2> QED
    BY <1>2, <2>2, NothingStarts
<1>7. ASSUME NEW a \in Faulty, Dies(a)
      PROVE  Held
  <2>1. procs' = [procs EXCEPT ![a] = @ - 1]
    BY <1>7 DEF Dies, Changed
  <2>2. \A b \in Apps : procs'[b] <= procs[b]
    BY <1>m, <1>p, <2>1
  <2> QED
    BY <1>2, <2>2, NothingStarts
<1>8. CASE \/ LeaseAges \/ Publishes \/ SaverToggles \/ Closes \/ StatusAges
           \/ (\E i \in Intents : Intends(i)) \/ \E a \in Faulty : Hangs(a)
  <2>1. procs' = procs
    BY <1>8 DEF LeaseAges, Publishes, SaverToggles, Closes, StatusAges, Intends, Hangs, apps
  <2> QED
    BY <1>2, <2>1, NothingStarts
<1> QED
  BY <1>2, <1>3, <1>4, <1>5, <1>6, <1>7, <1>8 DEF Outside

(* What the operator had stopped is not started while one supervises, however
   long its lease has lapsed: neither by a restart, nor for the scoreboard, nor
   for a replay or the end of the screensaver, nor by a launcher that comes
   after a crash, whatever was in work then. *)
THEOREM StopsHold == Spec => OperatorStopHolds
<1> DEFINE Inv == Types /\ split \in BOOLEAN /\ (~split => OneSupervisor /\ HoldInv)
<1>1. Init => Inv
  BY InitTypes, LoneInit, HoldInit DEF Init
<1>2. Inv /\ [Next]_vars => Inv' /\ (~split' => Held)
  <2> SUFFICES ASSUME Inv, [Next]_vars PROVE Inv' /\ (~split' => Held)
    OBVIOUS
  <2>1. Types' /\ split' \in BOOLEAN /\ (split => split')
    BY NextTypes, OnceSplit
  <2> SUFFICES ASSUME ~split' PROVE OneSupervisor' /\ HoldInv' /\ Held
    BY <2>1
  <2>2. OneSupervisor /\ HoldInv
    BY <2>1
  <2>3. OneSupervisor'
    BY <2>2, LoneNext
  <2>4. ASSUME NEW l \in Launchers, Step(l)
        PROVE  HoldInv' /\ Held
    BY <2>1, <2>2, <2>4, HoldLoop, HoldTick, HoldLife DEF Step
  <2>5. ASSUME NEW l \in Launchers,
               Reads(l) \/ Crash(l) \/ Release(l) \/ \E a \in Apps : TimePasses(l, a)
        PROVE  HoldInv' /\ Held
    BY <2>1, <2>2, <2>5, HoldLife
  <2>6. CASE Outside
    BY <2>1, <2>2, <2>3, <2>6, HoldOutside
  <2>7. CASE UNCHANGED vars
    <3>1. HoldInv' /\ procs' = procs
      BY <2>2, <2>7 DEF vars, HoldInv, Active, Supervising, Remembers
    <3> QED
      BY <2>1, <2>3, <3>1, NothingStarts
  <2> QED
    BY <2>3, <2>4, <2>5, <2>6, <2>7 DEF Next, Outside
<1>3. (~split' => Held)
      => [\A a \in wish' :
             /\ Supervising # {} /\ Supervising' # {} /\ ~split'
             /\ procs'[a] > procs[a]
             => sup' = sup /\ (a = ui \/ (a = "obs" /\ ~lease.fresh))]_vars
  BY DEF Held
<1> QED
  BY <1>1, <1>2, <1>3, PTL DEF Spec, OperatorStopHolds
=============================================================================
