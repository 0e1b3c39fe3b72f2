----------------------- MODULE ReplayPromotion_proofs -----------------------
(***************************************************************************)
(* Safety of the promotion, for any number of clients, replays and         *)
(* mishaps: no replay is lost, a second promotion has an excuse, and       *)
(* the scoreboard's file comes before the copy for the pipeline.           *)
(***************************************************************************)
EXTENDS ReplayPromotion, TLAPS

(***************************************************************************)
(* The inductive invariant                                                 *)
(***************************************************************************)

Holding == {"show", "place", "check", "unlink"}
Picked == {"stable", "promo"} \cup Holding
Locals == [pc : PCs, trig : 0 .. MaxSaves, pick : 0 .. MaxSaves, ok : BOOLEAN]

(* What OBS has accepted fits the bound, and it writes in order. *)
InOrder ==
    /\ made + Len(asks) <= MaxSaves
    /\ \A r \in Replays : r > made => clip[r] = "none"

(* A thread in the promotion has the lock; from the replacement of
   INSTANTREPLAY.mkv on, that file is its pick and the source is there. *)
ThreadInv(t) ==
    /\ th[t].pc \in Picked => th[t].pick \in Replays
    /\ th[t].pc \in Holding => promo = t
    /\ th[t].pc \in {"place", "check", "unlink"} =>
           instant = th[t].pick /\ clip[th[t].pick] = "whole"
    /\ th[t].pc = "place" => placed[th[t].pick] < shows[th[t].pick]
    /\ th[t].pc \in {"check", "unlink"} => placed[th[t].pick] > 0

(* Between promotions, each showing of a replay still to be promoted has an
   excuse; during one, and after the last, there may be one more. *)
ReplayInv(r) ==
    /\ placed[r] <= shows[r] /\ shows[r] <= 1 + excuses[r]
    /\ clip[r] = "gone" => placed[r] > 0
    /\ clip[r] # "gone" /\ (\A t \in Threads : ~Promoting(t, r)) => shows[r] <= excuses[r]

IInv ==
    /\ TypeOK /\ InOrder
    /\ \A t \in Threads : ThreadInv(t)
    /\ \A r \in Replays : ReplayInv(r)

(***************************************************************************)
(* Lemmas                                                                  *)
(***************************************************************************)

LEMMA Names == Sync \in Threads /\ Clients \subseteq Threads /\ Nobody \notin Threads /\ Sync \notin Clients
BY PromotionAssumption DEF Threads

LEMMA ThreadType == ASSUME TypeOK, NEW t \in Threads PROVE th[t] \in Locals
BY DEF TypeOK, Locals

(* A step of thread t outside the promotion: the files, INSTANTREPLAY.mkv,
   the promotion lock and the counts stay. *)
Outside(t) ==
    /\ UNCHANGED <<clip, instant, placed, promo, shows, excuses>>
    /\ \A u \in Threads \ {t} : th'[u] = th[u]
    /\ th[t].pc \notin Holding /\ th'[t].pc \notin Holding
    /\ th'[t].pc \in Picked => th'[t].pick \in Replays

LEMMA OutsideKeeps ==
    ASSUME IInv, NEW t \in Threads, Outside(t)
    PROVE  /\ \A u \in Threads : ThreadInv(u)'
           /\ \A r \in Replays : ReplayInv(r)'
<1>1. ASSUME NEW u \in Threads PROVE ThreadInv(u)'
  <2>1. CASE u = t
    BY <2>1 DEF Outside, ThreadInv, Holding
  <2>2. CASE u # t
    <3>1. ThreadInv(u) /\ th'[u] = th[u]
      BY <2>2 DEF IInv, Outside
    <3> QED
      BY <3>1 DEF Outside, ThreadInv
  <2> QED
    BY <2>1, <2>2
<1>2. ASSUME NEW r \in Replays PROVE ReplayInv(r)'
  <2>1. ReplayInv(r)
    BY DEF IInv
  <2>2. \A u \in Threads : Promoting(u, r)' <=> Promoting(u, r)
    BY DEF Outside, Promoting, Holding
  <2> QED
    BY <2>1, <2>2 DEF Outside, ReplayInv
<1> QED
  BY <1>1, <1>2

(* Nothing the threads and the counts depend on changes. *)
LEMMA QuietKeeps ==
    ASSUME IInv, UNCHANGED <<clip, instant, placed, promo, shows, excuses, th>>
    PROVE  /\ \A u \in Threads : ThreadInv(u)'
           /\ \A r \in Replays : ReplayInv(r)'
BY DEF IInv, ThreadInv, ReplayInv, Promoting

(* The thread in the promotion is alone there. *)
LEMMA Alone ==
    ASSUME IInv, NEW t \in Threads, th[t].pc \in Holding
    PROVE  /\ promo = t
           /\ \A u \in Threads \ {t} : th[u].pc \notin Holding
           /\ \A u \in Threads \ {t}, r \in Replays : ~Promoting(u, r)
<1>1. promo = t
  BY DEF IInv, ThreadInv
<1>2. \A u \in Threads \ {t} : th[u].pc \notin Holding
  BY <1>1 DEF IInv, ThreadInv
<1> QED
  BY <1>1, <1>2 DEF Promoting, Holding

(* The invariant holds before anything is recorded. *)
THEOREM InitInv == Init => IInv
<1> SUFFICES ASSUME Init PROVE IInv
  OBVIOUS
<1>1. Idle \in Locals /\ Idle.pc = "idle"
  BY PromotionAssumption DEF Idle, Locals, PCs
<1>2. \A t \in Threads : th[t] = Idle
  BY DEF Init
<1>3. TypeOK
  BY <1>1, Names, PromotionAssumption DEF Init, TypeOK, Replays, Locals
<1>4. InOrder
  BY PromotionAssumption DEF Init, InOrder, Replays
<1>5. \A t \in Threads : ThreadInv(t)
  BY <1>1, <1>2 DEF ThreadInv, Picked, Holding
<1>6. \A r \in Replays : ReplayInv(r)
  BY DEF Init, ReplayInv
<1> QED
  BY <1>3, <1>4, <1>5, <1>6 DEF IInv

(***************************************************************************)
(* Types                                                                   *)
(***************************************************************************)

ObsType ==
    /\ clip \in [Replays -> {"none", "growing", "whole", "gone"}]
    /\ made \in 0 .. MaxSaves
    /\ asks \in Seq(Clients \cup {Nobody})
    /\ own \in [Clients -> 0 .. MaxSaves]

ScriptType ==
    /\ script \in [Clients -> {"idle", "pressed", "waiting", "answered", "shown", "failed"}]
    /\ press \in [Clients -> 0 .. MaxSaves]

WorkerType ==
    /\ instant \in 0 .. MaxSaves
    /\ busy \in Clients \cup {Nobody} /\ promo \in Threads \cup {Nobody}
    /\ up \in BOOLEAN
    /\ mishaps \in 0 .. MaxMishaps
    /\ placed \in [Replays -> Nat] /\ shows \in [Replays -> Nat] /\ excuses \in [Replays -> Nat]

ThreadsType ==
    /\ th \in [Threads -> Locals]
    /\ th[Sync].pc \notin {"lock", "scan"}

LEMMA TypeParts == TypeOK <=> ObsType /\ ScriptType /\ WorkerType /\ ThreadsType
BY DEF TypeOK, ObsType, ScriptType, WorkerType, ThreadsType, Locals

LEMMA Bounds == MaxSaves \in Nat /\ MaxMishaps \in Nat /\ Tolerance \in Nat
BY PromotionAssumption

LEMMA OneThread ==
    ASSUME ThreadsType, NEW t \in Threads, NEW l \in Locals,
           th' = [th EXCEPT ![t] = l], t = Sync => l.pc \notin {"lock", "scan"}
    PROVE  ThreadsType'
BY Names DEF ThreadsType

LEMMA OnePC ==
    ASSUME ThreadsType, NEW t \in Threads, NEW p \in PCs,
           th' = [th EXCEPT ![t].pc = p], t = Sync => p \notin {"lock", "scan"}
    PROVE  ThreadsType'
BY Names DEF ThreadsType, Locals

LEMMA Cases ==
    ASSUME [Next]_vars
    PROVE  \/ Hotkey \/ ObsBegins \/ ObsFinishes \/ AutoTick \/ Crash \/ Restart
           \/ \E c \in Clients :
                  \/ Press(c) \/ SaveAndPost(c) \/ SaveFails(c) \/ GiveUp(c) \/ ReplayOn(c)
                  \/ LockBusy(c) \/ TooBusy(c) \/ Scan(c)
           \/ \E t \in Threads :
                  \/ Stable(t) \/ LockPromotion(t) \/ Show(t) \/ Place(t) \/ Check(t)
                  \/ Unlink(t) \/ Answer(t)
           \/ UNCHANGED vars
BY Names DEF Next, ScriptStep, RequestStep, AutoStep, PromotionStep

(* The files and OBS. *)
LEMMA ObsTyped == ASSUME IInv, [Next]_vars PROVE ObsType'
<1>t. ObsType /\ ScriptType /\ WorkerType /\ ThreadsType
  BY TypeParts DEF IInv
<1>1. CASE Hotkey
  BY <1>t, <1>1, Bounds, Names DEF ObsType, Hotkey, Ask
<1>2. CASE ObsBegins
  <2>1. Head(asks) \in Clients \cup {Nobody} /\ Tail(asks) \in Seq(Clients \cup {Nobody})
    BY <1>t, <1>2 DEF ObsType, ObsBegins
  <2>2. made + 1 \in Replays
    <3>1. asks # <<>> /\ Len(asks) \in Nat /\ made \in Nat
      BY <1>t, <1>2, Bounds DEF ObsType, ObsBegins
    <3>2. Len(asks) # 0
      BY <1>t, <3>1 DEF ObsType
    <3>3. made + Len(asks) <= MaxSaves
      BY DEF IInv, InOrder
    <3> QED
      BY <3>1, <3>2, <3>3, Bounds DEF Replays
  <2>3. clip' \in [Replays -> {"none", "growing", "whole", "gone"}] /\ made' \in 0 .. MaxSaves
    BY <1>t, <1>2, <2>2, Bounds DEF ObsType, ObsBegins, Replays
  <2>4. own' \in [Clients -> 0 .. MaxSaves]
    BY <1>t, <1>2, <2>1, <2>2, Bounds DEF ObsType, ObsBegins, Replays
  <2> QED
    BY <1>2, <2>1, <2>3, <2>4 DEF ObsType, ObsBegins
<1>3. CASE ObsFinishes
  BY <1>t, <1>3, Bounds, Names DEF ObsType, ObsFinishes, Growing
<1>4. ASSUME NEW c \in Clients, SaveAndPost(c) PROVE ObsType'
  BY <1>t, <1>4, Bounds, Names DEF ObsType, SaveAndPost, Ask
<1>5. ASSUME NEW t \in Threads, Unlink(t) PROVE ObsType'
  BY <1>t, <1>5, Bounds, Names DEF ObsType, Unlink
<1>6. CASE UNCHANGED <<clip, made, asks, own>>
  BY <1>t, <1>6 DEF ObsType
<1> QED
  BY Cases, <1>1, <1>2, <1>3, <1>4, <1>5, <1>6
     DEF vars, obs, button, history, Go, AutoTick, Crash, Restart, Press, SaveFails, GiveUp, ReplayOn, LockBusy, TooBusy, Scan, Stable, LockPromotion, Show, Place, Check, Answer

(* The scripts. *)
LEMMA ScriptTyped == ASSUME IInv, [Next]_vars PROVE ScriptType'
<1>t. ObsType /\ ScriptType /\ WorkerType /\ ThreadsType
  BY TypeParts DEF IInv
<1>1. CASE Crash
  BY <1>t, <1>1, Bounds, Names DEF ScriptType, Crash
<1>2. ASSUME NEW c \in Clients, Press(c) PROVE ScriptType'
  <2>1. ASSUME NEW r \in Replays, clip[r] = "growing" PROVE made - 1 \in 0 .. MaxSaves
    <3>1. ~(r > made)
      BY <2>1 DEF IInv, InOrder
    <3> QED
      BY <1>t, <3>1, Bounds DEF ObsType, Replays
  <2>2. (IF Growing = {} THEN made ELSE made - 1) \in 0 .. MaxSaves
    BY <1>t, <2>1 DEF Growing, ObsType
  <2> QED
    BY <1>t, <1>2, <2>2 DEF ScriptType, Press
<1>3. ASSUME NEW c \in Clients, SaveAndPost(c) PROVE ScriptType'
  BY <1>t, <1>3, Bounds, Names DEF ScriptType, SaveAndPost
<1>4. ASSUME NEW c \in Clients, SaveFails(c) PROVE ScriptType'
  BY <1>t, <1>4, Bounds, Names DEF ScriptType, SaveFails
<1>5. ASSUME NEW c \in Clients, GiveUp(c) PROVE ScriptType'
  BY <1>t, <1>5, Bounds, Names DEF ScriptType, GiveUp
<1>6. ASSUME NEW c \in Clients, ReplayOn(c) PROVE ScriptType'
  BY <1>t, <1>6, Bounds, Names DEF ScriptType, ReplayOn
<1>7. ASSUME NEW c \in Clients, TooBusy(c) PROVE ScriptType'
  BY <1>t, <1>7, Bounds, Names DEF ScriptType, TooBusy, Told
<1>8. ASSUME NEW t \in Threads, Answer(t) PROVE ScriptType'
  BY <1>t, <1>8, Bounds, Names DEF ScriptType, Answer, Told
<1>9. CASE UNCHANGED <<script, press>>
  BY <1>t, <1>9 DEF ScriptType
<1> QED
  BY Cases, <1>1, <1>2, <1>3, <1>4, <1>5, <1>6, <1>7, <1>8, <1>9
     DEF vars, obs, button, history, Go, Hotkey, ObsBegins, ObsFinishes, AutoTick, Restart, LockBusy, Scan, Stable, LockPromotion, Show, Place, Check, Unlink

(* The locks, the process and the counts. *)
LEMMA WorkerTyped == ASSUME IInv, [Next]_vars PROVE WorkerType'
<1>t. ObsType /\ ScriptType /\ WorkerType /\ ThreadsType
  BY TypeParts DEF IInv
<1>1. CASE Crash
  <2>1. excuses' \in [Replays -> Nat]
    BY <1>t, <1>1 DEF WorkerType, Crash
  <2> QED
    <3>1. mishaps' \in 0 .. MaxMishaps
      BY <1>t, <1>1, Bounds DEF WorkerType, Crash, Mishap
    <3> QED
      BY <1>t, <1>1, <2>1, <3>1 DEF WorkerType, Crash
<1>2. CASE Restart
  BY <1>t, <1>2, Bounds, Names DEF WorkerType, Restart, history
<1>3. ASSUME NEW c \in Clients, LockBusy(c) PROVE WorkerType'
  BY <1>t, <1>3, Bounds, Names DEF WorkerType, LockBusy, history
<1>4. ASSUME NEW t \in Threads, LockPromotion(t) PROVE WorkerType'
  BY <1>t, <1>4, Bounds, Names DEF WorkerType, LockPromotion, history
<1>5. ASSUME NEW t \in Threads, Show(t) PROVE WorkerType'
  BY <1>t, <1>5, Bounds, Names DEF WorkerType, Show, Leave, Mishap, ThreadsType, Locals
<1>6. ASSUME NEW t \in Threads, Place(t) PROVE WorkerType'
  BY <1>t, <1>6, Bounds, Names DEF WorkerType, Place, Leave, Mishap, Excuse
<1>7. ASSUME NEW t \in Threads, Check(t) PROVE WorkerType'
  BY <1>t, <1>7, Bounds, Names DEF WorkerType, Check, Leave, Mishap, Excuse
<1>8. ASSUME NEW t \in Threads, Unlink(t) PROVE WorkerType'
  BY <1>t, <1>8, Bounds, Names DEF WorkerType, Unlink, Leave, Mishap, Excuse
<1>9. ASSUME NEW t \in Threads, Answer(t) PROVE WorkerType'
  BY <1>t, <1>9, Bounds, Names DEF WorkerType, Answer, history
<1>10. CASE UNCHANGED <<instant, busy, promo, up, mishaps, placed, shows, excuses>>
  BY <1>t, <1>10 DEF WorkerType
<1> QED
  BY Cases, <1>1, <1>2, <1>3, <1>4, <1>5, <1>6, <1>7, <1>8, <1>9, <1>10
     DEF vars, obs, button, history, Go, Hotkey, ObsBegins, ObsFinishes, AutoTick, Press, SaveAndPost, SaveFails, GiveUp, ReplayOn, TooBusy, Scan, Stable

(* The threads. *)
LEMMA ThreadsTyped == ASSUME IInv, [Next]_vars PROVE ThreadsType'
<1>t. ObsType /\ ScriptType /\ WorkerType /\ ThreadsType
  BY TypeParts DEF IInv
<1>1. CASE AutoTick
  <2>1. PICK r \in Replays : th' = [th EXCEPT ![Sync].pc = "stable", ![Sync].pick = r]
    BY <1>1 DEF AutoTick, Pick
  <2>2. r \in 0 .. MaxSaves /\ "stable" \in PCs
    BY Bounds DEF Replays, PCs
  <2> QED
    BY <1>t, <2>1, <2>2, Names DEF ThreadsType, Locals
<1>2. CASE Crash
  BY <1>t, <1>2, Bounds, Names DEF ThreadsType, Crash, Idle, Locals, PCs
<1>3. ASSUME NEW c \in Clients, SaveAndPost(c) PROVE ThreadsType'
  BY <1>t, <1>3, Bounds, Names DEF ThreadsType, SaveAndPost, ScriptType, Locals, PCs
<1>4. ASSUME NEW c \in Clients, LockBusy(c) PROVE ThreadsType'
  BY <1>t, <1>4, Bounds, Names, OnePC DEF ThreadsType, LockBusy, Go, PCs
<1>5. ASSUME NEW c \in Clients, TooBusy(c) PROVE ThreadsType'
  BY <1>t, <1>5, Bounds, Names DEF ThreadsType, TooBusy, Locals, PCs, Idle
<1>6. ASSUME NEW c \in Clients, Scan(c) PROVE ThreadsType'
  BY <1>t, <1>6, Bounds, Names DEF ThreadsType, Scan, Go, Pick, Locals, PCs, Replays
<1>7. ASSUME NEW t \in Threads, Stable(t) PROVE ThreadsType'
  BY <1>t, <1>7, Bounds, Names, OnePC DEF ThreadsType, Stable, PCs
<1>8. ASSUME NEW t \in Threads, LockPromotion(t) PROVE ThreadsType'
  BY <1>t, <1>8, Bounds, Names, OnePC DEF ThreadsType, LockPromotion, Go, PCs
<1>9. ASSUME NEW t \in Threads, Show(t) PROVE ThreadsType'
  BY <1>t, <1>9, Bounds, Names DEF ThreadsType, Show, Leave, Locals, PCs
<1>10. ASSUME NEW t \in Threads, Place(t) PROVE ThreadsType'
  BY <1>t, <1>10, Bounds, Names, OnePC DEF ThreadsType, Place, Leave, Locals, PCs
<1>11. ASSUME NEW t \in Threads, Check(t) PROVE ThreadsType'
  BY <1>t, <1>11, Bounds, Names, OnePC DEF ThreadsType, Check, Leave, Locals, PCs
<1>12. ASSUME NEW t \in Threads, Unlink(t) PROVE ThreadsType'
  BY <1>t, <1>12, Bounds, Names DEF ThreadsType, Unlink, Leave, Locals, PCs
<1>13. ASSUME NEW t \in Threads, Answer(t) PROVE ThreadsType'
  BY <1>t, <1>13, Bounds, Names DEF ThreadsType, Answer, Idle, Locals, PCs
<1>14. CASE UNCHANGED <<th>>
  BY <1>t, <1>14 DEF ThreadsType
<1> QED
  BY Cases, <1>1, <1>2, <1>3, <1>4, <1>5, <1>6, <1>7, <1>8, <1>9, <1>10, <1>11, <1>12, <1>13, <1>14
     DEF vars, obs, button, history, Go, Hotkey, ObsBegins, ObsFinishes, Restart, Press, SaveFails, GiveUp, ReplayOn

LEMMA Typed == ASSUME IInv, [Next]_vars PROVE TypeOK'
BY ObsTyped, ScriptTyped, WorkerTyped, ThreadsTyped
   DEF TypeOK, ObsType, ScriptType, WorkerType, ThreadsType, Locals

(***************************************************************************)
(* OBS writes in order                                                     *)
(***************************************************************************)

LEMMA Ordered == ASSUME IInv, [Next]_vars PROVE InOrder'
<1>t. ObsType /\ InOrder /\ Len(asks) \in Nat /\ made \in Nat
  BY TypeParts DEF IInv, ObsType
<1>1. ASSUME NEW who \in Clients \cup {Nobody}, Ask(who), UNCHANGED <<clip, made>>
      PROVE  InOrder'
  <2>1. Len(asks') = Len(asks) + 1
    BY <1>t, <1>1 DEF Ask, ObsType
  <2> QED
    BY <1>t, <1>1, <2>1, Bounds DEF Ask, InOrder
<1>2. CASE ObsBegins
  <2>1. Len(asks') = Len(asks) - 1
    BY <1>t, <1>2 DEF ObsBegins, ObsType
  <2>2. made' + Len(asks') = made + Len(asks)
    BY <1>t, <1>2, <2>1 DEF ObsBegins
  <2>3. ASSUME NEW r \in Replays, r > made' PROVE clip'[r] = "none"
    <3>1. r # made + 1 /\ r > made
      BY <1>t, <1>2, <2>3, Bounds DEF ObsBegins, Replays
    <3> QED
      BY <1>t, <1>2, <3>1 DEF ObsBegins, ObsType, InOrder
  <2> QED
    BY <1>t, <2>2, <2>3 DEF InOrder
<1>3. CASE ObsFinishes
  BY <1>t, <1>3 DEF ObsFinishes, Growing, ObsType, InOrder
<1>4. ASSUME NEW t \in Threads, Unlink(t) PROVE InOrder'
  <2>1. clip[th[t].pick] = "whole"
    BY <1>4 DEF IInv, ThreadInv, Unlink
  <2> QED
    BY <1>t, <1>4, <2>1 DEF Unlink, ObsType, InOrder
<1>5. CASE UNCHANGED <<clip, made, asks>>
  BY <1>t, <1>5 DEF InOrder
<1> QED
  BY Cases, <1>1, <1>2, <1>3, <1>4, <1>5
     DEF vars, obs, button, history, Hotkey, AutoTick, Crash, Restart, Press, SaveAndPost, SaveFails,
         GiveUp, ReplayOn, LockBusy, TooBusy, Scan, Stable, LockPromotion, Show, Place, Check, Answer

(***************************************************************************)
(* The promotion                                                           *)
(***************************************************************************)

Promotion == (\A t \in Threads : ThreadInv(t)) /\ (\A r \in Replays : ReplayInv(r))

LEMMA Threaded == ASSUME IInv PROVE th \in [Threads -> Locals]
BY TypeParts DEF IInv, ThreadsType

(* Steps outside the promotion *)

LEMMA QuietStep ==
    ASSUME IInv,
           \/ Hotkey \/ Restart \/ UNCHANGED vars
           \/ \E c \in Clients : Press(c) \/ SaveFails(c) \/ GiveUp(c) \/ ReplayOn(c)
    PROVE  Promotion'
<1>1. UNCHANGED <<clip, instant, placed, promo, shows, excuses, th>>
  BY DEF vars, obs, button, history, Hotkey, Restart, Press, SaveFails, GiveUp, ReplayOn
<1> QED
  BY <1>1, QuietKeeps DEF Promotion

LEMMA OutsideStep ==
    ASSUME IInv,
           \/ AutoTick
           \/ \E c \in Clients : SaveAndPost(c) \/ LockBusy(c) \/ TooBusy(c) \/ Scan(c)
           \/ \E t \in Threads : Stable(t) \/ Answer(t)
    PROVE  Promotion'
<1>1. CASE AutoTick
  <2>1. PICK r \in Replays : th' = [th EXCEPT ![Sync].pc = "stable", ![Sync].pick = r]
    BY <1>1 DEF AutoTick, Pick
  <2>2. Outside(Sync)
    BY <1>1, <2>1, Threaded, Names DEF Outside, AutoTick, Locals, Holding, Picked, obs, history
  <2> QED
    BY <2>2, Names, OutsideKeeps DEF Promotion
<1>2. ASSUME NEW c \in Clients, SaveAndPost(c) PROVE Promotion'
  <2>1. Outside(c)
    BY <1>2, Threaded, Names DEF Outside, SaveAndPost, Ask, Locals, Idle, Holding, Picked, history
  <2> QED
    BY <2>1, Names, OutsideKeeps DEF Promotion
<1>3. ASSUME NEW c \in Clients, LockBusy(c) PROVE Promotion'
  <2>1. Outside(c)
    BY <1>3, Threaded, Names DEF Outside, LockBusy, Go, Locals, Holding, Picked, obs, history
  <2> QED
    BY <2>1, Names, OutsideKeeps DEF Promotion
<1>4. ASSUME NEW c \in Clients, TooBusy(c) PROVE Promotion'
  <2>1. Outside(c)
    BY <1>4, Threaded, Names DEF Outside, TooBusy, Locals, Idle, Holding, Picked, obs, history
  <2> QED
    BY <2>1, Names, OutsideKeeps DEF Promotion
<1>5. ASSUME NEW c \in Clients, Scan(c) PROVE Promotion'
  <2>1. Outside(c)
    BY <1>5, Threaded, Names DEF Outside, Scan, Pick, Go, Locals, Holding, Picked, obs, history
  <2> QED
    BY <2>1, Names, OutsideKeeps DEF Promotion
<1>6. ASSUME NEW t \in Threads, Stable(t) PROVE Promotion'
  <2>1. th[t].pick \in Replays
    BY <1>6 DEF IInv, ThreadInv, Stable, Picked
  <2>2. Outside(t)
    BY <1>6, <2>1, Threaded DEF Outside, Stable, Locals, Holding, Picked, obs, history
  <2> QED
    BY <2>2, OutsideKeeps DEF Promotion
<1>7. ASSUME NEW t \in Threads, Answer(t) PROVE Promotion'
  <2>1. Outside(t)
    BY <1>7, Threaded DEF Outside, Answer, Locals, Idle, Holding, Picked, obs, history
  <2> QED
    BY <2>1, OutsideKeeps DEF Promotion
<1> QED
  BY <1>1, <1>2, <1>3, <1>4, <1>5, <1>6, <1>7

(* OBS adds files and finishes them: what was whole or gone stays so. *)
LEMMA ObsStep == ASSUME IInv, ObsBegins \/ ObsFinishes PROVE Promotion'
<1>1. UNCHANGED <<instant, placed, promo, shows, excuses, th>>
  BY DEF ObsBegins, ObsFinishes, history
<1>2. ASSUME NEW r \in Replays
      PROVE  (clip[r] = "whole" => clip'[r] = "whole") /\ (clip'[r] = "gone" <=> clip[r] = "gone")
  <2>t. ObsType /\ InOrder
    BY TypeParts DEF IInv
  <2>1. CASE ObsBegins
    <3>1. r = made + 1 => clip[r] = "none"
      BY <2>t DEF InOrder, ObsType
    <3> QED
      BY <2>t, <2>1, <3>1 DEF ObsBegins, ObsType
  <2>2. CASE ObsFinishes
    BY <2>t, <2>2 DEF ObsFinishes, Growing, ObsType
  <2> QED
    BY <2>1, <2>2
<1>3. ASSUME NEW t \in Threads PROVE ThreadInv(t)'
  <2>1. ThreadInv(t)
    BY DEF IInv
  <2> QED
    BY <1>1, <1>2, <2>1 DEF ThreadInv, Picked, Holding
<1>4. ASSUME NEW r \in Replays PROVE ReplayInv(r)'
  <2>1. ReplayInv(r)
    BY DEF IInv
  <2> QED
    BY <1>1, <1>2, <2>1 DEF ReplayInv, Promoting
<1> QED
  BY <1>3, <1>4 DEF Promotion

(* Steps of the thread in the promotion *)

LEMMA LockStep == ASSUME IInv, NEW t \in Threads, LockPromotion(t) PROVE Promotion'
<1>1. \A u \in Threads : th[u].pc \notin Holding
  BY Names DEF LockPromotion, IInv, ThreadInv
<1>2. th' = [th EXCEPT ![t].pc = "show"] /\ th[t].pc = "promo" /\ promo' = t
  BY DEF LockPromotion, Go
<1>3. UNCHANGED <<clip, instant, placed, shows, excuses>>
  BY DEF LockPromotion, obs, history
<1>4. th'[t] = [th[t] EXCEPT !.pc = "show"] /\ \A u \in Threads \ {t} : th'[u] = th[u]
  BY <1>2, Threaded
<1>5. ASSUME NEW u \in Threads PROVE ThreadInv(u)'
  <2>1. ThreadInv(u)
    BY DEF IInv
  <2>2. CASE u = t
    BY <1>2, <1>4, <2>1, <2>2, Threaded DEF ThreadInv, Picked, Holding, Locals
  <2>3. CASE u # t
    BY <1>1, <1>3, <1>4, <2>1, <2>3 DEF ThreadInv, Holding
  <2> QED
    BY <2>2, <2>3
<1>6. ASSUME NEW r \in Replays PROVE ReplayInv(r)'
  <2>1. ReplayInv(r)
    BY DEF IInv
  <2>2. \A u \in Threads : ~Promoting(u, r)
    BY <1>1 DEF Promoting, Holding
  <2> QED
    BY <1>3, <2>1, <2>2 DEF ReplayInv
<1> QED
  BY <1>5, <1>6 DEF Promotion

(* The counts and the files of the other replays stay, and the other threads;
   so it is enough to look at t and at its pick. *)
LEMMA HolderKeeps ==
    ASSUME IInv, NEW t \in Threads, NEW p \in Replays, th[t].pc \in Holding, th[t].pick = p,
           \A u \in Threads \ {t} : th'[u] = th[u],
           \A r \in Replays \ {p} :
               /\ clip'[r] = clip[r] /\ placed'[r] = placed[r]
               /\ shows'[r] = shows[r] /\ excuses'[r] = excuses[r],
           ThreadInv(t)', ReplayInv(p)'
    PROVE  Promotion'
<1>1. \A u \in Threads \ {t} : th[u].pc \notin Holding
  BY Alone
<1>2. ASSUME NEW u \in Threads \ {t} PROVE ThreadInv(u)'
  <2>1. ThreadInv(u)
    BY DEF IInv
  <2> QED
    BY <1>1, <2>1 DEF ThreadInv, Holding
<1>3. ASSUME NEW r \in Replays, r # p PROVE ReplayInv(r)'
  <2>1. ReplayInv(r)
    BY DEF IInv
  <2>2. \A u \in Threads : ~Promoting(u, r)
    BY <1>1, <1>3 DEF Promoting, Holding
  <2> QED
    BY <1>3, <2>1, <2>2 DEF ReplayInv
<1>4. \A u \in Threads : ThreadInv(u)'
  BY <1>2
<1>5. \A r \in Replays : ReplayInv(r)'
  BY <1>3
<1> QED
  BY <1>4, <1>5 DEF Promotion

LEMMA ShowStep == ASSUME IInv, NEW t \in Threads, Show(t) PROVE Promotion'
<1>0. th[t].pick \in Replays
  BY DEF Show, IInv, ThreadInv, Holding, Picked
<1> PICK r \in Replays : r = th[t].pick
  BY <1>0
<1>1. th[t].pc \in Holding /\ r \in Replays /\ ThreadInv(t) /\ ReplayInv(r)
  BY DEF Show, IInv, ThreadInv, Holding, Picked
<1>2. WorkerType /\ (\A u \in Threads : ~Promoting(u, r))
  BY <1>1, Alone, TypeParts DEF IInv, Promoting, Show
<1>3. UNCHANGED <<clip, placed, excuses>>
  BY DEF Show, obs
<1>4. CASE /\ clip[r] = "whole" /\ instant' = r
           /\ shows' = [shows EXCEPT ![r] = @ + 1]
           /\ th' = [th EXCEPT ![t].pc = "place"] /\ UNCHANGED promo
  <2>1. th'[t] = [th[t] EXCEPT !.pc = "place"]
    BY <1>4, Threaded
  <2>2. placed[r] <= shows[r] /\ shows[r] <= excuses[r] /\ shows'[r] = shows[r] + 1
    BY <1>1, <1>2, <1>4 DEF ReplayInv, WorkerType
  <2>3. placed[r] \in Nat /\ shows[r] \in Nat /\ excuses[r] \in Nat
    BY <1>1, <1>2 DEF WorkerType
  <2>4. ThreadInv(t)'
    BY <1>1, <1>3, <1>4, <2>1, <2>2, <2>3, Threaded DEF ThreadInv, Picked, Holding, Locals
  <2>5. Promoting(t, r)'
    BY <2>1, Threaded DEF Promoting, Locals
  <2>6. ReplayInv(r)'
    BY <1>1, <1>3, <1>4, <2>2, <2>3, <2>5 DEF ReplayInv
  <2>7. /\ \A u \in Threads \ {t} : th'[u] = th[u]
        /\ \A s \in Replays \ {r} : /\ clip'[s] = clip[s] /\ placed'[s] = placed[s]
                                      /\ shows'[s] = shows[s] /\ excuses'[s] = excuses[s]
    BY <1>2, <1>3, <1>4, Threaded DEF WorkerType
  <2> QED
    BY <1>1, <2>4, <2>6, <2>7, HolderKeeps
<1>5. CASE Leave(t, FALSE) /\ UNCHANGED <<instant, shows>>
  <2>1. th'[t].pc = "answer" /\ \A u \in Threads \ {t} : th'[u] = th[u]
    BY <1>5, Threaded DEF Leave, Locals
  <2>2. ThreadInv(t)'
    BY <2>1 DEF ThreadInv, Picked, Holding
  <2>3. ReplayInv(r)'
    BY <1>1, <1>2, <1>3, <1>5 DEF ReplayInv
  <2> QED
    BY <1>1, <1>3, <1>5, <2>1, <2>2, <2>3, HolderKeeps
<1> QED
  BY <1>4, <1>5 DEF Show

(* A promotion cut short: the lock is released, with an excuse. *)
LEMMA CutShort ==
    ASSUME IInv, NEW t \in Threads, th[t].pc \in {"place", "check"},
           Leave(t, FALSE), Excuse(th[t].pick), UNCHANGED <<clip, placed, shows>>
    PROVE  Promotion'
<1>0. th[t].pick \in Replays
  BY DEF IInv, ThreadInv, Holding, Picked
<1> PICK r \in Replays : r = th[t].pick
  BY <1>0
<1>1. th[t].pc \in Holding /\ r \in Replays /\ ReplayInv(r) /\ WorkerType
  BY TypeParts DEF IInv, ThreadInv, Holding, Picked
<1>2. th'[t].pc = "answer" /\ \A u \in Threads \ {t} : th'[u] = th[u]
  BY Threaded DEF Leave, Locals
<1>3. ThreadInv(t)'
  BY <1>2 DEF ThreadInv, Picked, Holding
<1>4. excuses'[r] = excuses[r] + 1 /\ shows[r] \in Nat /\ excuses[r] \in Nat /\ placed[r] \in Nat
  BY <1>1 DEF Excuse, WorkerType
<1>5. ReplayInv(r)'
  BY <1>1, <1>4 DEF ReplayInv
<1>6. \A s \in Replays \ {r} : excuses'[s] = excuses[s]
  BY <1>1 DEF Excuse, WorkerType
<1> QED
  BY <1>1, <1>2, <1>3, <1>5, <1>6, HolderKeeps

LEMMA PlaceStep == ASSUME IInv, NEW t \in Threads, Place(t) PROVE Promotion'
<1>0. th[t].pick \in Replays
  BY DEF Place, IInv, ThreadInv, Holding, Picked
<1> PICK r \in Replays : r = th[t].pick
  BY <1>0
<1>1. th[t].pc \in Holding /\ r \in Replays /\ ThreadInv(t) /\ ReplayInv(r) /\ WorkerType
  BY TypeParts DEF Place, IInv, ThreadInv, Holding, Picked
<1>2. UNCHANGED <<clip, instant, shows>>
  BY DEF Place, obs
<1>3. CASE /\ placed' = [placed EXCEPT ![r] = @ + 1]
           /\ th' = [th EXCEPT ![t].pc = "check"] /\ UNCHANGED <<promo, excuses>>
  <2>1. th'[t] = [th[t] EXCEPT !.pc = "check"]
    BY <1>3, Threaded
  <2>2. placed[r] < shows[r] /\ placed'[r] = placed[r] + 1
    BY <1>1, <1>3 DEF Place, ThreadInv, WorkerType
  <2>3. placed[r] \in Nat /\ shows[r] \in Nat /\ excuses[r] \in Nat
    BY <1>1 DEF WorkerType
  <2>4. ThreadInv(t)'
    BY <1>1, <1>2, <1>3, <2>1, <2>2, <2>3, Threaded DEF Place, ThreadInv, Picked, Holding, Locals
  <2>5. Promoting(t, r)'
    BY <2>1, Threaded DEF Promoting, Locals
  <2>6. ReplayInv(r)'
    BY <1>1, <1>2, <1>3, <2>2, <2>3, <2>5 DEF ReplayInv
  <2>7. /\ \A u \in Threads \ {t} : th'[u] = th[u]
        /\ \A s \in Replays \ {r} : placed'[s] = placed[s]
    BY <1>1, <1>3, Threaded DEF WorkerType
  <2> QED
    BY <1>1, <1>2, <1>3, <2>4, <2>6, <2>7, HolderKeeps
<1>4. CASE Excuse(r) /\ Leave(t, FALSE) /\ UNCHANGED placed
  BY <1>2, <1>4, CutShort DEF Place
<1> QED
  BY <1>3, <1>4 DEF Place

LEMMA CheckStep == ASSUME IInv, NEW t \in Threads, Check(t) PROVE Promotion'
<1>0. th[t].pick \in Replays
  BY DEF Check, IInv, ThreadInv, Holding, Picked
<1> PICK r \in Replays : r = th[t].pick
  BY <1>0
<1>1. th[t].pc \in Holding /\ ThreadInv(t) /\ r \in Replays /\ ReplayInv(r)
  BY DEF Check, IInv, ThreadInv, Holding, Picked
<1>2. UNCHANGED <<clip, instant, placed, shows>>
  BY DEF Check, obs
<1>3. CASE th' = [th EXCEPT ![t].pc = "unlink"] /\ UNCHANGED <<promo, excuses>>
  <2>1. th'[t] = [th[t] EXCEPT !.pc = "unlink"] /\ \A u \in Threads \ {t} : th'[u] = th[u]
    BY <1>3, Threaded
  <2>2. ThreadInv(t)'
    BY <1>1, <1>2, <1>3, <2>1, Threaded DEF Check, ThreadInv, Picked, Holding, Locals
  <2>3. Promoting(t, r)'
    BY <2>1, Threaded DEF Promoting, Locals
  <2>4. ReplayInv(r)'
    BY <1>1, <1>2, <1>3, <2>3 DEF ReplayInv
  <2> QED
    BY <1>1, <1>2, <1>3, <2>1, <2>2, <2>4, HolderKeeps
<1>4. CASE Excuse(r) /\ Leave(t, FALSE)
  BY <1>2, <1>4, CutShort DEF Check
<1> QED
  BY <1>3, <1>4 DEF Check

LEMMA UnlinkStep == ASSUME IInv, NEW t \in Threads, Unlink(t) PROVE Promotion'
<1>0. th[t].pick \in Replays
  BY DEF Unlink, IInv, ThreadInv, Holding, Picked
<1> PICK r \in Replays : r = th[t].pick
  BY <1>0
<1>1. th[t].pc \in Holding /\ ThreadInv(t) /\ r \in Replays /\ ReplayInv(r) /\ WorkerType /\ ObsType
  BY TypeParts DEF Unlink, IInv, ThreadInv, Holding, Picked
<1>2. UNCHANGED <<instant, placed, shows>> /\ placed[r] > 0
  BY <1>1 DEF Unlink, ThreadInv
<1>3. th'[t].pc = "answer" /\ \A u \in Threads \ {t} : th'[u] = th[u]
  BY Threaded DEF Unlink, Leave, Locals
<1>4. ThreadInv(t)'
  BY <1>3 DEF ThreadInv, Picked, Holding
<1>5. placed[r] \in Nat /\ shows[r] \in Nat /\ excuses[r] \in Nat
  BY <1>1 DEF WorkerType
<1>6. CASE clip' = [clip EXCEPT ![r] = "gone"] /\ UNCHANGED excuses
  <2>1. ReplayInv(r)' /\ \A s \in Replays \ {r} : clip'[s] = clip[s]
    BY <1>1, <1>2, <1>5, <1>6 DEF ReplayInv, ObsType
  <2> QED
    BY <1>1, <1>2, <1>3, <1>4, <1>6, <2>1, HolderKeeps
<1>7. CASE Excuse(r) /\ clip' = clip
  <2>1. excuses'[r] = excuses[r] + 1 /\ \A s \in Replays \ {r} : excuses'[s] = excuses[s]
    BY <1>1, <1>7 DEF Excuse, WorkerType
  <2>2. ReplayInv(r)'
    BY <1>1, <1>2, <1>5, <1>7, <2>1 DEF ReplayInv
  <2> QED
    BY <1>1, <1>2, <1>3, <1>4, <1>7, <2>1, <2>2, HolderKeeps
<1> QED
  BY <1>6, <1>7 DEF Unlink

(* The end of the process cuts the promotion short, if there is one. *)
LEMMA CrashStep == ASSUME IInv, Crash PROVE Promotion'
<1>1. UNCHANGED <<clip, instant, placed, shows>> /\ WorkerType
  BY TypeParts DEF Crash, obs, IInv
<1>2. \A t \in Threads : th'[t].pc = "idle"
  BY DEF Crash, Idle
<1>3. ASSUME NEW t \in Threads PROVE ThreadInv(t)'
  BY <1>2 DEF ThreadInv, Picked, Holding
<1>4. ASSUME NEW r \in Replays PROVE ReplayInv(r)'
  <2>1. ReplayInv(r) /\ placed[r] \in Nat /\ shows[r] \in Nat /\ excuses[r] \in Nat
    BY <1>1 DEF IInv, WorkerType
  <2>2. excuses'[r] = IF \E t \in Threads : Promoting(t, r) THEN excuses[r] + 1 ELSE excuses[r]
    BY DEF Crash
  <2>3. clip[r] # "gone" => shows[r] <= excuses'[r]
    BY <2>1, <2>2 DEF ReplayInv
  <2>4. shows[r] <= 1 + excuses'[r]
    BY <2>1, <2>2 DEF ReplayInv
  <2> QED
    BY <1>1, <2>1, <2>3, <2>4 DEF ReplayInv
<1> QED
  BY <1>3, <1>4 DEF Promotion

LEMMA Promoted == ASSUME IInv, [Next]_vars PROVE Promotion'
BY Cases, QuietStep, OutsideStep, ObsStep, LockStep, ShowStep, PlaceStep, CheckStep, UnlinkStep, CrashStep

(* Every action of OBS, the scripts and the worker preserves the invariant. *)
THEOREM NextInv == IInv /\ [Next]_vars => IInv'
BY Typed, Ordered, Promoted DEF IInv, Promotion

(***************************************************************************)
(* Theorems                                                                *)
(***************************************************************************)

(* The inductive invariant holds in every state. *)
THEOREM Invariant == Spec => []IInv
BY InitInv, NextInv, PTL DEF Spec

(* The types, for every number of clients, replays and mishaps, with the
   automatic sync on or off. *)
THEOREM TypeCorrect == Spec => []TypeOK
<1>1. IInv => TypeOK
  BY DEF IInv
<1> QED
  BY Invariant, <1>1, PTL

(* A replay leaves long_clips only with a copy of it in the incoming folder,
   whichever promotions overlap and wherever the worker ends. *)
THEOREM NoLoss == Spec => []NoReplayLost
<1>1. IInv => NoReplayLost
  BY DEF IInv, ReplayInv, NoReplayLost
<1> QED
  BY Invariant, <1>1, PTL

(* Each promotion of a replay after its first has an excuse. *)
THEOREM Once == Spec => []PromotedOnce
<1>1. IInv => PromotedOnce
  BY DEF IInv, ReplayInv, PromotedOnce
<1> QED
  BY Invariant, <1>1, PTL

(* Only Place changes the copies, and then INSTANTREPLAY.mkv holds the pick
   of the thread that has the lock. *)
THEOREM First == Spec => ScoreboardFirst
<1> DEFINE A == \A r \in Replays : placed'[r] # placed[r] => instant = r
<1>1. IInv /\ [Next]_vars => A
  <2> SUFFICES ASSUME IInv, [Next]_vars PROVE A
    OBVIOUS
  <2>1. ASSUME NEW t \in Threads, Place(t) PROVE A
    <3>1. instant = th[t].pick
      BY <2>1 DEF IInv, ThreadInv, Place
    <3>2. placed \in [Replays -> Nat]
      BY TypeParts DEF IInv, WorkerType
    <3> QED
      BY <2>1, <3>1, <3>2 DEF Place
  <2>2. CASE UNCHANGED placed
    BY <2>2
  <2> QED
    BY Cases, <2>1, <2>2
       DEF vars, history, Hotkey, ObsBegins, ObsFinishes, AutoTick, Crash, Restart, Press, SaveAndPost,
           SaveFails, GiveUp, ReplayOn, LockBusy, TooBusy, Scan, Stable, LockPromotion, Show, Check,
           Unlink, Answer
<1>2. IInv /\ [Next]_vars => [A]_vars
  BY <1>1
<1> QED
  BY Invariant, <1>2, PTL DEF Spec, ScoreboardFirst
=============================================================================
