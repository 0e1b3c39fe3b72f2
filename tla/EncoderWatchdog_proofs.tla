------------------------ MODULE EncoderWatchdog_proofs ------------------------
(***************************************************************************)
(* Safety of the watchdog, for any settings: what a verdict that rests on  *)
(* the state file spares, that no operator is left behind, and that the    *)
(* limit of the restarts is one of the spawns.                             *)
(***************************************************************************)
EXTENDS EncoderWatchdog, FiniteSetTheorems, FunctionTheorems, TLAPS

(***************************************************************************)
(* The inductive invariant                                                 *)
(***************************************************************************)

OpType ==
    [phase : {"down", "booting", "running", "quitting", "leaving"}, ticking : BOOLEAN,
     rec : BOOLEAN, degraded : BOOLEAN, blocked : BOOLEAN, restarting : BOOLEAN,
     kin : {"child", "survivor", "successor"}, code : {0, 1}]
FileType ==
    [age : 0 .. StaleAfter + 1, rec : BOOLEAN, degraded : BOOLEAN,
     state : {"starting", "ready", "recording", "blocked", "shutting_down"}]
WdType ==
    [pc : {"top", "ping", "file", "kill", "sleep", "stopped", "crashed", "gone"},
     child : {"none", "op", "dup"}, grace : 0 .. Grace, seen : BOOLEAN,
     since : Ages(ShortProtect + Blackout + 1), streak : 0 .. StaleLimit]

Types == op \in OpType /\ file \in FileType /\ wd \in WdType

AgeTypes == restarts \subseteq 0 .. Window + 1 /\ spawns \subseteq 0 .. Window

PingType == [schema : BOOLEAN, ok : BOOLEAN, rec : BOOLEAN, restart : BOOLEAN]

MemoryTypes == ping \in PingType /\ takeSeen \in Ages(ShortProtect + Blackout + 1)

(* The watchdog's locals remember the take as long as anybody would. *)
SeenInv == takeSeen # Never => wd.seen /\ wd.since = takeSeen

(* An operator that neither survived a kill nor restarted itself is the one
   Popen refers to, as long as there is a watchdog. *)
ChildInv == (ChildUp => wd.child = "op") /\ (wd.pc = "gone" => ~ChildUp)

(* What happened in the last `a` units of time. *)
Upto(S, a) == {age \in S : age <= a}

(* The spawn whose restart is still to be counted. *)
Uncounted == IF wd.child = "none" THEN 0 ELSE 1

(* Every spawn but that of the child is followed by a restart, which leaves
   the window no earlier than the spawn does. *)
Booked ==
    \A a \in 0 .. Window :
        Cardinality(Upto(spawns, a)) <= Cardinality(Upto(restarts, a)) + Uncounted

(* The limit ends the loop, so a loop that goes on is below it. *)
Budget ==
    /\ Cardinality(restarts) + Uncounted <= MaxRestarts
    /\ wd.pc \notin {"stopped", "crashed", "gone"} => Cardinality(restarts) < MaxRestarts

(* A sleep lies between two restarts, and between two spawns: a set of ages
   keeps the count of either. *)
Apart ==
    /\ wd.pc \in {"top", "ping", "file", "kill"} /\ 0 \in restarts
          => wd.pc = "top" /\ wd.child = "none"
    /\ wd.pc = "top" => 0 \notin spawns
    /\ wd.pc \in {"ping", "file", "kill"} => wd.child = "op"

Counts == AgeTypes /\ Booked /\ Budget /\ Apart

(***************************************************************************)
(* Types                                                                   *)
(***************************************************************************)

LEMMA Bounds ==
    /\ StaleAfter \in Nat /\ ShortProtect \in Nat /\ Blackout \in Nat /\ Grace \in Nat
    /\ Window \in Nat /\ MaxRestarts \in Nat \ {0}
    /\ StaleLimit \in Nat \ {0} /\ {PingEnabled, RestartOnZero, KillMayFail, PublishMayFail} \subseteq BOOLEAN
BY WatchdogAssumption

LEMMA DownType == \A code \in {0, 1} : OpDown(code) \in OpType /\ OpDown(code).phase = "down"
BY DEF OpDown, OpType

LEMMA BootingType == OpBooting \in OpType
BY DownType DEF OpBooting, OpType

LEMMA FileOfType ==
    ASSUME NEW o \in OpType
    PROVE  FileOf(o) \in FileType
<1>1. 0 \in 0 .. StaleAfter + 1
  BY Bounds
<1> QED
  BY <1>1 DEF FileOf, FileType, OpType

LEMMA FreshType ==
    ASSUME NEW child \in {"none", "op", "dup"}
    PROVE  Fresh(child) \in WdType /\ Fresh(child).child = child /\ Fresh(child).pc = "sleep"
BY Bounds DEF Fresh, WdType, Ages, Never

LEMMA OlderType ==
    ASSUME NEW cap \in Nat, NEW n \in 0 .. cap
    PROVE  Older(n, cap) \in 0 .. cap
BY DEF Older

LEMMA InitTypes == Init => Types /\ SeenInv /\ ChildInv
<1> SUFFICES ASSUME Init PROVE Types /\ SeenInv /\ ChildInv
  OBVIOUS
<1>1. op \in OpType /\ ~ChildUp
  BY DownType DEF Init, Up, ChildUp
<1>2. file \in FileType
  BY DownType, FileOfType, Bounds DEF Init, FileType
<1>3. wd \in WdType /\ wd.child = "none" /\ wd.pc = "top"
  BY FreshType DEF Init, WdType
<1> QED
  BY <1>1, <1>2, <1>3 DEF Init, Types, SeenInv, ChildInv

(* A step of the operator: it stays up or ends, and the watchdog sees nothing. *)
LEMMA OperatorStep ==
    ASSUME Types, OpNext
    PROVE  Types' /\ UNCHANGED <<wd, takeSeen>> /\ (ChildUp' => ChildUp)
<1>0. UNCHANGED <<wd, takeSeen>>
  BY DEF OpNext, OpBoot, OpStart, OpStop, OpTakeEnds, OpTickHealth, OpTickDies, OpQuit, OpRestart,
         OpTakesOver, OpExit,
         OperatorOnly
<1>1. op' \in OpType /\ (ChildUp' => ChildUp)
  <2>1. CASE \E b \in BOOLEAN : OpBoot(b)
    BY <2>1 DEF OpBoot, Types, OpType, Up, ChildUp
  <2>2. CASE OpStart \/ OpStop \/ OpTakeEnds
    BY <2>2 DEF OpStart, OpStop, OpTakeEnds, Types, OpType, Up, ChildUp
  <2>3. CASE OpTickHealth
    <3>1. (~op.degraded) \in BOOLEAN
      OBVIOUS
    <3> QED
      BY <2>3, <3>1 DEF OpTickHealth, Types, OpType, Up, ChildUp
  <2>4. CASE OpTickDies \/ OpQuit
    BY <2>4 DEF OpTickDies, OpQuit, Types, OpType, Up, ChildUp
  <2>5. CASE \E code \in {0, 1} : OpExit(code)
    <3>1. PICK code \in {0, 1} : OpExit(code)
      BY <2>5
    <3>2. (IF ChildUp THEN code ELSE op.code) \in {0, 1}
      BY DEF Types, OpType
    <3> QED
      BY <3>1, <3>2, DownType DEF OpExit, Up, ChildUp
  <2>6. CASE OpRestart
    BY <2>6 DEF OpRestart, Types, OpType, Up, ChildUp
  <2>7. CASE OpTakesOver
    BY <2>7, BootingType DEF OpTakesOver, Types, OpType, Up, ChildUp
  <2> QED
    BY <2>1, <2>2, <2>3, <2>4, <2>5, <2>6, <2>7 DEF OpNext
<1>2. file' \in FileType
  <2>1. file' \in {file, FileOf(op')}
    BY DEF OpNext, OpBoot, OpStart, OpStop, OpTakeEnds, OpTickHealth, OpTickDies, OpQuit, OpRestart, OpTakesOver,
           OpExit, TryPublish, Publish, NoPublish
  <2> QED
    BY <1>1, <2>1, FileOfType DEF Types
<1> QED
  BY <1>0, <1>1, <1>2 DEF Types

(***************************************************************************)
(* The watchdog's steps                                                    *)
(***************************************************************************)

(* A kill leaves no child, or a survivor. *)
LEMMA KillTypes ==
    ASSUME op \in OpType, KillChild
    PROVE  op' \in OpType /\ ~ChildUp'
BY DownType DEF KillChild, OpType, Up, ChildUp

LEMMA TypesNext ==
    ASSUME Types, [Next]_vars
    PROVE  Types'
<1>0. op \in OpType /\ file \in FileType /\ wd \in WdType
  BY DEF Types
<1>1. CASE OpNext
  BY <1>1, OperatorStep
<1>2. CASE UNCHANGED vars
  BY <1>0, <1>2 DEF vars, Types
<1>3. CASE WdExitSeen
  BY <1>0, <1>3 DEF WdExitSeen, BumpRestarts, Types, WdType
<1>4. CASE WdSpawn
  <2>1. CASE Up
    BY <1>0, <1>4, <2>1, FreshType DEF WdSpawn, Types
  <2>2. CASE ~Up
    BY <1>0, <1>4, <2>2, FreshType, BootingType, FileOfType DEF WdSpawn, Types
  <2> QED
    BY <2>1, <2>2
<1>5. CASE WdAlive
  BY <1>0, <1>5 DEF WdAlive, Types, WdType
<1>6. CASE WdPing
  BY <1>0, <1>6 DEF WdPing, Types, WdType
<1>7. CASE WdFileUnreadable
  <2>1. /\ 0 \in 0 .. StaleLimit
        /\ Older(wd.streak, StaleLimit) \in 0 .. StaleLimit
    BY <1>0, Bounds, OlderType DEF WdType
  <2>2. PICK next \in {"sleep", "crashed", "kill"}, n \in 0 .. StaleLimit :
          wd' = [wd EXCEPT !.pc = next, !.streak = n]
    BY <1>7, <2>1 DEF WdFileUnreadable, StaleVerdict
  <2> QED
    BY <1>0, <1>7, <2>2 DEF WdFileUnreadable, Types, WdType
<1>8. CASE WdFileReadable
  <2>1. {0, 1} \subseteq 0 .. StaleLimit /\ 0 \in Ages(ShortProtect + Blackout + 1)
    BY Bounds DEF Ages
  <2>2. PICK next \in {"sleep", "crashed", "kill"}, n \in {0, 1} :
          wd' = [wd EXCEPT !.pc = next, !.seen = file.rec, !.since = 0, !.streak = n]
    BY <1>8 DEF WdFileReadable, StaleVerdict
  <2> QED
    BY <1>0, <1>8, <2>1, <2>2 DEF WdFileReadable, Types, WdType, FileType
<1>9. CASE WdKill
  BY <1>0, <1>9, KillTypes DEF WdKill, BumpRestarts, Types, WdType
<1>10. CASE WdInterrupt
  BY <1>0, <1>10 DEF WdInterrupt, Types, WdType
<1>11. CASE WdFinally
  BY <1>0, <1>11, KillTypes DEF WdFinally, Types, WdType
<1>12. CASE WdSleep
  <2>1. file' \in FileType
    <3>1. StaleAfter + 1 \in Nat
      BY Bounds
    <3>2. Older(file.age, StaleAfter + 1) \in 0 .. StaleAfter + 1
      BY <1>0, <3>1, OlderType DEF FileType
    <3> QED
      BY <1>0, <1>12, <3>2, FileOfType DEF WdSleep, FileType
  <2>2. wd' \in WdType
    <3>1. (IF wd.grace > 0 THEN wd.grace - 1 ELSE 0) \in 0 .. Grace
      BY <1>0, Bounds DEF WdType
    <3>2. ShortProtect + Blackout + 1 \in Nat
      BY Bounds
    <3>3. (IF wd.since = Never THEN wd.since
           ELSE Older(wd.since, ShortProtect + Blackout + 1)) \in Ages(ShortProtect + Blackout + 1)
      BY <1>0, <3>2, OlderType DEF WdType, Ages
    <3> QED
      BY <1>0, <1>12, <3>1, <3>3 DEF WdSleep, WdType
  <2> QED
    BY <1>0, <1>12, <2>1, <2>2 DEF WdSleep, Types
<1> QED
  BY <1>1, <1>2, <1>3, <1>4, <1>5, <1>6, <1>7, <1>8, <1>9, <1>10, <1>11, <1>12 DEF Next, WdLoop

LEMMA SeenNext ==
    ASSUME Types, SeenInv, [Next]_vars
    PROVE  SeenInv'
<1>0. wd \in WdType
  BY DEF Types
<1>1. CASE OpNext \/ UNCHANGED vars
  BY <1>1, OperatorStep DEF vars, SeenInv
<1>2. CASE WdSpawn
  BY <1>2 DEF WdSpawn, SeenInv
<1>3. CASE WdFileReadable
  BY <1>0, <1>3 DEF WdFileReadable, SeenInv, WdType
<1>4. CASE WdSleep
  BY <1>0, <1>4 DEF WdSleep, SeenInv, WdType
<1>5. CASE WdExitSeen \/ WdAlive \/ WdPing \/ WdKill \/ WdInterrupt \/ WdFinally
  <2>1. takeSeen' = takeSeen /\ wd'.seen = wd.seen /\ wd'.since = wd.since
    BY <1>0, <1>5 DEF WdExitSeen, WdAlive, WdPing, WdKill, WdInterrupt, WdFinally,
                      BumpRestarts, WdType
  <2> QED
    BY <2>1 DEF SeenInv
<1>6. CASE WdFileUnreadable
  <2>1. takeSeen' = takeSeen /\ wd'.seen = wd.seen /\ wd'.since = wd.since
    BY <1>0, <1>6 DEF WdFileUnreadable, WdType
  <2> QED
    BY <2>1 DEF SeenInv
<1> QED
  BY <1>1, <1>2, <1>3, <1>4, <1>5, <1>6 DEF Next, WdLoop

LEMMA ChildNext ==
    ASSUME Types, ChildInv, [Next]_vars
    PROVE  ChildInv'
<1>0. wd \in WdType /\ op \in OpType
  BY DEF Types
<1>1. CASE OpNext
  BY <1>1, OperatorStep DEF ChildInv
<1>2. CASE UNCHANGED vars
  BY <1>2 DEF vars, ChildInv, Up, ChildUp
<1>3. CASE WdExitSeen
  <2>1. ~ChildUp /\ op' = op
    BY <1>3 DEF WdExitSeen, ChildInv
  <2> QED
    BY <2>1 DEF ChildInv, Up, ChildUp
<1>4. CASE WdSpawn
  <2>1. ~ChildUp /\ wd'.pc # "gone"
    BY <1>4, FreshType DEF WdSpawn, ChildInv
  <2>2. CASE Up
    BY <1>4, <2>1, <2>2 DEF WdSpawn, ChildInv, Up, ChildUp
  <2>3. CASE ~Up
    BY <1>4, <2>1, <2>3, FreshType DEF WdSpawn, ChildInv
  <2> QED
    BY <2>2, <2>3
<1>5. CASE WdAlive \/ WdPing \/ WdSleep \/ WdInterrupt
  <2>1. wd'.child = wd.child /\ wd'.pc # "gone" /\ op' = op
    BY <1>0, <1>5 DEF WdAlive, WdPing, WdSleep, WdInterrupt, WdType
  <2> QED
    BY <2>1 DEF ChildInv, Up, ChildUp
<1>6. CASE WdFileUnreadable \/ WdFileReadable
  <2>1. wd'.child = wd.child /\ wd'.pc # "gone" /\ op' = op
    BY <1>0, <1>6 DEF WdFileUnreadable, WdFileReadable, StaleVerdict, WdType
  <2> QED
    BY <2>1 DEF ChildInv, Up, ChildUp
<1>7. CASE WdKill
  <2>1. CASE KillChild
    BY <1>0, <2>1, KillTypes DEF ChildInv
  <2>2. CASE ~KillChild
    <3>1. op' = op /\ wd'.child = wd.child /\ wd'.pc # "gone"
      BY <1>0, <1>7, <2>2 DEF WdKill, WdType
    <3> QED
      BY <3>1 DEF ChildInv, Up, ChildUp
  <2> QED
    BY <2>1, <2>2
<1>8. CASE WdFinally
  BY <1>0, <1>8, KillTypes DEF WdFinally, ChildInv
<1> QED
  BY <1>1, <1>2, <1>3, <1>4, <1>5, <1>6, <1>7, <1>8 DEF Next, WdLoop

(***************************************************************************)
(* The theorems                                                            *)
(***************************************************************************)

(* _recording_guard_suppresses_kill: a take seen in the file is safe from
   every verdict that rests on the file, for as long as the settings say. *)
THEOREM FileSparesTake == Spec => FileVerdictSparesTake
<1>1. ASSUME Types, SeenInv, [Next]_vars, wd.pc = "file", wd'.pc = "kill"
      PROVE  takeSeen' = Never \/ (takeSeen' >= Blackout /\ takeSeen' > ShortProtect)
  <2>0. wd \in WdType
    BY <1>1 DEF Types
  <2>1. wd' # wd
    BY <1>1
  <2>2. WdFileUnreadable \/ WdFileReadable
    <3>1. ~OpNext
      BY <1>1, <2>1, OperatorStep
    <3>2. ~WdInterrupt
      BY <1>1, <2>0 DEF WdInterrupt, WdType
    <3>3. WdLoop
      BY <1>1, <2>1, <3>1, <3>2 DEF Next, vars
    <3> QED
      BY <1>1, <2>0, <3>3
         DEF WdLoop, WdExitSeen, WdSpawn, WdAlive, WdPing, WdKill, WdFinally, WdSleep, WdType
  <2>3. CASE WdFileReadable
    <3>1. ~file.rec
      BY <1>1, <2>0, <2>3 DEF WdFileReadable, StaleVerdict, GuardSuppresses, WdType
    <3> QED
      BY <2>3, <3>1 DEF WdFileReadable
  <2>4. CASE WdFileUnreadable
    <3>1. ~GuardSuppresses(FALSE, wd.seen, wd.since) /\ takeSeen' = takeSeen
      BY <1>1, <2>0, <2>4 DEF WdFileUnreadable, StaleVerdict, WdType
    <3>2. takeSeen # Never => wd.seen /\ wd.since = takeSeen /\ wd.since \in Nat
      BY <1>1, <2>0, Bounds DEF SeenInv, WdType, Ages
    <3> QED
      BY <3>1, <3>2, Bounds DEF GuardSuppresses
  <2> QED
    BY <2>2, <2>3, <2>4
<1>2. Types /\ SeenInv /\ [Next]_vars
        => [(wd.pc = "file" /\ wd'.pc = "kill")
              => takeSeen' = Never \/ (takeSeen' >= Blackout /\ takeSeen' > ShortProtect)]_vars
  BY <1>1
<1>3. Init => Types /\ SeenInv
  BY InitTypes
<1> QED
  BY <1>2, <1>3, TypesNext, SeenNext, PTL DEF Spec, FileVerdictSparesTake

(* The finally block takes the child along, and the operator's singleton lets
   there be no other: an operator is left behind only by a kill that failed, or
   by a restart of its own, which ends the child and leaves its successor. *)
THEOREM NoneLeftBehind == Spec => []NoOrphan
<1>1. Init => Types /\ ChildInv
  BY InitTypes
<1>2. Types /\ ChildInv /\ [Next]_vars => ChildInv'
  BY ChildNext
<1>3. Types /\ ChildInv => NoOrphan
  BY DEF Types, OpType, ChildInv, ChildUp, NoOrphan
<1> QED
  BY <1>1, <1>2, <1>3, TypesNext, PTL DEF Spec

(***************************************************************************)
(* Ages in a window                                                        *)
(***************************************************************************)

LEMMA AgesFinite ==
    ASSUME NEW n \in Nat, NEW S \in SUBSET (0 .. n), NEW a
    PROVE  /\ IsFiniteSet(S) /\ Cardinality(S) \in Nat
           /\ IsFiniteSet(Upto(S, a)) /\ Cardinality(Upto(S, a)) \in Nat
           /\ Cardinality(Upto(S, a)) <= Cardinality(S)
<1>1. IsFiniteSet(S)
  <2>1. IsFiniteSet(0 .. n)
    BY FS_Interval
  <2> QED
    BY <2>1, FS_Subset
<1>2. Upto(S, a) \in SUBSET S
  BY DEF Upto
<1> QED
  BY <1>1, <1>2, FS_Subset, FS_CardinalityType

(* What has just happened is in every window. *)
LEMMA UptoNow ==
    ASSUME NEW n \in Nat, NEW S \in SUBSET (0 .. n), NEW a \in Nat
    PROVE  /\ Cardinality(Upto(S \cup {0}, a)) <= Cardinality(Upto(S, a)) + 1
           /\ 0 \notin S => Cardinality(Upto(S \cup {0}, a)) = Cardinality(Upto(S, a)) + 1
<1>1. Upto(S \cup {0}, a) = Upto(S, a) \cup {0}
  BY DEF Upto
<1>2. 0 \notin S => 0 \notin Upto(S, a)
  BY DEF Upto
<1>3. IsFiniteSet(Upto(S, a)) /\ Cardinality(Upto(S, a)) \in Nat
  BY AgesFinite
<1>4. Cardinality(Upto(S, a) \cup {0})
        = IF 0 \in Upto(S, a) THEN Cardinality(Upto(S, a)) ELSE Cardinality(Upto(S, a)) + 1
  BY <1>3, FS_AddElement
<1> QED
  BY <1>1, <1>2, <1>3, <1>4

(* After a unit of time, a window holds what the next smaller one held. *)
LEMMA UptoLater ==
    ASSUME NEW n \in Nat, NEW S \in SUBSET (0 .. n), NEW a \in Nat
    PROVE  Cardinality(Upto({age + 1 : age \in S}, a)) = Cardinality(Upto(S, a - 1))
<1> DEFINE young == Upto(S, a - 1)
           older == Upto({age + 1 : age \in S}, a)
           f == [age \in young |-> age + 1]
<1>1. young \subseteq Nat /\ IsFiniteSet(young)
  <2>1. IsFiniteSet(young)
    BY AgesFinite
  <2>2. S \subseteq Nat /\ young \subseteq S
    BY DEF Upto
  <2> QED
    BY <2>1, <2>2
<1>2. \A b \in older : b \in Nat /\ b - 1 \in young
  BY DEF Upto
<1>3. \A b \in young : b + 1 \in older
  BY DEF Upto
<1>4. f \in Bijection(young, older)
  <2>1. f \in [young -> older]
    BY <1>3
  <2>2. \A b, c \in young : f[b] = f[c] => b = c
    BY <1>1
  <2>3. \A c \in older : \E b \in young : f[b] = c
    BY <1>1, <1>2
  <2> HIDE DEF f, young, older
  <2> QED
    BY <2>1, <2>2, <2>3, Fun_IsBij
<1>5. ExistsBijection(young, older)
  BY <1>4 DEF ExistsBijection
<1> HIDE DEF young, older
<1>6. Cardinality(older) = Cardinality(young)
  BY <1>1, <1>5, FS_Bijection
<1> QED
  BY <1>6 DEF young, older

(* Ages that saturate beyond the window count as if they did not. *)
LEMMA UptoSaturated ==
    ASSUME NEW S \in SUBSET (0 .. Window + 1), NEW a \in 0 .. Window
    PROVE  Upto({Older(age, Window + 1) : age \in S}, a) = Upto({age + 1 : age \in S}, a)
BY Bounds DEF Upto, Older

LEMMA OlderNotMore ==
    ASSUME NEW S \in SUBSET (0 .. Window + 1)
    PROVE  /\ {Older(age, Window + 1) : age \in S} \subseteq 1 .. Window + 1
           /\ Cardinality({Older(age, Window + 1) : age \in S}) <= Cardinality(S)
<1> DEFINE T == {Older(age, Window + 1) : age \in S}
           f == [age \in S |-> Older(age, Window + 1)]
<1>1. T \subseteq 1 .. Window + 1
  BY Bounds DEF Older
<1>2. f \in Surjection(S, T)
  BY Fun_IsSurj
<1>3. IsFiniteSet(S)
  <2>1. Window + 1 \in Nat
    BY Bounds
  <2> QED
    BY <2>1, AgesFinite
<1> HIDE DEF T, f
<1>4. Cardinality(T) <= Cardinality(S)
  BY <1>2, <1>3, FS_Surjection
<1> QED
  BY <1>1, <1>4 DEF T

(***************************************************************************)
(* The steps, as far as the counts are concerned                           *)
(***************************************************************************)

LEMMA InitCounts == Init => Counts
<1> SUFFICES ASSUME Init PROVE Counts
  OBVIOUS
<1>1. restarts = {} /\ spawns = {} /\ wd.child = "none" /\ wd.pc = "top"
  BY FreshType DEF Init, WdType
<1>2. Cardinality({}) = 0 /\ \A a : Upto({}, a) = {}
  BY FS_EmptySet DEF Upto
<1> QED
  BY <1>1, <1>2, Bounds DEF Counts, AgeTypes, Booked, Budget, Apart, Uncounted

(* Pruning forgets nothing of any window. *)
LEMMA PrunedCounts ==
    ASSUME AgeTypes
    PROVE  /\ Pruned \in SUBSET (0 .. Window) /\ Pruned \subseteq restarts
           /\ Cardinality(Pruned) \in Nat /\ Cardinality(Pruned) <= Cardinality(restarts)
           /\ \A a \in 0 .. Window : Upto(Pruned, a) = Upto(restarts, a)
<1>1. Pruned = Upto(restarts, Window)
  BY DEF Pruned, Upto
<1>2. Window + 1 \in Nat /\ restarts \in SUBSET (0 .. Window + 1)
  BY Bounds DEF AgeTypes
<1>3. Cardinality(Pruned) \in Nat /\ Cardinality(Pruned) <= Cardinality(restarts)
  BY <1>1, <1>2, AgesFinite
<1>4. Pruned \in SUBSET (0 .. Window) /\ Pruned \subseteq restarts
  <2> SUFFICES ASSUME NEW age \in Pruned PROVE age \in restarts /\ age \in 0 .. Window
    OBVIOUS
  <2> QED
    BY <1>2, Bounds DEF Pruned
<1>5. \A a \in 0 .. Window : Upto(Pruned, a) = Upto(restarts, a)
  <2> SUFFICES ASSUME NEW a \in 0 .. Window, NEW age \in restarts, age <= a
               PROVE  age <= Window
    BY DEF Pruned, Upto
  <2> QED
    BY <1>2, Bounds
<1> QED
  BY <1>3, <1>4, <1>5

(* A restart is counted: the child's spawn has its restart from now on. *)
LEMMA BumpCounts ==
    ASSUME Types, Counts, NEW times \in {restarts, Pruned}, NEW next \in {"top", "sleep"},
           wd.child # "none", <<wd.pc, next>> \in {<<"top", "top">>, <<"kill", "sleep">>},
           BumpRestarts(times, next),
           spawns' = spawns
    PROVE  Counts'
<1>0. wd \in WdType /\ Window + 1 \in Nat /\ MaxRestarts \in Nat \ {0}
  BY Bounds DEF Types
<1>1. /\ times \in SUBSET (0 .. Window + 1) /\ 0 \notin times
      /\ Cardinality(times) \in Nat /\ Cardinality(times) < MaxRestarts
      /\ \A a \in 0 .. Window : Upto(times, a) = Upto(restarts, a)
  <2>1. /\ restarts \in SUBSET (0 .. Window + 1) /\ 0 \notin restarts
        /\ Cardinality(restarts) < MaxRestarts
    BY DEF Counts, AgeTypes, Apart, Budget
  <2>2. Cardinality(restarts) \in Nat
    BY <1>0, <2>1, AgesFinite
  <2>3. CASE times = restarts
    BY <2>1, <2>2, <2>3
  <2>4. CASE times = Pruned
    BY <2>1, <2>2, <2>4, <1>0, PrunedCounts DEF Counts
  <2> QED
    BY <2>3, <2>4
<1>2. /\ restarts' = times \cup {0}
      /\ wd'.child = "none" /\ wd'.pc \in {"stopped", next}
      /\ Cardinality(restarts') < MaxRestarts \/ wd'.pc = "stopped"
  <2>1. wd' = [wd EXCEPT !.child = "none",
                         !.pc = IF Cardinality(restarts') >= MaxRestarts THEN "stopped" ELSE next]
    BY DEF BumpRestarts
  <2>2. restarts' = times \cup {0}
    BY DEF BumpRestarts
  <2>3. IsFiniteSet(times) /\ Cardinality(times) \in Nat
    BY <1>0, <1>1, AgesFinite
  <2>4. Cardinality(restarts') \in Nat
    BY <2>2, <2>3, FS_AddElement, FS_CardinalityType
  <2> QED
    BY <1>0, <2>1, <2>2, <2>4 DEF WdType
<1>3. Cardinality(restarts') = Cardinality(times) + 1
  <2>1. IsFiniteSet(times)
    BY <1>0, <1>1, AgesFinite
  <2> QED
    BY <1>1, <1>2, <2>1, FS_AddElement
<1>4. AgeTypes'
  BY <1>1, <1>2, Bounds DEF Counts, AgeTypes
<1>5. Booked'
  <2> SUFFICES ASSUME NEW a \in 0 .. Window
               PROVE  Cardinality(Upto(spawns, a)) <= Cardinality(Upto(restarts', a)) + 0
    BY <1>2 DEF Booked, Uncounted, Upto
  <2>1. Cardinality(Upto(spawns, a)) <= Cardinality(Upto(times, a)) + 1
    BY <1>1 DEF Counts, Booked, Uncounted
  <2>2. a \in Nat
    BY Bounds
  <2>3. Cardinality(Upto(times \cup {0}, a)) = Cardinality(Upto(times, a)) + 1
    BY <1>0, <1>1, <2>2, UptoNow
  <2>4. Cardinality(Upto(times, a)) \in Nat
    BY <1>0, <1>1, AgesFinite
  <2> QED
    BY <1>2, <2>1, <2>3, <2>4
<1>6. Budget'
  BY <1>0, <1>1, <1>2, <1>3 DEF Budget, Uncounted
<1>7. Apart'
  <2>1. wd'.pc = "top" => next = "top" /\ wd.pc = "top"
    BY <1>2
  <2> QED
    BY <1>2, <2>1 DEF Counts, Apart
<1> QED
  BY <1>4, <1>5, <1>6, <1>7 DEF Counts

LEMMA SpawnCounts ==
    ASSUME Types, Counts, WdSpawn
    PROVE  Counts'
<1>0. /\ wd.pc = "top" /\ wd.child = "none"
      /\ restarts' = Pruned /\ spawns' = spawns \cup {0}
      /\ wd'.child # "none" /\ wd'.pc = "sleep"
  <2>1. \E child \in {"op", "dup"} : wd' = Fresh(child)
    BY DEF WdSpawn
  <2> QED
    BY <2>1, FreshType DEF WdSpawn
<1>1. /\ Pruned \in SUBSET (0 .. Window)
      /\ Cardinality(Pruned) \in Nat /\ Cardinality(Pruned) <= Cardinality(restarts)
      /\ \A a \in 0 .. Window : Upto(Pruned, a) = Upto(restarts, a)
  BY PrunedCounts DEF Counts
<1>2. Cardinality(restarts) \in Nat /\ Cardinality(restarts) < MaxRestarts /\ MaxRestarts \in Nat
  <2>1. Window + 1 \in Nat /\ restarts \in SUBSET (0 .. Window + 1)
    BY Bounds DEF Counts, AgeTypes
  <2> QED
    BY <1>0, <2>1, AgesFinite, Bounds DEF Counts, Budget
<1>3. AgeTypes'
  BY <1>0, <1>1, Bounds DEF Counts, AgeTypes
<1>4. Booked'
  <2> SUFFICES ASSUME NEW a \in 0 .. Window
               PROVE  Cardinality(Upto(spawns \cup {0}, a)) <= Cardinality(Upto(Pruned, a)) + 1
    BY <1>0 DEF Booked, Uncounted, Upto
  <2>1. Cardinality(Upto(spawns, a)) <= Cardinality(Upto(restarts, a)) + 0
    BY <1>0 DEF Counts, Booked, Uncounted
  <2>2. a \in Nat /\ Window \in Nat /\ spawns \in SUBSET (0 .. Window)
    BY Bounds DEF Counts, AgeTypes
  <2>3. /\ Cardinality(Upto(spawns \cup {0}, a)) <= Cardinality(Upto(spawns, a)) + 1
        /\ Cardinality(Upto(spawns, a)) \in Nat
    BY <2>2, UptoNow, AgesFinite
  <2>4. Cardinality(Upto(Pruned, a)) \in Nat
    BY <1>1, <2>2, AgesFinite
  <2>5. 0 \in spawns \cup {0} /\ spawns \cup {0} \in SUBSET (0 .. Window)
    BY <2>2
  <2>6. Cardinality(Upto(spawns \cup {0}, a)) \in Nat
    BY <2>2, <2>5, AgesFinite
  <2> QED
    BY <1>1, <2>1, <2>3, <2>4, <2>6
<1>5. Budget'
  BY <1>0, <1>1, <1>2 DEF Budget, Uncounted
<1>6. Apart'
  BY <1>0 DEF Apart
<1> QED
  BY <1>3, <1>4, <1>5, <1>6 DEF Counts

(* Time passes: both windows move on together. *)
LEMMA SleepCounts ==
    ASSUME Types, Counts, WdSleep
    PROVE  Counts'
<1> DEFINE later == {age + 1 : age \in spawns}
           older == {Older(age, Window + 1) : age \in restarts}
<1>0. wd \in WdType /\ Window \in Nat /\ Window + 1 \in Nat /\ MaxRestarts \in Nat
  BY Bounds DEF Types
<1>1. /\ restarts' = older /\ spawns' = later \cap 0 .. Window
      /\ wd'.child = wd.child /\ wd.pc = "sleep" /\ wd'.pc = "top"
  BY <1>0 DEF WdSleep, WdType
<1>2. restarts \in SUBSET (0 .. Window + 1) /\ spawns \in SUBSET (0 .. Window)
  BY DEF Counts, AgeTypes
<1>3. older \subseteq 1 .. Window + 1 /\ Cardinality(older) <= Cardinality(restarts)
  BY <1>2, OlderNotMore
<1>4. Cardinality(restarts) \in Nat /\ Cardinality(older) \in Nat
  <2>1. older \in SUBSET (0 .. Window + 1)
    BY <1>0, <1>3
  <2> QED
    BY <1>0, <1>2, <2>1, AgesFinite
<1>5. 0 \notin later
  BY <1>2
<1>6. AgeTypes'
  BY <1>0, <1>1, <1>3 DEF AgeTypes
<1>7. Booked'
  <2> SUFFICES ASSUME NEW a \in 0 .. Window
               PROVE  Cardinality(Upto(later \cap 0 .. Window, a))
                        <= Cardinality(Upto(older, a)) + Uncounted
    <3>1. Uncounted' = Uncounted
      BY <1>1 DEF Uncounted
    <3> HIDE DEF later, older
    <3> QED
      BY <1>1, <3>1 DEF Booked, Upto
  <2>0. a \in Nat /\ Uncounted \in {0, 1}
    BY <1>0 DEF Uncounted
  <2>1. Upto(later \cap 0 .. Window, a) = Upto(later, a)
    BY <1>0, <1>2 DEF Upto
  <2>2. Cardinality(Upto(later, a)) = Cardinality(Upto(spawns, a - 1))
    BY <1>0, <1>2, <2>0, UptoLater
  <2>3. Cardinality(Upto(older, a)) = Cardinality(Upto(restarts, a - 1))
    BY <1>0, <1>2, <2>0, UptoLater, UptoSaturated
  <2> HIDE DEF later, older
  <2>4. CASE a = 0
    <3>1. Cardinality(Upto(spawns, a - 1)) = 0
      <4>1. \A age \in spawns : ~(age <= a - 1)
        BY <1>2, <2>0, <2>4
      <4>2. Upto(spawns, a - 1) = {}
        BY <4>1 DEF Upto
      <4> QED
        BY <4>2, FS_EmptySet
    <3>2. Cardinality(Upto(restarts, a - 1)) \in Nat
      BY <1>0, <1>2, AgesFinite
    <3> QED
      BY <2>0, <2>1, <2>2, <2>3, <3>1, <3>2
  <2>5. CASE a # 0
    <3>1. a - 1 \in 0 .. Window
      BY <1>0, <2>5
    <3>2. Cardinality(Upto(spawns, a - 1)) <= Cardinality(Upto(restarts, a - 1)) + Uncounted
      BY <3>1 DEF Counts, Booked
    <3> QED
      BY <2>1, <2>2, <2>3, <3>2
  <2> QED
    BY <2>4, <2>5
<1>8. Budget'
  <2>1. Uncounted' = Uncounted /\ Uncounted \in {0, 1}
    BY <1>1 DEF Uncounted
  <2> HIDE DEF older
  <2> QED
    BY <1>0, <1>1, <1>3, <1>4, <2>1 DEF Counts, Budget
<1>9. Apart'
  <2>1. 0 \notin restarts' /\ 0 \notin spawns'
    BY <1>1, <1>3, <1>5
  <2> QED
    BY <1>1, <2>1 DEF Apart
<1> QED
  BY <1>6, <1>7, <1>8, <1>9 DEF Counts

(* The top of the loop, when it only prunes. *)
LEMMA PruneCounts ==
    ASSUME Counts, restarts' = Pruned, spawns' = spawns, wd'.child = wd.child,
           wd.pc = "top", wd'.pc \in {"sleep", "ping", "file", "stopped"}, wd.child # "none",
           wd'.pc \in {"ping", "file"} => wd.child = "op"
    PROVE  Counts'
<1>0. restarts \in SUBSET (0 .. Window + 1) /\ Window + 1 \in Nat /\ MaxRestarts \in Nat
  BY Bounds DEF Counts, AgeTypes
<1>1. Cardinality(restarts) \in Nat
  BY <1>0, AgesFinite
<1>2. /\ Pruned \in SUBSET (0 .. Window) /\ Pruned \subseteq restarts
      /\ Cardinality(Pruned) \in Nat /\ Cardinality(Pruned) <= Cardinality(restarts)
      /\ \A a \in 0 .. Window : Upto(Pruned, a) = Upto(restarts, a)
  BY PrunedCounts DEF Counts
<1>3. AgeTypes'
  BY <1>0, <1>2 DEF Counts, AgeTypes
<1>4. Booked'
  <2> SUFFICES ASSUME NEW a \in 0 .. Window
               PROVE  Cardinality(Upto(spawns, a)) <= Cardinality(Upto(Pruned, a)) + Uncounted
    BY DEF Booked, Upto, Uncounted
  <2> QED
    BY <1>2 DEF Counts, Booked
<1>5. Budget'
  BY <1>0, <1>1, <1>2 DEF Counts, Budget, Uncounted
<1>6. Apart'
  BY <1>2 DEF Counts, Apart
<1> QED
  BY <1>3, <1>4, <1>5, <1>6 DEF Counts

LEMMA CountsNext ==
    ASSUME Types, Counts, [Next]_vars
    PROVE  Counts'
<1>0. wd \in WdType /\ Window + 1 \in Nat /\ MaxRestarts \in Nat \ {0}
  BY Bounds DEF Types
<1>1. ASSUME restarts' = restarts, spawns' = spawns, wd'.child = wd.child, wd'.pc # "top",
             wd'.pc \in {"ping", "file", "kill"} => wd.pc \in {"ping", "file", "kill"},
             wd.pc \in {"stopped", "crashed", "gone"} => wd'.pc \in {"stopped", "crashed", "gone"}
      PROVE  Counts'
  <2>1. AgeTypes' /\ Booked' /\ Budget'
    BY <1>1 DEF Counts, AgeTypes, Booked, Budget, Uncounted, Upto
  <2>2. Apart'
    BY <1>0, <1>1 DEF Counts, Apart, WdType
  <2> QED
    BY <2>1, <2>2 DEF Counts
<1>2. CASE OpNext \/ UNCHANGED vars
  <2>1. UNCHANGED <<wd, restarts, spawns>>
    BY <1>2 DEF OpNext, OpBoot, OpStart, OpStop, OpTakeEnds, OpTickHealth, OpTickDies, OpQuit, OpRestart, OpTakesOver,
                OpExit, OperatorOnly, vars
  <2> QED
    BY <2>1 DEF Counts, AgeTypes, Booked, Budget, Apart, Uncounted, Upto
<1>3. CASE WdExitSeen
  <2>1. wd.pc = "top" /\ wd.child # "none" /\ spawns' = spawns
    BY <1>3 DEF WdExitSeen
  <2>2. CASE BumpRestarts(Pruned, "top")
    BY <2>1, <2>2, BumpCounts
  <2>3. CASE wd' = [wd EXCEPT !.pc = "stopped"] /\ restarts' = Pruned
    <3>1. wd'.child = wd.child /\ wd'.pc = "stopped"
      BY <1>0, <2>3 DEF WdType
    <3> QED
      BY <2>1, <2>3, <3>1, PruneCounts
  <2> QED
    BY <1>3, <2>2, <2>3 DEF WdExitSeen
<1>4. CASE WdSpawn
  BY <1>4, SpawnCounts
<1>5. CASE WdAlive
  <2>1. /\ wd.pc = "top" /\ wd.child = "op" /\ wd'.child = wd.child
        /\ wd'.pc \in {"sleep", "ping", "file"}
        /\ restarts' = Pruned /\ spawns' = spawns
    BY <1>0, <1>5 DEF WdAlive, WdType
  <2> QED
    BY <2>1, PruneCounts
<1>6. CASE WdPing
  BY <1>0, <1>1, <1>6 DEF WdPing, WdType
<1>7. CASE WdFileUnreadable
  BY <1>0, <1>1, <1>7 DEF WdFileUnreadable, StaleVerdict, WdType
<1>8. CASE WdFileReadable
  BY <1>0, <1>1, <1>8 DEF WdFileReadable, StaleVerdict, WdType
<1>9. CASE WdKill
  <2>1. wd.pc = "kill" /\ wd.child # "none" /\ spawns' = spawns
    BY <1>9 DEF WdKill, Counts, Apart
  <2>2. CASE BumpRestarts(restarts, "sleep")
    BY <2>1, <2>2, BumpCounts
  <2>3. CASE ~BumpRestarts(restarts, "sleep")
    BY <1>0, <1>1, <1>9, <2>1, <2>3 DEF WdKill, WdType
  <2> QED
    BY <2>2, <2>3
<1>10. CASE WdInterrupt
  BY <1>0, <1>1, <1>10 DEF WdInterrupt, WdType
<1>11. CASE WdFinally
  BY <1>0, <1>1, <1>11 DEF WdFinally, WdType
<1>12. CASE WdSleep
  BY <1>12, SleepCounts
<1> QED
  BY <1>2, <1>3, <1>4, <1>5, <1>6, <1>7, <1>8, <1>9, <1>10, <1>11, <1>12 DEF Next, WdLoop

(* bump_restart_counter: whichever way the operator comes to its end, no
   window sees it spawned more often than the limit says. *)
THEOREM SpawnLimit == Spec => []SpawnsBounded
<1>1. Init => Types /\ Counts
  BY InitTypes, InitCounts
<1>2. Types /\ Counts /\ [Next]_vars => Types' /\ Counts'
  BY TypesNext, CountsNext
<1>3. Counts => SpawnsBounded
  <2> SUFFICES ASSUME Counts PROVE SpawnsBounded
    OBVIOUS
  <2>1. /\ restarts \in SUBSET (0 .. Window + 1) /\ Window + 1 \in Nat
        /\ spawns \in SUBSET (0 .. Window) /\ Window \in 0 .. Window
    BY Bounds DEF Counts, AgeTypes
  <2>2. Upto(spawns, Window) = spawns
    <3>1. \A age \in spawns : age <= Window
      BY <2>1
    <3> QED
      BY <3>1 DEF Upto
  <2>3. Cardinality(spawns) <= Cardinality(Upto(restarts, Window)) + Uncounted
    BY <2>1, <2>2 DEF Counts, Booked
  <2>4. /\ Cardinality(Upto(restarts, Window)) \in Nat /\ Cardinality(restarts) \in Nat
        /\ Cardinality(Upto(restarts, Window)) <= Cardinality(restarts)
    BY <2>1, AgesFinite
  <2>5. Cardinality(spawns) \in Nat
    BY <2>1, Bounds, AgesFinite
  <2>6. Uncounted \in {0, 1} /\ Cardinality(restarts) + Uncounted <= MaxRestarts
    BY DEF Counts, Budget, Uncounted
  <2> QED
    BY <2>3, <2>4, <2>5, <2>6, Bounds DEF SpawnsBounded
<1> QED
  BY <1>1, <1>2, <1>3, PTL DEF Spec

(***************************************************************************)
(* The types of what only the properties and the ping read                 *)
(***************************************************************************)

LEMMA MemoryNext ==
    ASSUME Types, MemoryTypes, [Next]_vars
    PROVE  MemoryTypes'
<1>0. op' \in OpType /\ op \in OpType
  BY TypesNext DEF Types
<1>1. \A o \in OpType : PingOf(o) \in PingType
  BY DEF PingOf, OpType, PingType
<1>2. Nobody \in PingType
  BY DEF Nobody, PingType
<1>3. ping' \in {ping, Nobody, PingOf(op')}
  <2>1. CASE OpNext
    BY <2>1 DEF OpNext, OpBoot, OpStart, OpStop, OpTakeEnds, OpTickHealth, OpTickDies, OpQuit, OpRestart, OpTakesOver,
                OpExit, TryPublish, Publish, NoPublish
  <2>2. CASE WdSleep
    BY <2>2 DEF WdSleep
  <2>3. CASE ~OpNext /\ ~WdSleep
    BY <2>3 DEF Next, WdLoop, WdExitSeen, WdSpawn, WdAlive, WdPing, WdFileUnreadable,
                WdFileReadable, WdKill, WdInterrupt, WdFinally, KillChild, vars
  <2> QED
    BY <2>1, <2>2, <2>3
<1>4. takeSeen' \in Ages(ShortProtect + Blackout + 1)
  <2>1. ShortProtect + Blackout + 1 \in Nat
    BY Bounds
  <2>2. {0, Never} \subseteq Ages(ShortProtect + Blackout + 1)
    BY <2>1 DEF Ages
  <2>3. CASE WdSleep
    BY <2>1, <2>3, OlderType DEF WdSleep, MemoryTypes, Ages
  <2>4. CASE ~WdSleep
    <3>1. takeSeen' \in {takeSeen, 0, Never}
      BY <2>4, OperatorStep
         DEF Next, WdLoop, WdExitSeen, WdSpawn, WdAlive, WdPing, WdFileUnreadable,
             WdFileReadable, WdKill, WdInterrupt, WdFinally, vars
    <3> QED
      BY <2>2, <3>1 DEF MemoryTypes
  <2> QED
    BY <2>3, <2>4
<1> QED
  BY <1>0, <1>1, <1>2, <1>3, <1>4 DEF MemoryTypes

(* Type correctness; the ages of restarts and spawns stay in their windows. *)
THEOREM TypeCorrect == Spec => []TypeOK
<1>1. Init => Types /\ Counts /\ MemoryTypes
  <2>1. Init => MemoryTypes
    BY Bounds DEF Init, MemoryTypes, Nobody, PingType, Ages
  <2> QED
    BY <2>1, InitTypes, InitCounts
<1>2. Types /\ Counts /\ MemoryTypes /\ [Next]_vars => Types' /\ Counts' /\ MemoryTypes'
  BY TypesNext, CountsNext, MemoryNext
<1>3. Types /\ Counts /\ MemoryTypes => TypeOK
  BY DEF Types, Counts, AgeTypes, MemoryTypes, OpType, FileType, WdType, PingType, TypeOK
<1> QED
  BY <1>1, <1>2, <1>3, PTL DEF Spec
=============================================================================
