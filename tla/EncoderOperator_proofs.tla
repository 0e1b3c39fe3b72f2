----------------------- MODULE EncoderOperator_proofs -----------------------
(***************************************************************************)
(* Safety of the recorder, for any number of takes, incarnations and       *)
(* commands: types, and that a capture is lost, or blamed for what another *)
(* did, only by one of the three mishaps the model keeps an account of.    *)
(***************************************************************************)
EXTENDS EncoderOperator, SequenceTheorems, TLAPS

(***************************************************************************)
(* The inductive invariants                                                *)
(***************************************************************************)

(* A command that is being handled is there; a start has a process to spawn. *)
Types ==
    /\ TypeOK
    /\ tk.batch <= Len(pending)
    /\ tk.pc = "start" => MayTake
    /\ tk.pc = "restart" => tk.batch > 0

Clean(n) == mishap[n] = "none"

(* Whatever runs, or is waited for, is the recorder's, but for mishaps. *)
TakeInv ==
    /\ rec.reaper = rec.proc
    /\ rec.proc # NoTake => ff[rec.proc] # "none"
    /\ \A n \in Takes : Clean(n) /\ (ff[n] = "alive" \/ reaper[n] = "waiting") => n = rec.proc

(* What a thread in LongOnlyRecorder.stop knows of its take.  Only a rushed
   start puts another in its place, and only under the worker.  Unless it
   survived, it has ended by the join and was reaped by the clear. *)
StopInv(t) ==
    stops[t].pc # "off" =>
        /\ stops[t].take \in Takes /\ ff[stops[t].take] # "none"
        /\ \/ rec.proc \in {NoTake, stops[t].take}
           \/ t = "worker" /\ ~Clean(rec.proc)
        /\ stops[t].pc \in {"join", "clear"} /\ Clean(stops[t].take) =>
               /\ ff[stops[t].take] # "alive"
               /\ stops[t].join = stops[t].take \/ reaper[stops[t].take] # "waiting"
        /\ stops[t].pc = "clear" /\ Clean(stops[t].take) => reaper[stops[t].take] # "waiting"

(* Who may be in stop, and what is in the recorder once he is out. *)
ThreadInv ==
    /\ stops["worker"].pc # "off" => worker.pc = "stop"
    /\ stops["tk"].pc # "off" => tk.pc \in {"start", "restart"}
    /\ worker.pc # "off" \/ posted # "none" => app.stopping
    /\ worker.pc # "off" => posted = "none"
    /\ (worker.pc \in {"stop", "verify"} \/ posted # "none") /\ stops["worker"].pc = "off" =>
           rec.proc = NoTake \/ ~Clean(rec.proc)
    /\ tk.pc \in {"start", "restart"} /\ stops["tk"].pc = "off" => rec.proc = NoTake

OwnInv ==
    /\ TakeInv /\ (\A t \in {"tk", "worker"} : StopInv(t)) /\ ThreadInv
    /\ FaultIsOwn

Inv == Types /\ OwnInv

(***************************************************************************)
(* Types                                                                   *)
(***************************************************************************)

AppType ==
    [phase : {"booting", "running", "gone"}, blocked : BOOLEAN, closing : BOOLEAN,
     quit : BOOLEAN, stopping : BOOLEAN, polls : BOOLEAN,
     raised : BOOLEAN, boots : 1 .. MaxBoots]
RecType ==
    [proc : 0 .. MaxTakes, reaper : 0 .. MaxTakes,
     out : 0 .. MaxTakes, fault : 0 .. NoCapture]
Codes == {"none", "alive", "ok", "bad"}
Ends == {"none", "waiting", "done"}
Mishaps == {"none", "rushed", "unkilled", "orphaned"}
TkType == [pc : {"idle", "poll", "start", "restart"}, batch : 0 .. MaxPending]
StopType == [pc : {"off", "wait", "join", "clear"}, take : 0 .. MaxTakes, join : 0 .. MaxTakes]
WorkerType == [pc : {"off", "call", "stop", "verify"}, quit : BOOLEAN, take : 0 .. MaxTakes]

ProcessTypes ==
    ff \in [Takes -> Codes] /\ reaper \in [Takes -> Ends] /\ mishap \in [Takes -> Mishaps]
ThreadTypes ==
    /\ stops \in [{"tk", "worker"} -> StopType] /\ worker \in WorkerType
    /\ posted \in {"none", "plain", "quit"}
PendingTypes == pending \in Seq(Commands) /\ Len(pending) <= MaxPending

LEMMA Bounds == MaxTakes \in Nat \ {0} /\ MaxBoots \in Nat \ {0} /\ MaxPending \in Nat \ {0}
BY OperatorAssumption

LEMMA TypesAre ==
    TypeOK <=> /\ app \in AppType /\ rec \in RecType /\ ProcessTypes /\ tk \in TkType
               /\ ThreadTypes /\ PendingTypes
BY DEF TypeOK, AppType, RecType, ProcessTypes, Codes, Ends, Mishaps, TkType, ThreadTypes, StopType,
       WorkerType, PendingTypes

LEMMA NoTakeType ==
    /\ NoTake \in 0 .. MaxTakes /\ NoTake \in 0 .. NoCapture /\ NoCapture \in 0 .. NoCapture
    /\ \A n \in Takes : n \in 0 .. MaxTakes /\ n \in 0 .. NoCapture /\ n # NoTake /\ n # NoCapture
BY Bounds DEF NoTake, NoCapture, Takes

LEMMA FreshTypes ==
    /\ NoRecorder \in RecType /\ IdleTk \in TkType /\ NotStopping \in StopType
    /\ NoWorker \in WorkerType /\ \A q \in BOOLEAN : WorkerOf(q) \in WorkerType
    /\ Booting \in AppType
BY NoTakeType, Bounds
   DEF NoRecorder, RecType, IdleTk, TkType, NotStopping, StopType, NoWorker, WorkerOf,
       WorkerType, Booting, AppType

LEMMA NextTakeType ==
    ASSUME MayTake
    PROVE  NextTake \in Takes /\ ff[NextTake] = "none"
BY DEF MayTake, NextTake

LEMMA CallStopType ==
    ASSUME rec \in RecType, ThreadTypes, NEW t \in {"tk", "worker"}, CallStop(t)
    PROVE  stops' \in [{"tk", "worker"} -> StopType]
<1>1. [pc |-> "wait", take |-> rec.proc, join |-> NoTake] \in StopType
  BY NoTakeType DEF RecType, StopType
<1> QED
  BY <1>1 DEF CallStop, ThreadTypes

LEMMA VanishTypes ==
    ASSUME Types, NEW next \in AppType, Vanish(next), pending' = pending,
           mishap' \in [Takes -> Mishaps]
    PROVE  Types'
<1>1. app' \in AppType /\ rec' \in RecType /\ tk' \in TkType
  BY FreshTypes DEF Vanish
<1>2. ProcessTypes'
  BY TypesAre DEF Vanish, Types, ProcessTypes, Ends
<1>3. ThreadTypes'
  <2>1. stops' \in [{"tk", "worker"} -> StopType]
    BY FreshTypes DEF Vanish
  <2> QED
    BY <2>1, FreshTypes DEF Vanish, ThreadTypes
<1>4. PendingTypes' /\ tk'.batch = 0 /\ tk'.pc = "idle" /\ Len(pending') \in Nat
  BY TypesAre, LenProperties DEF Vanish, Types, PendingTypes, IdleTk
<1>5. TypeOK'
  BY <1>1, <1>2, <1>3, <1>4 DEF TypeOK, AppType, RecType, ProcessTypes, Codes, Ends, Mishaps, TkType,
     ThreadTypes, StopType, WorkerType, PendingTypes
<1> QED
  BY <1>4, <1>5 DEF Types

LEMMA InitTypes == Init => Types
<1> SUFFICES ASSUME Init PROVE Types
  OBVIOUS
<1>1. ProcessTypes
  BY DEF Init, ProcessTypes, Codes, Ends, Mishaps
<1>2. ThreadTypes
  BY FreshTypes DEF Init, ThreadTypes
<1>3. PendingTypes /\ Len(pending) = 0 /\ tk = IdleTk
  BY Bounds, EmptySeq DEF Init, PendingTypes
<1>4. TypeOK
  BY <1>1, <1>2, <1>3, FreshTypes, TypesAre DEF Init
<1> QED
  BY <1>3, <1>4 DEF Types, IdleTk

(* The head of the list is gone, and its place in the batch with it. *)
LEMMA ConsumedTypes ==
    ASSUME Types, tk.batch > 0
    PROVE  /\ Tail(pending) \in Seq(Commands) /\ Len(Tail(pending)) <= MaxPending
           /\ Len(Tail(pending)) = Len(pending) - 1 /\ Len(pending) \in Nat
           /\ Consumed \in TkType /\ Consumed.batch = tk.batch - 1 /\ Consumed.pc = tk.pc
           /\ Consumed.batch <= Len(Tail(pending))
           /\ Len(pending) > 0
<1>1. /\ pending \in Seq(Commands) /\ Len(pending) \in Nat /\ Len(pending) <= MaxPending
      /\ tk \in TkType /\ tk.batch > 0 /\ tk.batch <= Len(pending)
  BY TypesAre, LenProperties DEF Types, PendingTypes
<1>2. tk.batch \in Nat /\ tk.batch - 1 \in 0 .. MaxPending /\ Len(pending) > 0
  BY <1>1, Bounds DEF TkType
<1>3. pending # <<>>
  BY <1>1, <1>2, EmptySeq
<1>4. Tail(pending) \in Seq(Commands) /\ Len(Tail(pending)) = Len(pending) - 1
  BY <1>1, <1>3, HeadTailProperties
<1>5. Consumed \in TkType /\ Consumed.batch = tk.batch - 1 /\ Consumed.pc = tk.pc
  BY <1>1, <1>2 DEF Consumed, TkType
<1> QED
  BY <1>1, <1>2, <1>4, <1>5, Bounds

LEMMA Assemble ==
    ASSUME app' \in AppType, rec' \in RecType, ProcessTypes', tk' \in TkType, ThreadTypes',
           PendingTypes', tk'.batch <= Len(pending'), tk'.pc = "start" => MayTake',
           tk'.pc = "restart" => tk'.batch > 0
    PROVE  Types'
BY DEF Types, TypeOK, AppType, RecType, ProcessTypes, Codes, Ends, Mishaps, TkType, ThreadTypes,
       StopType, WorkerType, PendingTypes

LEMMA Parts ==
    ASSUME Types
    PROVE  /\ app \in AppType /\ rec \in RecType /\ ProcessTypes /\ tk \in TkType
           /\ ThreadTypes /\ PendingTypes /\ tk.batch <= Len(pending)
           /\ tk.pc = "start" => MayTake
           /\ tk.pc = "restart" => tk.batch > 0
BY TypesAre DEF Types

LEMMA ProcessStep ==
    ASSUME Types,
           \/ \E n \in Takes, code \in {"ok", "bad"} : FfmpegEnds(n, code)
           \/ \E n \in Takes : Reap(n)
           \/ \E t \in {"tk", "worker"} : StopForces(t)
    PROVE  Types'
<1>0. UNCHANGED <<app, tk, stops, worker, posted, pending>> /\ ThreadTypes' /\ PendingTypes'
  BY Parts DEF FfmpegEnds, Reap, StopForces, ThreadTypes, PendingTypes
<1>1. ProcessTypes' /\ rec' \in RecType /\ (MayTake => MayTake')
  <2>1. ASSUME NEW n, NEW code \in {"ok", "bad"}, ff[n] = "alive",
               ff' = [ff EXCEPT ![n] = code], UNCHANGED <<rec, reaper, mishap>>
        PROVE  ProcessTypes' /\ rec' \in RecType /\ (MayTake => MayTake')
    BY <2>1, Parts DEF ProcessTypes, Codes, MayTake
  <2>2. ASSUME NEW n \in Takes, Reap(n)
        PROVE  ProcessTypes' /\ rec' \in RecType /\ (MayTake => MayTake')
    <3>1. PICK f \in {n, NoTake} : rec' = [rec EXCEPT !.fault = f]
      BY <2>2 DEF Reap
    <3>2. rec' \in RecType
      BY <3>1, Parts, NoTakeType DEF RecType
    <3>3. reaper' = [reaper EXCEPT ![n] = "done"]
      BY <2>2 DEF Reap
    <3>4. ProcessTypes'
      BY <2>2, <3>3, Parts DEF Reap, ProcessTypes, Ends
    <3> QED
      BY <2>2, <3>2, <3>4 DEF Reap, MayTake
  <2> QED
    BY <2>1, <2>2 DEF FfmpegEnds, StopForces
<1> QED
  BY <1>0, <1>1, Parts, Assemble

LEMMA StopStep ==
    ASSUME Types, NEW t \in {"tk", "worker"},
           StopJoins(t) \/ StopGivesUp(t) \/ StopJoined(t) \/ StopClears(t)
    PROVE  Types'
<1>0. UNCHANGED <<app, ff, reaper, tk, worker, posted, pending>>
      /\ PendingTypes' /\ (MayTake <=> MayTake')
  BY Parts DEF StopJoins, StopGivesUp, StopJoined, StopClears, PendingTypes, MayTake
<1>1. stops[t] \in StopType /\ rec \in RecType /\ stops \in [{"tk", "worker"} -> StopType]
  BY Parts DEF ThreadTypes
<1>2. rec' \in RecType /\ stops' \in [{"tk", "worker"} -> StopType]
  <2>1. CASE StopJoins(t) \/ StopGivesUp(t)
    <3>1. stops' = [stops EXCEPT ![t] = [@ EXCEPT !.pc = "join", !.join = rec.reaper]]
      BY <2>1, <1>1 DEF StopJoins, StopGivesUp
    <3> QED
      BY <2>1, <3>1, <1>1 DEF StopJoins, StopGivesUp, StopType, RecType
  <2>2. CASE StopJoined(t)
    <3>1. stops' = [stops EXCEPT ![t] = [@ EXCEPT !.pc = "clear"]]
      BY <2>2 DEF StopJoined
    <3> QED
      BY <2>2, <3>1, <1>1 DEF StopJoined, StopType
  <2>3. CASE StopClears(t)
    BY <2>3, <1>1, FreshTypes, NoTakeType DEF StopClears, RecType
  <2> QED
    BY <2>1, <2>2, <2>3
<1>3. ThreadTypes'
  BY <1>0, <1>2, Parts DEF ThreadTypes
<1>4. ProcessTypes'
  <2>1. CASE StopGivesUp(t)
    BY <2>1, <1>0, Parts DEF StopGivesUp, ProcessTypes, Mishaps
  <2>2. CASE mishap' = mishap
    BY <2>2, <1>0, Parts DEF ProcessTypes
  <2> QED
    BY <2>1, <2>2 DEF StopJoins, StopJoined, StopClears
<1> QED
  BY <1>0, <1>2, <1>3, <1>4, Parts, Assemble

LEMMA WorkerStep ==
    ASSUME Types, WorkerCalls \/ WorkerVerifies \/ WorkerEnds
    PROVE  Types'
<1>0. UNCHANGED <<app, ff, reaper, tk, pending>>
      /\ ProcessTypes' /\ PendingTypes' /\ (MayTake <=> MayTake')
  BY Parts DEF WorkerCalls, WorkerVerifies, WorkerEnds, ProcessTypes, PendingTypes, MayTake
<1>1. rec \in RecType /\ worker \in WorkerType /\ ThreadTypes
  BY Parts DEF ThreadTypes
<1>4. CASE WorkerCalls
  <2>1. worker' \in WorkerType /\ rec' = rec /\ posted' = posted
    BY <1>1, <1>4 DEF WorkerCalls, WorkerType
  <2>2. stops' \in [{"tk", "worker"} -> StopType]
    BY <1>1, <1>4, CallStopType DEF WorkerCalls
  <2>3. ThreadTypes'
    BY <1>0, <1>1, <2>1, <2>2 DEF ThreadTypes
  <2> QED
    BY <1>0, <1>1, <2>1, <2>3, Parts, Assemble
<1>2. CASE WorkerVerifies
  <2>1. worker' \in WorkerType /\ rec' = rec /\ posted' = posted /\ stops' = stops
    BY <1>1, <1>2 DEF WorkerVerifies, WorkerType, RecType
  <2>2. ThreadTypes'
    BY <1>0, <1>1, <2>1 DEF ThreadTypes
  <2> QED
    BY <1>0, <1>1, <2>1, <2>2, Parts, Assemble
<1>3. CASE WorkerEnds
  <2>1. PICK f \in {NoTake, worker.take} : rec' = [rec EXCEPT !.fault = f]
    BY <1>3 DEF WorkerEnds, Verdicts
  <2>2. f \in 0 .. NoCapture
    BY <1>1, NoTakeType, Bounds DEF WorkerType, NoCapture
  <2>3. rec' \in RecType
    BY <1>1, <2>1, <2>2 DEF RecType
  <2>4. ThreadTypes'
    BY <1>0, <1>1, <1>3, FreshTypes DEF WorkerEnds, ThreadTypes
  <2> QED
    BY <1>0, <2>3, <2>4, Parts, Assemble
<1> QED
  BY <1>2, <1>3, <1>4

LEMMA AppStep ==
    ASSUME Types,
           \/ \E b \in BOOLEAN : Boot(b)
           \/ QuitWaits \/ PollBegins \/ PollEnds
    PROVE  Types'
<1>0. UNCHANGED <<rec, ff, reaper, stops, worker, posted, pending>>
      /\ ProcessTypes' /\ ThreadTypes' /\ PendingTypes' /\ (MayTake <=> MayTake')
  BY Parts DEF Boot, QuitWaits, PollBegins, PollEnds, ProcessTypes, ThreadTypes,
               PendingTypes, MayTake
<1>1. app \in AppType /\ tk \in TkType /\ Len(pending) \in Nat /\ Len(pending) <= MaxPending
  BY Parts, LenProperties DEF PendingTypes
<1>2. app' \in AppType
  <2>1. ASSUME NEW b \in BOOLEAN, Boot(b) PROVE app' \in AppType
    BY <1>1, <2>1 DEF Boot, AppType
  <2>3. CASE QuitWaits
    BY <1>1, <2>3 DEF QuitWaits, AppType
  <2>4. CASE PollBegins
    BY <1>1, <2>4 DEF PollBegins
  <2>5. CASE PollEnds
    <3>1. (~app.closing) \in BOOLEAN
      OBVIOUS
    <3> QED
      BY <1>1, <2>5, <3>1 DEF PollEnds, AppType
  <2> QED
    BY <2>1, <2>3, <2>4, <2>5
<1>3. tk' \in TkType /\ tk'.batch <= Len(pending') /\ (tk' = tk \/ tk'.pc \in {"poll", "idle"})
  <2>1. CASE tk' = tk
    BY <1>0, <2>1, Parts
  <2>2. CASE PollBegins
    BY <1>0, <1>1, <2>2, Bounds DEF PollBegins, TkType
  <2>3. CASE PollEnds
    BY <1>0, <1>1, <2>3, FreshTypes DEF PollEnds, IdleTk
  <2> QED
    BY <2>1, <2>2, <2>3 DEF Boot, QuitWaits
<1> QED
  BY <1>0, <1>2, <1>3, Parts, Assemble

LEMMA SendStep ==
    ASSUME Types, NEW c \in Commands, Send(c)
    PROVE  Types'
<1>0. UNCHANGED <<app, rec, ff, reaper, tk, stops, worker, posted>>
      /\ ProcessTypes' /\ ThreadTypes' /\ (MayTake <=> MayTake')
  BY Parts DEF Send, ProcessTypes, ThreadTypes, MayTake
<1>1. pending \in Seq(Commands) /\ Len(pending) \in Nat /\ Len(pending) < MaxPending
      /\ pending' = Append(pending, c)
  BY Parts, LenProperties DEF Send, PendingTypes
<1>2. PendingTypes' /\ Len(pending') = Len(pending) + 1
  BY <1>1, AppendProperties, Bounds DEF PendingTypes
<1>3. tk.batch \in Nat /\ tk.batch <= Len(pending')
  BY <1>1, <1>2, Parts, Bounds DEF TkType
<1> QED
  BY <1>0, <1>2, <1>3, Parts, Assemble

LEMMA StartStep ==
    ASSUME Types, CommandStarts \/ \E works \in BOOLEAN : StartSpawns(works)
    PROVE  Types'
<1>1. CASE CommandStarts
  <2>0. Handles("start") /\ pending' = Tail(pending)
        /\ UNCHANGED <<app, ff, reaper, worker, posted, mishap>>
    BY <1>1 DEF CommandStarts
  <2>1. /\ Consumed \in TkType /\ Consumed.batch <= Len(pending') /\ Consumed.pc = "poll"
        /\ PendingTypes' /\ ProcessTypes' /\ (MayTake <=> MayTake')
    BY <2>0, ConsumedTypes, Parts DEF PendingTypes, ProcessTypes, MayTake, Handles
  <2>2. CASE Running \/ app.blocked \/ ~MayTake
    <3>1. tk' = Consumed /\ stops' = stops
          /\ rec' = [rec EXCEPT !.fault = IF app.blocked /\ ~Running THEN NoCapture ELSE @]
      BY <1>1, <2>2 DEF CommandStarts
    <3>2. rec' \in RecType /\ ThreadTypes'
      BY <2>0, <3>1, Parts, NoTakeType DEF RecType, ThreadTypes
    <3> QED
      BY <2>0, <2>1, <3>1, <3>2, Parts, Assemble
  <2>3. CASE ~(Running \/ app.blocked \/ ~MayTake)
    <3>1. tk' = [Consumed EXCEPT !.pc = "start"] /\ CallStop("tk") /\ MayTake /\ rec' = rec
      BY <1>1, <2>3 DEF CommandStarts
    <3>2. tk' \in TkType /\ tk'.batch = Consumed.batch
      BY <2>1, <3>1 DEF TkType
    <3>3. stops' \in [{"tk", "worker"} -> StopType]
      BY <3>1, CallStopType, Parts
    <3>4. ThreadTypes'
      BY <2>0, <3>3, Parts DEF ThreadTypes
    <3> QED
      BY <2>0, <2>1, <3>1, <3>2, <3>3, <3>4, Parts, Assemble
  <2> QED
    BY <2>2, <2>3
<1>2. ASSUME NEW works \in BOOLEAN, StartSpawns(works) PROVE Types'
  <2>0. UNCHANGED <<stops, worker, posted, pending>> /\ ThreadTypes' /\ PendingTypes'
        /\ NextTake \in Takes
    BY <1>2, Parts, NextTakeType DEF StartSpawns, ThreadTypes, PendingTypes
  <2>1. app' \in AppType
    <3>1. PICK ok \in BOOLEAN : app' = [app EXCEPT !.raised = @ \/ ~ok]
      BY <1>2 DEF StartSpawns, Publishes
    <3>2. (app.raised \/ ~ok) \in BOOLEAN
      OBVIOUS
    <3> QED
      BY <3>1, <3>2, Parts DEF AppType
  <2>2. tk' \in TkType /\ tk'.batch = tk.batch /\ tk'.pc \in {"idle", "poll"}
    BY <1>2, Parts DEF StartSpawns, TkType
  <2>3. ProcessTypes' /\ rec' \in RecType
    <3>1. CASE works
      <4>1. /\ ff' = [ff EXCEPT ![NextTake] = "alive"]
            /\ reaper' = [reaper EXCEPT ![NextTake] = "waiting"]
            /\ rec' = [proc |-> NextTake, reaper |-> NextTake, out |-> NextTake,
                       fault |-> NoTake]
            /\ mishap' = IF app.stopping THEN [mishap EXCEPT ![NextTake] = "rushed"] ELSE mishap
        BY <1>2, <3>1 DEF StartSpawns
      <4>2. ProcessTypes'
        BY <4>1, Parts DEF ProcessTypes, Codes, Ends, Mishaps
      <4> QED
        BY <2>0, <4>1, <4>2, NoTakeType DEF RecType
    <3>2. CASE ~works
      BY <1>2, <3>2, Parts, NoTakeType DEF StartSpawns, ProcessTypes, RecType
    <3> QED
      BY <3>1, <3>2
  <2> QED
    BY <2>0, <2>1, <2>2, <2>3, Parts, Assemble
<1> QED
  BY <1>1, <1>2

LEMMA EndStep ==
    ASSUME Types, CommandStops \/ QuitStops
    PROVE  Types'
<1>0. /\ UNCHANGED <<rec, ff, reaper, stops, posted, mishap>>
      /\ ProcessTypes' /\ (MayTake <=> MayTake')
  BY Parts DEF CommandStops, QuitStops, ProcessTypes, MayTake
<1>1. /\ tk' \in TkType /\ PendingTypes' /\ tk'.batch <= Len(pending')
      /\ tk'.pc \in {"idle", "poll"}
  <2>1. CASE CommandStops
    <3>1. Handles("stop") /\ pending' = Tail(pending) /\ tk' = Consumed
      BY <2>1 DEF CommandStops
    <3> QED
      BY <3>1, ConsumedTypes DEF PendingTypes, Handles
  <2>2. CASE QuitStops
    BY <2>2, Parts DEF QuitStops, PendingTypes, TkIdle
  <2> QED
    BY <2>1, <2>2
<1>2. app' \in AppType /\ worker' \in WorkerType
  <2>1. CASE UNCHANGED <<app, worker>>
    BY <2>1, Parts DEF ThreadTypes
  <2>2. CASE /\ \E q \in BOOLEAN : worker' = WorkerOf(q)
             /\ \/ app' = [app EXCEPT !.stopping = TRUE]
                \/ app' = [app EXCEPT !.closing = TRUE, !.stopping = TRUE]
    BY <2>2, FreshTypes, Parts DEF AppType
  <2> QED
    BY <2>1, <2>2 DEF CommandStops, QuitStops
<1>3. ThreadTypes'
  BY <1>0, <1>2, Parts DEF ThreadTypes
<1> QED
  BY <1>0, <1>1, <1>2, <1>3, Parts, Assemble

LEMMA RestartStep ==
    ASSUME Types, CommandRestarts \/ RestartRaises
    PROVE  Types'
<1>0. UNCHANGED <<ff, reaper, worker, posted>> /\ ProcessTypes' /\ (MayTake <=> MayTake')
  BY Parts DEF CommandRestarts, RestartRaises, ProcessTypes, MayTake
<1>1. CASE CommandRestarts
  <2>1. CASE app.closing
    <3>1. Handles("restart") /\ pending' = Tail(pending) /\ tk' = Consumed
          /\ UNCHANGED <<app, rec, stops>>
      BY <1>1, <2>1 DEF CommandRestarts
    <3>2. tk' \in TkType /\ PendingTypes' /\ tk'.batch <= Len(pending') /\ tk'.pc = "poll"
      BY <1>0, <3>1, ConsumedTypes DEF PendingTypes, Handles
    <3>3. ThreadTypes'
      BY <1>0, <3>1, Parts DEF ThreadTypes
    <3> QED
      BY <1>0, <3>1, <3>2, <3>3, Parts, Assemble
  <2>2. CASE ~app.closing
    <3>1. app' = [app EXCEPT !.closing = TRUE] /\ tk' = [tk EXCEPT !.pc = "restart"]
          /\ CallStop("tk") /\ pending' = pending /\ rec' = rec
      BY <1>1, <2>2 DEF CommandRestarts
    <3>2. app' \in AppType /\ tk' \in TkType /\ tk'.batch = tk.batch /\ tk'.pc = "restart"
          /\ PendingTypes' /\ tk.batch > 0
      BY <1>1, <3>1, Parts DEF AppType, TkType, PendingTypes, CommandRestarts, Handles
    <3>3. stops' \in [{"tk", "worker"} -> StopType]
      BY <3>1, CallStopType, Parts
    <3>4. ThreadTypes'
      BY <1>0, <3>3, Parts DEF ThreadTypes
    <3> QED
      BY <1>0, <3>1, <3>2, <3>3, <3>4, Parts, Assemble
  <2> QED
    BY <2>1, <2>2
<1>2. CASE RestartRaises
  <2>1. UNCHANGED <<rec, stops>> /\ app' = [app EXCEPT !.raised = TRUE]
        /\ pending' = Tail(pending) /\ tk' = [Consumed EXCEPT !.pc = "poll"]
    BY <1>2 DEF RestartRaises
  <2>2. app' \in AppType /\ ThreadTypes'
    BY <1>0, <2>1, Parts DEF AppType, ThreadTypes
  <2>3. Consumed \in TkType /\ Consumed.batch <= Len(pending') /\ PendingTypes'
    BY <1>2, <2>1, Parts, ConsumedTypes DEF RestartRaises, PendingTypes
  <2>4. tk' \in TkType /\ tk'.batch = Consumed.batch /\ tk'.pc \in {"idle", "poll"}
    BY <2>1, <2>3, Parts DEF TkType
  <2> QED
    BY <1>0, <2>1, <2>2, <2>3, <2>4, Parts, Assemble
<1> QED
  BY <1>1, <1>2

LEMMA VanishStep ==
    ASSUME Types,
           RestartExecs \/ Crash \/ \E ok \in BOOLEAN : QuitEnds(ok) \/ StopCompleted(ok)
    PROVE  Types'
<1>0. app \in AppType /\ mishap \in [Takes -> Mishaps]
  BY Parts DEF ProcessTypes
<1>1. Gone \in AppType
  BY <1>0, FreshTypes DEF Gone, AppType
<1>2. CASE RestartExecs \/ Crash
  <2>1. PICK next \in NextLives : Vanish(next) /\ pending' = pending
    BY <1>2 DEF RestartExecs, Crash
  <2>3. mishap' \in [Takes -> Mishaps]
    BY <1>0, <1>2 DEF RestartExecs, Crash, Mishaps
  <2>2. next \in AppType
    <3>1. CASE next = Gone
      BY <1>1, <3>1
    <3>2. CASE app.boots < MaxBoots /\ next = [Booting EXCEPT !.boots = app.boots + 1]
      <4>1. app.boots + 1 \in 1 .. MaxBoots
        BY <1>0, <3>2, Bounds DEF AppType
      <4> QED
        BY <3>2, <4>1, FreshTypes DEF AppType
    <3> QED
      BY <2>1, <3>1, <3>2 DEF NextLives
  <2> QED
    BY <2>1, <2>2, <2>3, VanishTypes
<1>3. ASSUME NEW ok \in BOOLEAN, QuitEnds(ok) \/ StopCompleted(ok) PROVE Types'
  <2>1. CASE Vanish(Gone)
    BY <1>0, <1>1, <1>3, <2>1, VanishTypes DEF QuitEnds, StopCompleted
  <2>2. CASE ~Vanish(Gone)
    <3>1. UNCHANGED <<rec, ff, reaper, tk, stops, worker, pending, mishap>>
          /\ posted' \in {posted, "none"}
      BY <1>3, <2>2 DEF QuitEnds, StopCompleted
    <3>2. app' \in AppType
      <4>1. CASE app' = [app EXCEPT !.closing = TRUE, !.raised = TRUE]
        BY <1>0, <4>1 DEF AppType
      <4>2. CASE app' = [app EXCEPT !.stopping = FALSE, !.raised = @ \/ ~ok]
        <5>1. (app.raised \/ ~ok) \in BOOLEAN
          OBVIOUS
        <5> QED
          BY <1>0, <4>2, <5>1 DEF AppType
      <4> QED
        BY <1>3, <2>2, <4>1, <4>2 DEF QuitEnds, StopCompleted
    <3>3. ProcessTypes' /\ ThreadTypes' /\ PendingTypes' /\ (MayTake <=> MayTake')
      BY <3>1, Parts DEF ProcessTypes, ThreadTypes, PendingTypes, MayTake
    <3> QED
      BY <3>1, <3>2, <3>3, Parts, Assemble
  <2> QED
    BY <2>1, <2>2
<1> QED
  BY <1>2, <1>3

LEMMA TypesNext ==
    ASSUME Types, [Next]_vars
    PROVE  Types'
<1>1. CASE UNCHANGED vars
  <2>1. /\ UNCHANGED <<app, rec, tk, pending>> /\ ProcessTypes' /\ ThreadTypes' /\ PendingTypes'
        /\ (MayTake <=> MayTake')
    BY <1>1, Parts DEF vars, ProcessTypes, ThreadTypes, PendingTypes, MayTake
  <2> QED
    BY <2>1, Parts, Assemble
<1>2. CASE Handler
  BY <1>2, AppStep, StartStep, EndStep, RestartStep, VanishStep DEF Handler
<1>3. ASSUME NEW t \in {"tk", "worker"}, Stopping(t) PROVE Types'
  BY <1>3, ProcessStep, StopStep DEF Stopping
<1>4. ASSUME NEW ok \in BOOLEAN, QuitEnds(ok) \/ StopCompleted(ok) PROVE Types'
  BY <1>4, AppStep, VanishStep
<1> QED
  BY <1>1, <1>2, <1>3, <1>4, ProcessStep, WorkerStep, AppStep, SendStep, EndStep, VanishStep
     DEF Next

(* Every variable keeps its type, whatever is sent when. *)
THEOREM TypeCorrect == Spec => []TypeOK
<1>1. Types => TypeOK
  BY DEF Types
<1> QED
  BY InitTypes, TypesNext, <1>1, PTL DEF Spec

(***************************************************************************)
(* Captures and faults                                                     *)
(***************************************************************************)

Both == {"tk", "worker"}

LEMMA OwnInit == Init => OwnInv
BY NoTakeType
   DEF Init, OwnInv, TakeInv, StopInv, ThreadInv, FaultIsOwn, Running,
       NoRecorder, IdleTk, NoWorker, NotStopping, Booting

LEMMA StopTypes ==
    ASSUME Types, NEW t \in Both
    PROVE  /\ stops \in [Both -> StopType] /\ stops[t] \in StopType /\ rec \in RecType
           /\ stops[t].pc \in {"off", "wait", "join", "clear"}
           /\ rec.proc = NoTake \/ rec.proc \in Takes
BY Parts, Bounds DEF ThreadTypes, StopType, Both, RecType, NoTake, Takes

(* Nothing the recorder and the threads in stop can see. *)
LEMMA OwnQuiet ==
    ASSUME OwnInv, UNCHANGED <<rec, ff, reaper, stops, mishap>>, ThreadInv'
    PROVE  OwnInv'
BY DEF OwnInv, TakeInv, StopInv, FaultIsOwn, Running, Clean

(* Nothing can be lost of a recorder that is empty, or refers to a mishap. *)
LEMMA NoRecording ==
    ASSUME TakeInv, rec.proc = NoTake \/ ~Clean(rec.proc)
    PROVE  \A n \in Takes : Clean(n) => ff[n] # "alive" /\ reaper[n] # "waiting"
BY NoTakeType DEF TakeInv, Clean

(* An ffmpeg ends. *)
LEMMA DeathOwn ==
    ASSUME Types, OwnInv, NEW n \in Takes, NEW code \in {"ok", "bad"},
           ff[n] = "alive", ff' = [ff EXCEPT ![n] = code],
           UNCHANGED <<app, rec, reaper, tk, stops, worker, posted, mishap>>
    PROVE  OwnInv'
<1>1. /\ ff \in [Takes -> Codes]
      /\ \A m \in Takes : /\ ff'[m] = "alive" => ff[m] = "alive"
                          /\ ff[m] # "none" => ff'[m] # "none"
  BY Parts DEF ProcessTypes
<1>2. TakeInv'
  <2>1. rec.proc = NoTake \/ rec.proc \in Takes
    BY Parts, Bounds DEF RecType, NoTake, Takes
  <2> QED
    BY <1>1, <2>1 DEF OwnInv, TakeInv, Clean
<1>3. \A t \in Both : StopInv(t)'
  <2> SUFFICES ASSUME NEW t \in Both PROVE StopInv(t)'
    OBVIOUS
  <2> QED
    BY <1>1 DEF OwnInv, StopInv, Both, Clean
<1>4. ThreadInv'
  BY DEF OwnInv, ThreadInv, Clean
<1>5. FaultIsOwn'
  <2>1. Running' => Running
    <3>1. rec.proc # NoTake => rec.proc \in Takes
      BY Parts, Bounds DEF RecType, NoTake, Takes
    <3> QED
      BY <1>1, <3>1 DEF Running
  <2> QED
    BY <2>1 DEF OwnInv, FaultIsOwn
<1> QED
  BY <1>2, <1>3, <1>4, <1>5 DEF OwnInv, Both

LEMMA ProcessOwn ==
    ASSUME Types, OwnInv,
           \/ \E n \in Takes, code \in {"ok", "bad"} : FfmpegEnds(n, code)
           \/ \E n \in Takes : Reap(n)
           \/ \E t \in Both : StopForces(t)
    PROVE  OwnInv'
<1>1. ASSUME NEW n \in Takes, NEW code \in {"ok", "bad"}, FfmpegEnds(n, code) PROVE OwnInv'
  BY <1>1, DeathOwn DEF FfmpegEnds
<1>2. ASSUME NEW t \in Both, StopForces(t) PROVE OwnInv'
  <2>1. stops[t].take \in Takes
    BY <1>2 DEF StopForces, OwnInv, StopInv, Both
  <2> QED
    BY <1>2, <2>1, DeathOwn DEF StopForces
<1>3. ASSUME NEW n \in Takes, Reap(n) PROVE OwnInv'
  <2>1. UNCHANGED <<app, ff, tk, stops, worker, posted, pending, mishap>>
        /\ (Clean(n) => n = rec.proc)
    BY <1>3 DEF Reap, OwnInv, TakeInv
  <2>2. \A m \in Takes : reaper'[m] = "waiting" => reaper[m] = "waiting"
    BY <1>3, Parts DEF Reap, ProcessTypes
  <2>3. rec'.proc = rec.proc /\ rec'.reaper = rec.reaper /\ rec'.fault \in {NoTake, n}
    BY <1>3, Parts DEF Reap, RecType
  <2>4. TakeInv' /\ FaultIsOwn'
    BY <2>1, <2>2, <2>3 DEF OwnInv, TakeInv, FaultIsOwn, Clean
  <2>5. \A t \in Both : StopInv(t)'
    <3> SUFFICES ASSUME NEW t \in Both PROVE StopInv(t)'
      OBVIOUS
    <3> QED
      BY <2>1, <2>2, <2>3 DEF OwnInv, StopInv, Both, Clean
  <2>6. ThreadInv'
    BY <2>1, <2>3 DEF OwnInv, ThreadInv, Clean
  <2> QED
    BY <2>4, <2>5, <2>6 DEF OwnInv, Both
<1> QED
  BY <1>1, <1>2, <1>3

(* Thread t in stop: it goes on to the join ... *)
LEMMA JoinOwn ==
    ASSUME Types, OwnInv, NEW t \in Both, StopJoins(t) \/ StopGivesUp(t)
    PROVE  OwnInv'
<1>0. UNCHANGED <<app, rec, ff, reaper, tk, worker, posted, pending>> /\ stops[t].pc = "wait"
  BY DEF StopJoins, StopGivesUp
<1>1. /\ \A u \in Both \ {t} : stops'[u] = stops[u]
      /\ stops'[t].pc = "join" /\ stops'[t].take = stops[t].take /\ stops'[t].join = rec.reaper
  <2>1. stops' = [stops EXCEPT ![t] = [@ EXCEPT !.pc = "join", !.join = rec.reaper]]
    BY StopTypes DEF StopJoins, StopGivesUp, Both
  <2> QED
    BY <2>1, StopTypes DEF StopType
<1>2. stops[t].take \in Takes /\ StopInv(t) /\ TakeInv
  BY <1>0 DEF OwnInv, StopInv, Both
<1>3. /\ \A n \in Takes : Clean(n)' => Clean(n)
      /\ mishap'[stops[t].take] = "none" => ff[stops[t].take] # "alive"
  <2>1. CASE StopJoins(t)
    BY <2>1 DEF StopJoins, Clean
  <2>2. CASE StopGivesUp(t)
    <3>1. mishap \in [Takes -> Mishaps] /\ mishap' = [mishap EXCEPT ![stops[t].take] = "unkilled"]
      BY <2>2, Parts DEF StopGivesUp, ProcessTypes
    <3> QED
      BY <1>2, <3>1 DEF Clean, Mishaps
  <2> QED
    BY <2>1, <2>2
<1>4. \A u \in Both : StopInv(u)'
  <2> SUFFICES ASSUME NEW u \in Both PROVE StopInv(u)'
    OBVIOUS
  <2>1. CASE u = t
    <3>1. mishap'[stops[t].take] = "none" => \/ rec.reaper = stops[t].take
                                             \/ reaper[stops[t].take] # "waiting"
      BY <1>2, <1>3 DEF TakeInv, Clean
    <3> QED
      BY <1>0, <1>1, <1>2, <1>3, <2>1, <3>1, StopTypes DEF StopInv, Clean
  <2>2. CASE u # t
    BY <1>0, <1>1, <1>3, <2>2, StopTypes DEF OwnInv, StopInv, Both
  <2> QED
    BY <2>1, <2>2
<1>5. TakeInv' /\ FaultIsOwn'
  BY <1>0, <1>3, StopTypes DEF OwnInv, TakeInv, FaultIsOwn, Running, Clean
<1>6. ThreadInv'
  <2>1. \A u \in Both : (stops'[u].pc = "off") <=> (stops[u].pc = "off")
    BY <1>0, <1>1
  <2> QED
    BY <1>0, <1>3, <2>1, StopTypes DEF OwnInv, ThreadInv, Both
<1> QED
  BY <1>4, <1>5, <1>6 DEF OwnInv, Both

(* ... the join returns, at the end of the reaper unless its ffmpeg survived ... *)
LEMMA JoinedOwn ==
    ASSUME Types, OwnInv, NEW t \in Both, StopJoined(t)
    PROVE  OwnInv'
<1>0. UNCHANGED <<app, rec, ff, reaper, tk, worker, posted, pending, mishap>>
      /\ stops[t].pc = "join"
  BY DEF StopJoined
<1>1. /\ \A u \in Both \ {t} : stops'[u] = stops[u]
      /\ stops'[t].pc = "clear" /\ stops'[t].take = stops[t].take
      /\ stops'[t].join = stops[t].join
  <2>1. stops' = [stops EXCEPT ![t] = [@ EXCEPT !.pc = "clear"]]
    BY DEF StopJoined
  <2> QED
    BY <2>1, StopTypes DEF StopType
<1>2. stops[t].take \in Takes /\ StopInv(t)
  BY <1>0 DEF OwnInv, StopInv, Both
<1>3. Clean(stops[t].take) => reaper[stops[t].take] # "waiting"
  <2>1. CASE stops[t].join = stops[t].take
    BY <1>0, <1>2, <2>1, NoTakeType DEF StopJoined, StopInv
  <2>2. CASE stops[t].join # stops[t].take
    BY <1>0, <1>2, <2>2 DEF StopInv
  <2> QED
    BY <2>1, <2>2
<1>4. \A u \in Both : StopInv(u)'
  <2> SUFFICES ASSUME NEW u \in Both PROVE StopInv(u)'
    OBVIOUS
  <2>1. CASE u = t
    BY <1>0, <1>1, <1>2, <1>3, <2>1 DEF StopInv, Clean
  <2>2. CASE u # t
    BY <1>0, <1>1, <2>2 DEF OwnInv, StopInv, Both, Clean
  <2> QED
    BY <2>1, <2>2
<1>5. TakeInv' /\ FaultIsOwn'
  BY <1>0 DEF OwnInv, TakeInv, FaultIsOwn, Running, Clean
<1>6. ThreadInv'
  <2>1. \A u \in Both : (stops'[u].pc = "off") <=> (stops[u].pc = "off")
    BY <1>0, <1>1
  <2> QED
    BY <1>0, <2>1 DEF OwnInv, ThreadInv, Both, Clean
<1> QED
  BY <1>4, <1>5, <1>6 DEF OwnInv, Both

(* ... and clears the recorder: of its own take, or of a rushed one. *)
LEMMA ClearOwn ==
    ASSUME Types, OwnInv, NEW t \in Both, StopClears(t)
    PROVE  OwnInv'
<1>0. /\ UNCHANGED <<app, ff, reaper, tk, worker, posted, pending, mishap>>
      /\ rec'.proc = NoTake /\ rec'.reaper = NoTake
      /\ stops' = [stops EXCEPT ![t] = NotStopping] /\ stops[t].pc = "clear"
  BY StopTypes DEF StopClears, RecType
<1>1. \A n \in Takes : Clean(n) => ff[n] # "alive" /\ reaper[n] # "waiting"
  <2>1. CASE rec.proc = NoTake \/ ~Clean(rec.proc)
    BY <2>1, NoRecording DEF OwnInv
  <2>2. CASE rec.proc = stops[t].take
    BY <1>0, <2>2 DEF OwnInv, StopInv, TakeInv, Both
  <2> QED
    BY <1>0, <2>1, <2>2 DEF OwnInv, StopInv, Both
<1>2. TakeInv' /\ FaultIsOwn'
  BY <1>0, <1>1 DEF TakeInv, FaultIsOwn, Running, Clean
<1>3. \A u \in Both : (u = t /\ stops'[u].pc = "off") \/ (u # t /\ stops'[u] = stops[u])
  BY <1>0, StopTypes DEF NotStopping
<1>4. \A u \in Both : StopInv(u)'
  <2> SUFFICES ASSUME NEW u \in Both PROVE StopInv(u)'
    OBVIOUS
  <2>1. CASE stops'[u].pc = "off"
    BY <2>1 DEF StopInv
  <2>2. CASE stops'[u] = stops[u]
    BY <1>0, <2>2 DEF OwnInv, StopInv, Both, Clean
  <2> QED
    BY <1>3, <2>1, <2>2
<1>5. ThreadInv'
  BY <1>0, <1>3 DEF OwnInv, ThreadInv, Both
<1> QED
  BY <1>2, <1>4, <1>5 DEF OwnInv, Both

(* A thread that is not in stop calls it: it waits for the take of the
   recorder, or has none to wait for. *)
LEMMA CallOwn ==
    ASSUME Types, OwnInv, NEW t \in Both, stops[t].pc = "off", CallStop(t),
           UNCHANGED <<rec, ff, reaper, mishap>>
    PROVE  /\ TakeInv' /\ FaultIsOwn' /\ \A u \in Both : StopInv(u)'
           /\ \A u \in Both \ {t} : stops'[u] = stops[u]
           /\ stops'[t].pc = "off" => rec.proc = NoTake
<1>0. TakeInv' /\ FaultIsOwn'
  BY DEF OwnInv, TakeInv, FaultIsOwn, Running, Clean
<1>1. CASE rec.proc = NoTake
  <2>1. UNCHANGED stops
    BY <1>1 DEF CallStop
  <2> QED
    BY <1>0, <1>1, <2>1 DEF OwnInv, StopInv, Both, Clean
<1>2. CASE rec.proc # NoTake
  <2>1. stops' = [stops EXCEPT ![t] = [pc |-> "wait", take |-> rec.proc, join |-> NoTake]]
    BY <1>2 DEF CallStop
  <2>2. rec.proc \in Takes
    BY <1>2, StopTypes
  <2>3. /\ stops'[t] = [pc |-> "wait", take |-> rec.proc, join |-> NoTake]
        /\ \A u \in Both \ {t} : stops'[u] = stops[u]
    BY <2>1, StopTypes
  <2>4. \A u \in Both : StopInv(u)'
    <3> SUFFICES ASSUME NEW u \in Both PROVE StopInv(u)'
      OBVIOUS
    <3>1. CASE u = t
      BY <1>2, <2>2, <2>3, <3>1 DEF StopInv, OwnInv, TakeInv
    <3>2. CASE u # t
      BY <2>3, <3>2 DEF OwnInv, StopInv, Both, Clean
    <3> QED
      BY <3>1, <3>2
  <2> QED
    BY <1>0, <2>3, <2>4
<1> QED
  BY <1>1, <1>2

(* The worker; a verdict of its verification never meets a take it may harm,
   but for one that was rushed or has survived. *)
LEMMA WorkerOwn ==
    ASSUME Types, OwnInv, WorkerCalls \/ WorkerVerifies \/ WorkerEnds
    PROVE  OwnInv'
<1>1. CASE WorkerVerifies
  <2>1. /\ UNCHANGED <<app, rec, ff, reaper, tk, stops, posted, pending, mishap>>
        /\ worker'.pc = "verify" /\ worker.pc = "stop" /\ stops["worker"].pc = "off"
    BY <1>1, Parts DEF WorkerVerifies, ThreadTypes, WorkerType
  <2>2. ThreadInv'
    BY <2>1 DEF OwnInv, ThreadInv, Clean
  <2> QED
    BY <2>1, <2>2, OwnQuiet
<1>2. CASE WorkerEnds
  <2>1. /\ UNCHANGED <<app, ff, reaper, tk, stops, pending, mishap>>
        /\ worker.pc = "verify" /\ worker'.pc = "off"
        /\ rec'.proc = rec.proc /\ rec'.reaper = rec.reaper
    BY <1>2, Parts DEF WorkerEnds, NoWorker, RecType
  <2>2. (rec.proc = NoTake \/ ~Clean(rec.proc)) /\ app.stopping /\ stops["worker"].pc = "off"
    BY <2>1 DEF OwnInv, ThreadInv
  <2>3. TakeInv' /\ FaultIsOwn'
    BY <2>1, <2>2 DEF OwnInv, TakeInv, FaultIsOwn, Running, Clean
  <2>4. \A u \in Both : StopInv(u)'
    <3> SUFFICES ASSUME NEW u \in Both PROVE StopInv(u)'
      OBVIOUS
    <3> QED
      BY <2>1 DEF OwnInv, StopInv, Both, Clean
  <2>5. ThreadInv'
    BY <2>1, <2>2 DEF OwnInv, ThreadInv, Clean
  <2> QED
    BY <2>3, <2>4, <2>5 DEF OwnInv, Both
<1>3. CASE WorkerCalls
  <2>1. /\ UNCHANGED <<app, rec, ff, reaper, tk, posted, pending, mishap>> /\ CallStop("worker")
        /\ worker.pc = "call" /\ worker'.pc = "stop" /\ stops["worker"].pc = "off"
    BY <1>3, Parts DEF WorkerCalls, ThreadTypes, WorkerType, OwnInv, ThreadInv
  <2>2. /\ TakeInv' /\ FaultIsOwn' /\ \A u \in Both : StopInv(u)'
        /\ stops'["tk"] = stops["tk"]
        /\ stops'["worker"].pc = "off" => rec.proc = NoTake
    BY <2>1, CallOwn DEF Both
  <2>3. ThreadInv'
    BY <2>1, <2>2 DEF OwnInv, ThreadInv
  <2> QED
    BY <2>2, <2>3 DEF OwnInv, Both
<1> QED
  BY <1>1, <1>2, <1>3

LEMMA AppOwn ==
    ASSUME Types, OwnInv,
           \/ \E b \in BOOLEAN : Boot(b)
           \/ \E c \in Commands : Send(c)
           \/ QuitWaits \/ PollBegins \/ PollEnds
    PROVE  OwnInv'
<1>0. UNCHANGED <<rec, ff, reaper, stops, worker, posted, mishap>>
  BY DEF Boot, Send, QuitWaits, PollBegins, PollEnds
<1>1. app'.stopping = app.stopping
  BY Parts DEF Boot, Send, QuitWaits, PollBegins, PollEnds, AppType
<1>2. tk' = tk \/ (tk.pc \in {"idle", "poll"} /\ tk'.pc \in {"idle", "poll"})
  <2>1. CASE PollBegins
    BY <2>1 DEF PollBegins, TkIdle
  <2>2. CASE PollEnds
    BY <2>2 DEF PollEnds, IdleTk
  <2>3. CASE tk' = tk
    BY <2>3
  <2> QED
    BY <2>1, <2>2, <2>3 DEF Boot, Send, QuitWaits
<1>3. ThreadInv'
  BY <1>0, <1>1, <1>2 DEF OwnInv, ThreadInv, Clean
<1> QED
  BY <1>0, <1>3, OwnQuiet

LEMMA StartOwn ==
    ASSUME Types, OwnInv, CommandStarts
    PROVE  OwnInv'
<1>0. /\ UNCHANGED <<app, ff, reaper, worker, posted, mishap>> /\ tk.pc = "poll" /\ tk.batch > 0
      /\ stops["tk"].pc = "off"
  BY StopTypes DEF CommandStarts, Handles, OwnInv, ThreadInv, Both
<1>1. Consumed \in TkType /\ Consumed.pc = "poll"
  BY <1>0, ConsumedTypes
<1>2. CASE Running \/ app.blocked \/ ~MayTake
  <2>1. /\ tk' = Consumed /\ stops' = stops
        /\ rec' = [rec EXCEPT !.fault = IF app.blocked /\ ~Running THEN NoCapture ELSE @]
    BY <1>2 DEF CommandStarts
  <2>2. rec'.proc = rec.proc /\ rec'.reaper = rec.reaper /\ (Running => rec'.fault = rec.fault)
    BY <2>1, Parts DEF RecType
  <2>3. TakeInv' /\ FaultIsOwn'
    BY <1>0, <2>2 DEF OwnInv, TakeInv, FaultIsOwn, Running, Clean
  <2>4. \A u \in Both : StopInv(u)'
    <3> SUFFICES ASSUME NEW u \in Both PROVE StopInv(u)'
      OBVIOUS
    <3> QED
      BY <1>0, <2>1, <2>2 DEF OwnInv, StopInv, Both, Clean
  <2>5. ThreadInv'
    BY <1>0, <1>1, <2>1, <2>2 DEF OwnInv, ThreadInv, Clean
  <2> QED
    BY <2>3, <2>4, <2>5 DEF OwnInv, Both
<1>3. CASE ~(Running \/ app.blocked \/ ~MayTake)
  <2>1. tk' = [Consumed EXCEPT !.pc = "start"] /\ CallStop("tk") /\ rec' = rec
    BY <1>3 DEF CommandStarts
  <2>2. tk'.pc = "start"
    BY <1>1, <2>1 DEF TkType
  <2>3. /\ TakeInv' /\ FaultIsOwn' /\ \A u \in Both : StopInv(u)'
        /\ stops'["worker"] = stops["worker"]
        /\ stops'["tk"].pc = "off" => rec.proc = NoTake
    BY <1>0, <2>1, CallOwn DEF Both
  <2>4. ThreadInv'
    BY <1>0, <2>1, <2>2, <2>3 DEF OwnInv, ThreadInv, Clean
  <2> QED
    BY <2>3, <2>4 DEF OwnInv, Both
<1> QED
  BY <1>2, <1>3

(* The recorder is empty when ffmpeg is spawned; whoever may clear it again
   makes the start a rushed one. *)
LEMMA SpawnOwn ==
    ASSUME Types, OwnInv, NEW works \in BOOLEAN, StartSpawns(works)
    PROVE  OwnInv'
<1>0. UNCHANGED <<stops, worker, posted, pending>> /\ tk.pc = "start"
      /\ stops["tk"].pc = "off" /\ tk'.pc = "poll"
  BY Parts DEF StartSpawns, TkType
<1>1. rec.proc = NoTake /\ app'.stopping = app.stopping
  <2>1. PICK ok \in BOOLEAN : app' = [app EXCEPT !.raised = @ \/ ~ok]
    BY DEF StartSpawns, Publishes
  <2> QED
    BY <1>0, <2>1, Parts DEF OwnInv, ThreadInv, AppType
<1>2. \A n \in Takes : Clean(n) => ff[n] # "alive" /\ reaper[n] # "waiting"
  BY <1>1, NoRecording DEF OwnInv
<1>3. CASE works
  <2>1. /\ ff' = [ff EXCEPT ![NextTake] = "alive"]
        /\ reaper' = [reaper EXCEPT ![NextTake] = "waiting"]
        /\ rec'.proc = NextTake /\ rec'.reaper = NextTake /\ rec'.fault = NoTake
        /\ mishap' = IF app.stopping THEN [mishap EXCEPT ![NextTake] = "rushed"] ELSE mishap
    BY <1>3 DEF StartSpawns
  <2>2. /\ NextTake \in Takes /\ ff[NextTake] = "none"
    BY <1>0, Parts, NextTakeType
  <2>3. /\ \A m \in Takes \ {NextTake} :
              /\ ff'[m] = ff[m] /\ reaper'[m] = reaper[m] /\ mishap'[m] = mishap[m]
        /\ app.stopping => mishap'[NextTake] = "rushed"
    BY <2>1, <2>2, Parts DEF ProcessTypes
  <2>4. TakeInv' /\ FaultIsOwn'
    BY <1>2, <2>1, <2>2, <2>3, Parts DEF TakeInv, FaultIsOwn, ProcessTypes, Clean
  <2>5. \A u \in Both : StopInv(u)'
    <3> SUFFICES ASSUME NEW u \in Both, stops[u].pc # "off" PROVE StopInv(u)'
      BY <1>0 DEF StopInv
    <3>1. u = "worker" /\ app.stopping /\ StopInv(u)
      BY <1>0 DEF OwnInv, ThreadInv, Both
    <3>2. stops[u].take \in Takes \ {NextTake}
      BY <2>2, <3>1 DEF StopInv
    <3> QED
      BY <1>0, <2>1, <2>3, <3>1, <3>2 DEF StopInv, Clean
  <2>6. ThreadInv'
    BY <1>0, <1>1, <2>1, <2>3 DEF OwnInv, ThreadInv, Clean
  <2> QED
    BY <2>4, <2>5, <2>6 DEF OwnInv, Both
<1>4. CASE ~works
  <2>1. rec' = [rec EXCEPT !.fault = NoCapture] /\ UNCHANGED <<ff, reaper, mishap>>
    BY <1>4 DEF StartSpawns
  <2>2. rec'.proc = NoTake /\ rec'.reaper = rec.reaper
    BY <1>1, <2>1, Parts DEF RecType
  <2>3. TakeInv' /\ FaultIsOwn'
    BY <1>1, <2>1, <2>2 DEF OwnInv, TakeInv, FaultIsOwn, Running, Clean
  <2>4. \A u \in Both : StopInv(u)'
    <3> SUFFICES ASSUME NEW u \in Both PROVE StopInv(u)'
      OBVIOUS
    <3> QED
      BY <1>0, <2>1, <2>2 DEF OwnInv, StopInv, Both, Clean
  <2>5. ThreadInv'
    BY <1>0, <1>1, <2>2 DEF OwnInv, ThreadInv
  <2> QED
    BY <2>3, <2>4, <2>5 DEF OwnInv, Both
<1> QED
  BY <1>3, <1>4

(* A stop sequence is announced before its thread runs. *)
LEMMA EndOwn ==
    ASSUME Types, OwnInv, CommandStops \/ QuitStops
    PROVE  OwnInv'
<1>0. UNCHANGED <<rec, ff, reaper, stops, posted, mishap>>
  BY DEF CommandStops, QuitStops
<1>1. tk.pc \in {"idle", "poll"} /\ tk'.pc = tk.pc
  <2>1. CASE CommandStops
    BY <2>1, ConsumedTypes DEF CommandStops, Handles
  <2>2. CASE QuitStops
    BY <2>2 DEF QuitStops, TkIdle
  <2> QED
    BY <2>1, <2>2
<1>2. CASE UNCHANGED <<app, worker>>
  <2>1. ThreadInv'
    BY <1>0, <1>1, <1>2 DEF OwnInv, ThreadInv, Clean
  <2> QED
    BY <1>0, <2>1, OwnQuiet
<1>3. CASE /\ ~app.stopping
           /\ \E q \in BOOLEAN : worker' = WorkerOf(q)
           /\ \/ app' = [app EXCEPT !.stopping = TRUE]
              \/ app' = [app EXCEPT !.closing = TRUE, !.stopping = TRUE]
  <2>1. stops["worker"].pc = "off" /\ posted = "none" /\ stops["tk"].pc = "off"
    BY <1>1, <1>3 DEF OwnInv, ThreadInv
  <2>2. worker'.pc = "call" /\ app'.stopping
    <3>1. app \in AppType
      BY Parts
    <3>2. app'.stopping
      BY <1>3, <3>1 DEF AppType
    <3>3. worker'.pc = "call"
      BY <1>3 DEF WorkerOf
    <3> QED
      BY <3>2, <3>3
  <2>4. ThreadInv'
    BY <1>0, <1>1, <2>1, <2>2 DEF ThreadInv
  <2> QED
    BY <1>0, <2>4, OwnQuiet
<1> QED
  BY <1>2, <1>3 DEF CommandStops, QuitStops

LEMMA RestartOwn ==
    ASSUME Types, OwnInv, CommandRestarts \/ RestartRaises
    PROVE  OwnInv'
<1>0. UNCHANGED <<rec, ff, reaper, worker, posted, mishap>> /\ app'.stopping = app.stopping
  BY Parts DEF CommandRestarts, RestartRaises, AppType
<1>1. CASE \/ CommandRestarts /\ app.closing
           \/ RestartRaises
  <2>1. UNCHANGED stops /\ tk.batch > 0 /\ stops["tk"].pc = "off"
    BY <1>1, Parts DEF CommandRestarts, RestartRaises, Handles, OwnInv, ThreadInv
  <2>2. tk'.pc = "poll"
    <3>1. Consumed \in TkType /\ Consumed.pc = tk.pc
      BY <2>1, ConsumedTypes
    <3> QED
      BY <1>1, <3>1 DEF CommandRestarts, RestartRaises, Handles, TkType
  <2>3. ThreadInv'
    BY <1>0, <2>1, <2>2 DEF OwnInv, ThreadInv, Clean
  <2> QED
    BY <1>0, <2>1, <2>3, OwnQuiet
<1>2. CASE CommandRestarts /\ ~app.closing
  <2>1. /\ tk.pc = "poll" /\ tk' = [tk EXCEPT !.pc = "restart"] /\ CallStop("tk")
        /\ stops["tk"].pc = "off"
    BY <1>2 DEF CommandRestarts, Handles, OwnInv, ThreadInv
  <2>2. tk'.pc = "restart"
    BY <2>1, Parts DEF TkType
  <2>3. /\ TakeInv' /\ FaultIsOwn' /\ \A u \in Both : StopInv(u)'
        /\ stops'["worker"] = stops["worker"]
        /\ stops'["tk"].pc = "off" => rec.proc = NoTake
    BY <1>0, <2>1, CallOwn DEF Both
  <2>4. ThreadInv'
    BY <1>0, <2>1, <2>2, <2>3 DEF OwnInv, ThreadInv, Clean
  <2> QED
    BY <2>3, <2>4 DEF OwnInv, Both
<1> QED
  BY <1>1, <1>2 DEF CommandRestarts

(* The process ends: whatever it leaves behind has met a mishap. *)
LEMMA VanishOwn ==
    ASSUME Types, NEW next, Vanish(next), ~next.stopping,
           \A n \in Takes : ff[n] = "alive" => ~Clean(n)'
    PROVE  OwnInv'
<1>1. /\ rec' = NoRecorder /\ tk'.pc = "idle" /\ worker'.pc = "off" /\ posted' = "none"
      /\ ff' = ff /\ ~app'.stopping
      /\ \A u \in Both : stops'[u].pc = "off"
      /\ \A n \in Takes : reaper'[n] # "waiting"
  BY DEF Vanish, IdleTk, NoWorker, NotStopping, Both
<1>2. rec'.proc = NoTake /\ rec'.reaper = NoTake
  BY <1>1 DEF NoRecorder
<1>3. TakeInv' /\ FaultIsOwn' /\ \A u \in Both : StopInv(u)'
  BY <1>1, <1>2 DEF TakeInv, FaultIsOwn, Running, StopInv
<1>4. ThreadInv'
  BY <1>1, <1>2 DEF ThreadInv, Both
<1> QED
  BY <1>3, <1>4 DEF OwnInv, Both

LEMMA GoneOwn ==
    ASSUME Types, OwnInv,
           RestartExecs \/ Crash \/ \E ok \in BOOLEAN : QuitEnds(ok) \/ StopCompleted(ok)
    PROVE  OwnInv'
<1>0. ~Gone.stopping /\ \A next \in NextLives : ~next.stopping
  BY DEF Gone, Booting, NextLives
<1>1. CASE RestartExecs
  <2>1. PICK next \in NextLives : Vanish(next) /\ mishap' = mishap
    BY <1>1 DEF RestartExecs
  <2>2. rec.proc = NoTake
    BY <1>1 DEF RestartExecs, OwnInv, ThreadInv
  <2>3. \A n \in Takes : ff[n] = "alive" => ~Clean(n)'
    BY <2>1, <2>2, NoRecording DEF OwnInv, Clean
  <2> QED
    BY <1>0, <2>1, <2>3, VanishOwn
<1>2. CASE Crash
  <2>1. PICK next \in NextLives : Vanish(next)
    BY <1>2 DEF Crash
  <2>2. \A n \in Takes : ff[n] = "alive" => ~Clean(n)'
    BY <1>2 DEF Crash, Clean
  <2> QED
    BY <1>0, <2>1, <2>2, VanishOwn
<1>3. ASSUME NEW ok \in BOOLEAN, QuitEnds(ok) PROVE OwnInv'
  <2>1. CASE Vanish(Gone)
    <3>1. \A n \in Takes : ff[n] = "alive" => ~Clean(n)'
      BY <1>3, NoTakeType DEF QuitEnds, Running, OwnInv, TakeInv, Clean
    <3> QED
      BY <1>0, <2>1, <3>1, VanishOwn
  <2>2. CASE /\ app' = [app EXCEPT !.closing = TRUE, !.raised = TRUE]
             /\ UNCHANGED <<rec, ff, reaper, tk, stops, worker, posted>>
    <3>1. app'.stopping = app.stopping /\ mishap' = mishap
      BY <1>3, <2>2, Parts DEF QuitEnds, AppType
    <3>2. ThreadInv'
      BY <2>2, <3>1 DEF OwnInv, ThreadInv, Clean
    <3> QED
      BY <2>2, <3>1, <3>2, OwnQuiet
  <2> QED
    BY <1>3, <2>1, <2>2 DEF QuitEnds
<1>4. ASSUME NEW ok \in BOOLEAN, StopCompleted(ok) PROVE OwnInv'
  <2>0. /\ posted # "none" /\ worker.pc = "off" /\ stops["worker"].pc = "off"
        /\ (rec.proc = NoTake \/ ~Clean(rec.proc)) /\ mishap' = mishap /\ tk.pc = "idle"
    BY <1>4 DEF StopCompleted, TkIdle, OwnInv, ThreadInv
  <2>1. CASE Vanish(Gone)
    <3>1. \A n \in Takes : ff[n] = "alive" => ~Clean(n)'
      BY <2>0, NoRecording DEF OwnInv, Clean
    <3> QED
      BY <1>0, <2>1, <3>1, VanishOwn
  <2>2. CASE /\ app' = [app EXCEPT !.stopping = FALSE, !.raised = @ \/ ~ok]
             /\ posted' = "none"
             /\ UNCHANGED <<rec, ff, reaper, tk, stops, worker>>
    <3>1. app'.stopping = FALSE
      BY <2>2, Parts DEF AppType
    <3>2. ThreadInv'
      BY <2>0, <2>2, <3>1 DEF OwnInv, ThreadInv
    <3> QED
      BY <2>0, <2>2, <3>2, OwnQuiet
  <2> QED
    BY <1>4, <2>1, <2>2 DEF StopCompleted
<1> QED
  BY <1>1, <1>2, <1>3, <1>4

LEMMA OwnNext ==
    ASSUME Types, OwnInv, [Next]_vars
    PROVE  OwnInv'
<1>1. CASE UNCHANGED vars
  <2>1. ThreadInv'
    BY <1>1 DEF vars, OwnInv, ThreadInv, Clean
  <2> QED
    BY <1>1, <2>1, OwnQuiet DEF vars
<1>2. CASE Handler
  BY <1>2, AppOwn, StartOwn, SpawnOwn, EndOwn, RestartOwn, GoneOwn DEF Handler
<1>3. ASSUME NEW t \in Both, Stopping(t) PROVE OwnInv'
  BY <1>3, ProcessOwn, JoinOwn, JoinedOwn, ClearOwn DEF Stopping
<1>4. ASSUME NEW ok \in BOOLEAN, QuitEnds(ok) \/ StopCompleted(ok) PROVE OwnInv'
  BY <1>4, GoneOwn
<1> QED
  BY <1>1, <1>2, <1>3, <1>4, ProcessOwn, WorkerOwn, AppOwn, EndOwn, GoneOwn DEF Next, Both

LEMMA OwnAlways == Spec => []OwnInv
<1>1. Types /\ OwnInv /\ [Next]_vars => OwnInv'
  BY OwnNext
<1> QED
  BY InitTypes, TypesNext, OwnInit, <1>1, PTL DEF Spec

(* LongOnlyRecorder: whatever is started, stopped, restarted and quit when, an
   ffmpeg that runs is the one the recorder knows of, unless it survived a
   kill, lost its operator, or was started in the middle of a stop sequence. *)
THEOREM NoStrayCapture == Spec => []CaptureIsOwned
<1>1. OwnInv => CaptureIsOwned
  BY DEF OwnInv, TakeInv, CaptureIsOwned, Alive, Clean
<1> QED
  BY <1>1, OwnAlways, PTL

(* last_record_fault is about the take that runs, although reapers and the
   verification write it from threads of their own, unless that take or the
   one the fault is about met such a mishap. *)
THEOREM NoStrayFault == Spec => []FaultIsOwn
<1>1. OwnInv => FaultIsOwn
  BY DEF OwnInv
<1> QED
  BY <1>1, OwnAlways, PTL
=============================================================================
