---------------------------- MODULE Ingest_proofs ----------------------------
(***************************************************************************)
(* Safety of the ingest threads, for any recordings, any number of writes, *)
(* touches, faults and lives, and every combination of the settings.       *)
(***************************************************************************)
EXTENDS Ingest, SequenceTheorems, FiniteSetTheorems, TLAPS

(***************************************************************************)
(* The inductive invariant                                                 *)
(***************************************************************************)

Clip == [sig : 1 .. MaxSig, torn : BOOLEAN]

SettingsOK ==
    /\ mode \in [replay : {"poll", "trigger"}, scan : {"periodic", "trigger"}, mkv : BOOLEAN]
    /\ up \in BOOLEAN /\ lives \in 1 .. MaxLives /\ faults \in 0 .. MaxFaults
    /\ ~up => lives < MaxLives
    /\ trig \in [{"replay", "scan"} -> [file : 0 .. MaxTouches, seen : 0 .. MaxTouches]]

(* A recording that has not begun is empty; the long-clips thread holds one
   only between the move and the rename. *)
LongOK ==
    /\ rec \in [Recordings -> [at : {None, "long", "temp", "clip"}, size : 0 .. MaxSize,
                               open : BOOLEAN]]
    /\ \A r \in Recordings : rec[r].at = None => rec[r].size = 0
    /\ states \in [Recordings -> [phase : {None, "new", "timed", "ripe"}, size : 0 .. MaxSize]]
    /\ long \in [pc : {"wait", "scan", "moved"}, todo : SUBSET Recordings,
                 listed : SUBSET Recordings, cur : Recordings \cup {None}]
    /\ long.pc = "moved" => long.cur \in Recordings
    /\ long.pc # "moved" => long.cur = None

ReplayTypes ==
    /\ src \in [sig : 0 .. MaxSig, present : BOOLEAN, open : BOOLEAN]
    /\ ir \in [pc : {"wait", "settle", "settled", "copying", "copied"},
               copy : [sig : 0 .. MaxSig, torn : BOOLEAN]]
    /\ last \in [sig : 0 .. MaxSig, baseline : 0 .. MaxSig]
    /\ clips \in Seq(Clip)

(* What was copied is older than what is being copied, which is no newer than
   the source; while the worker runs, a source that was copied is known; and a
   source that is back after it was gone has a new signature. *)
ReplayInv ==
    /\ src.present => src.sig > 0
    /\ ir.pc # "wait" => up
    /\ \A i \in DOMAIN clips : clips[i].sig <= src.sig
    /\ ir.pc \in {"copying", "copied"} =>
           /\ ir.copy.sig \in 1 .. src.sig
           /\ \A i \in DOMAIN clips : clips[i].sig < ir.copy.sig
    /\ up /\ src.present /\ (\E i \in DOMAIN clips : clips[i].sig = src.sig) =>
           last.sig = src.sig

ReplayOK == ReplayTypes /\ ReplayInv /\ NoReplayTwice

Strays == {r \in Recordings : Stray(r)}

IInv == SettingsOK /\ LongOK /\ ReplayOK /\ StraysAreAccounted

(***************************************************************************)
(* Lemmas                                                                  *)
(***************************************************************************)

LEMMA Bounds ==
    /\ MaxSize \in Nat \ {0} /\ MaxSig \in Nat \ {0} /\ MaxLives \in Nat \ {0}
    /\ MaxTouches \in Nat /\ MaxFaults \in Nat /\ IsFiniteSet(Recordings)
    /\ None \notin Recordings
BY IngestAssumption

LEMMA StraysFinite == IsFiniteSet(Strays) /\ Cardinality(Strays) \in Nat
<1>1. Strays \subseteq Recordings
  BY DEF Strays
<1> QED
  BY <1>1, Bounds, FS_Subset, FS_CardinalityType

(* One more stray is at most one more; fewer are not more. *)
LEMMA OneMoreStray ==
    ASSUME NEW S, NEW T, NEW x, IsFiniteSet(T), S \subseteq T \cup {x}
    PROVE  Cardinality(S) <= Cardinality(T) + 1
<1>1. /\ IsFiniteSet(T \cup {x}) /\ Cardinality(T) \in Nat
      /\ Cardinality(T \cup {x}) <= Cardinality(T) + 1
  BY FS_AddElement, FS_CardinalityType
<1>2. Cardinality(S) <= Cardinality(T \cup {x}) /\ Cardinality(S) \in Nat
      /\ Cardinality(T \cup {x}) \in Nat
  BY <1>1, FS_Subset, FS_CardinalityType
<1> QED
  BY <1>1, <1>2

LEMMA NoMoreStrays ==
    ASSUME NEW S, NEW T, IsFiniteSet(T), S \subseteq T
    PROVE  Cardinality(S) <= Cardinality(T) /\ Cardinality(S) \in Nat /\ Cardinality(T) \in Nat
BY FS_Subset, FS_CardinalityType

(* A step that strands nothing. *)
LEMMA StraysStay ==
    ASSUME SettingsOK, StraysAreAccounted, Strays' \subseteq Strays,
           faults' \in Nat, lives' \in Nat, faults' >= faults, lives' = lives, up' = up
    PROVE  StraysAreAccounted'
<1>1. Cardinality(Strays') <= Cardinality(Strays) /\ Cardinality(Strays') \in Nat
      /\ Cardinality(Strays) \in Nat
  BY StraysFinite, NoMoreStrays
<1>2. faults \in Nat /\ lives \in Nat
  BY Bounds DEF SettingsOK
<1> QED
  BY <1>1, <1>2 DEF StraysAreAccounted, Strays

(* Nothing of the instant replay changes, and the worker does not come up. *)
LEMMA ReplaySame ==
    ASSUME ReplayOK, UNCHANGED <<src, ir, last, clips, up>>
    PROVE  ReplayOK'
BY DEF ReplayOK, ReplayTypes, ReplayInv, NoReplayTwice

LEMMA FaultType ==
    ASSUME SettingsOK, Fault
    PROVE  faults' \in 0 .. MaxFaults /\ faults' = faults + 1 /\ faults \in Nat
BY Bounds DEF SettingsOK, Fault

LEMMA LongSame ==
    ASSUME LongOK, UNCHANGED longVars
    PROVE  LongOK' /\ Strays' = Strays
BY DEF LongOK, longVars, Strays, Stray

(* Whatever happens to the instant replay alone. *)
LEMMA SettingsSame ==
    ASSUME SettingsOK, UNCHANGED <<mode, up, lives, trig>>, faults' \in 0 .. MaxFaults
    PROVE  SettingsOK'
BY DEF SettingsOK

LEMMA ReplayOnly ==
    ASSUME IInv, UNCHANGED <<mode, up, lives, longVars>>, SettingsOK',
           faults' = faults \/ Fault
    PROVE  LongOK' /\ StraysAreAccounted'
<1>1. LongOK' /\ Strays' = Strays
  BY LongSame DEF IInv
<1>2. faults \in Nat /\ lives \in Nat /\ faults' \in Nat /\ faults' >= faults
  BY Bounds, FaultType DEF IInv, SettingsOK
<1>3. up' = up /\ lives' = lives /\ lives' \in Nat
  BY <1>2
<1> QED
  BY <1>1, <1>2, <1>3, StraysStay DEF IInv

LEMMA SeesType ==
    ASSUME SettingsOK, NEW t \in {"replay", "scan"}, Sees(t)
    PROVE  trig' \in [{"replay", "scan"} -> [file : 0 .. MaxTouches, seen : 0 .. MaxTouches]]
BY DEF SettingsOK, Sees

(***************************************************************************)
(* The writers, the operator and the process                               *)
(***************************************************************************)

LEMMA InitHolds == Init => IInv
<1> SUFFICES ASSUME Init PROVE IInv
  OBVIOUS
<1>1. SettingsOK
  BY Bounds DEF Init, SettingsOK
<1>2. LongOK
  BY Bounds DEF Init, LongOK
<1>3. ReplayOK
  <2>1. clips = <<>> /\ clips \in Seq(Clip) /\ DOMAIN clips = {}
    BY DEF Init
  <2>2. ReplayTypes
    BY <2>1, Bounds DEF Init, ReplayTypes, NoCopy
  <2> QED
    BY <2>1, <2>2 DEF Init, ReplayOK, ReplayInv, NoReplayTwice
<1>4. StraysAreAccounted
  <2>1. {r \in Recordings : Stray(r)} = {}
    BY DEF Init, Stray, None
  <2>2. Cardinality({r \in Recordings : Stray(r)}) = 0
    BY <2>1, FS_EmptySet
  <2>3. up = TRUE /\ lives = 1 /\ faults = 0
    BY DEF Init
  <2> QED
    BY <2>2, <2>3 DEF StraysAreAccounted
<1> QED
  BY <1>1, <1>2, <1>3, <1>4 DEF IInv

LEMMA RecordingKeeps ==
    ASSUME IInv, NEW r \in Recordings,
           RecordingGrows(r) \/ RecordingEnds(r) \/ StableTimePasses(r)
    PROVE  IInv'
<1>0. UNCHANGED <<mode, up, lives, faults, long, replayVars, trig>>
  BY DEF RecordingGrows, RecordingEnds, StableTimePasses
<1>1. SettingsOK' /\ ReplayOK'
  BY <1>0, SettingsSame, ReplaySame DEF IInv, replayVars, SettingsOK
<1>2. /\ rec[r] \in [at : {None, "long", "temp", "clip"}, size : 0 .. MaxSize, open : BOOLEAN]
      /\ states[r] \in [phase : {None, "new", "timed", "ripe"}, size : 0 .. MaxSize]
  BY DEF IInv, LongOK
<1>3. LongOK' /\ Strays' \subseteq Strays
  <2>1. CASE RecordingGrows(r)
    <3>1. PICK a \in {"long", "temp", "clip"}, n \in 0 .. MaxSize :
            /\ rec' = [rec EXCEPT ![r] = [at |-> a, size |-> n, open |-> TRUE]]
            /\ a = "temp" => rec[r].at = "temp"
      <4>1. rec[r].size + 1 \in 0 .. MaxSize
        BY <2>1, <1>2, Bounds DEF RecordingGrows, IInv, LongOK
      <4>2. CASE rec[r].at = None
        BY <4>1, <4>2, <2>1 DEF RecordingGrows, None
      <4>3. CASE rec[r].at # None
        BY <4>1, <4>3, <2>1, <1>2 DEF RecordingGrows
      <4> QED
        BY <4>2, <4>3
    <3> QED
      BY <3>1, <2>1, <1>0 DEF IInv, LongOK, RecordingGrows, Strays, Stray, None
  <2>2. CASE RecordingEnds(r)
    BY <2>2, <1>0, <1>2 DEF IInv, LongOK, RecordingEnds, Strays, Stray
  <2>3. CASE StableTimePasses(r)
    BY <2>3, <1>0, <1>2 DEF IInv, LongOK, StableTimePasses, Strays, Stray
  <2> QED
    BY <2>1, <2>2, <2>3
<1>4. StraysAreAccounted'
  BY <1>0, <1>3, StraysStay, Bounds DEF IInv, SettingsOK
<1> QED
  BY <1>1, <1>3, <1>4 DEF IInv

LEMMA SourceKeeps ==
    ASSUME IInv, SourceIsWritten \/ SourceIsClosed \/ SourceIsRemoved
    PROVE  IInv'
<1>0. UNCHANGED <<mode, up, lives, faults, longVars, ir, last, clips, trig>>
  BY DEF SourceIsWritten, SourceIsClosed, SourceIsRemoved
<1>1. SettingsOK' /\ LongOK' /\ StraysAreAccounted'
  <2>1. SettingsOK'
    BY <1>0, SettingsSame DEF IInv, SettingsOK
  <2> QED
    BY <1>0, <2>1, ReplayOnly
<1>2. ReplayOK'
  <2>0. clips \in Seq(Clip) /\ \A i \in DOMAIN clips : clips[i].sig \in Nat
    <3>1. clips \in Seq(Clip)
      BY DEF IInv, ReplayOK, ReplayTypes
    <3>2. \A i \in DOMAIN clips : clips[i] \in Clip
      BY <3>1
    <3> QED
      BY <3>1, <3>2, Bounds DEF Clip
  <2>1. CASE SourceIsWritten
    <3>1. src' = [sig |-> src.sig + 1, present |-> TRUE, open |-> TRUE]
          /\ src.sig \in Nat /\ src.sig + 1 \in 0 .. MaxSig
      BY <2>1, Bounds DEF SourceIsWritten, IInv, ReplayOK, ReplayTypes
    <3>2. ReplayTypes' /\ NoReplayTwice'
      BY <3>1, <1>0 DEF IInv, ReplayOK, ReplayTypes, NoReplayTwice
    <3>3. \A i \in DOMAIN clips : clips[i].sig <= src.sig /\ clips[i].sig # src.sig + 1
      BY <2>0, <3>1 DEF IInv, ReplayOK, ReplayInv
    <3>4. ReplayInv'
      BY <3>1, <3>3, <2>0, <1>0 DEF IInv, ReplayOK, ReplayInv
    <3> QED
      BY <3>2, <3>4 DEF ReplayOK
  <2>2. CASE SourceIsClosed
    <3>1. src' = [src EXCEPT !.open = FALSE]
      BY <2>2 DEF SourceIsClosed
    <3>2. src'.sig = src.sig /\ src'.present \in BOOLEAN /\ (src'.present => src.present)
      BY <3>1 DEF IInv, ReplayOK, ReplayTypes
    <3>3. ReplayTypes' /\ NoReplayTwice'
      BY <3>1, <1>0 DEF IInv, ReplayOK, ReplayTypes, NoReplayTwice
    <3>4. ReplayInv'
      BY <3>2, <1>0 DEF IInv, ReplayOK, ReplayInv
    <3> QED
      BY <3>3, <3>4 DEF ReplayOK
  <2>3. CASE SourceIsRemoved
    <3>1. src' = [src EXCEPT !.present = FALSE]
      BY <2>3 DEF SourceIsRemoved
    <3>2. src'.sig = src.sig /\ src'.present \in BOOLEAN /\ (src'.present => src.present)
      BY <3>1 DEF IInv, ReplayOK, ReplayTypes
    <3>3. ReplayTypes' /\ NoReplayTwice'
      BY <3>1, <1>0 DEF IInv, ReplayOK, ReplayTypes, NoReplayTwice
    <3>4. ReplayInv'
      BY <3>2, <1>0 DEF IInv, ReplayOK, ReplayInv
    <3> QED
      BY <3>3, <3>4 DEF ReplayOK
  <2> QED
    BY <2>1, <2>2, <2>3
<1> QED
  BY <1>1, <1>2 DEF IInv

LEMMA TouchKeeps ==
    ASSUME IInv, NEW t \in {"replay", "scan"}, Touch(t)
    PROVE  IInv'
<1>0. UNCHANGED <<mode, up, lives, faults, longVars, replayVars>>
  BY DEF Touch
<1>1. SettingsOK'
  <2>1. trig[t].file + 1 \in 0 .. MaxTouches
    BY Bounds DEF Touch, IInv, SettingsOK
  <2>2. trig' = [trig EXCEPT ![t] = [@ EXCEPT !.file = trig[t].file + 1]]
    BY DEF Touch, IInv, SettingsOK
  <2> QED
    BY <1>0, <2>1, <2>2 DEF IInv, SettingsOK
<1>2. LongOK' /\ StraysAreAccounted'
  BY <1>0, <1>1, ReplayOnly
<1>3. ReplayOK'
  BY <1>0, ReplaySame DEF IInv, replayVars
<1> QED
  BY <1>1, <1>2, <1>3 DEF IInv

(* The end may strand the recording the thread holds. *)
LEMMA EndsKeeps ==
    ASSUME IInv, Ends
    PROVE  IInv'
<1>1. SettingsOK' /\ up /\ up' = FALSE /\ lives' = lives /\ faults' = faults
  BY Bounds DEF Ends, IInv, SettingsOK
<1>2. LongOK'
  BY Bounds DEF Ends, IInv, LongOK
<1>3. ReplayOK'
  <2>1. ReplayTypes'
    BY Bounds DEF Ends, IInv, ReplayOK, ReplayTypes, NoCopy
  <2> QED
    BY <2>1 DEF Ends, IInv, ReplayOK, ReplayInv, NoReplayTwice
<1>4. StraysAreAccounted'
  <2>1. Strays' \subseteq Strays \cup {long.cur}
    BY DEF Ends, Strays, Stray
  <2>2. Cardinality(Strays') <= Cardinality(Strays) + 1 /\ Cardinality(Strays) \in Nat
    BY <2>1, StraysFinite, OneMoreStray
  <2>3. Cardinality(Strays') \in Nat
    <3>1. Strays' \subseteq Recordings
      BY DEF Strays
    <3> QED
      BY <3>1, Bounds, FS_Subset, FS_CardinalityType
  <2>4. faults \in Nat /\ lives \in Nat
    BY Bounds DEF IInv, SettingsOK
  <2> QED
    BY <1>1, <2>2, <2>3, <2>4 DEF IInv, StraysAreAccounted, Strays
<1> QED
  BY <1>1, <1>2, <1>3, <1>4 DEF IInv

LEMMA StartsKeeps ==
    ASSUME IInv, Starts
    PROVE  IInv'
<1>1. /\ ~up /\ up' = TRUE /\ lives' = lives + 1 /\ faults' = faults
      /\ lives \in Nat /\ faults \in Nat /\ UNCHANGED longVars
  BY Bounds DEF Starts, IInv, SettingsOK
<1>2. SettingsOK'
  BY Bounds DEF Starts, IInv, SettingsOK
<1>3. LongOK' /\ Strays' = Strays
  BY <1>1, LongSame DEF IInv
<1>4. ReplayOK'
  <2>1. PICK old \in 0 .. MaxSig : /\ last' = [sig |-> old, baseline |-> old]
                                   /\ src.present => old = src.sig
    BY Bounds DEF Starts, IInv, ReplayOK, ReplayTypes
  <2>2. UNCHANGED <<src, ir, clips>> /\ ir.pc = "wait"
    BY <1>1 DEF Starts, IInv, ReplayOK, ReplayInv
  <2> QED
    BY <1>1, <2>1, <2>2 DEF IInv, ReplayOK, ReplayTypes, ReplayInv, NoReplayTwice
<1>5. StraysAreAccounted'
  <2>1. Cardinality(Strays') = Cardinality(Strays) /\ Cardinality(Strays) \in Nat
    BY <1>3, StraysFinite
  <2> QED
    BY <1>1, <2>1 DEF IInv, StraysAreAccounted, Strays
<1> QED
  BY <1>2, <1>3, <1>4, <1>5 DEF IInv

(***************************************************************************)
(* The long-clips thread                                                   *)
(***************************************************************************)

(* A step of it that strands nothing, whatever it does to its own state. *)
LEMMA LongStep ==
    ASSUME IInv, UNCHANGED <<mode, up, lives, replayVars>>, SettingsOK', LongOK',
           faults' = faults \/ Fault, Strays' \subseteq Strays
    PROVE  IInv'
<1>1. ReplayOK'
  BY ReplaySame DEF IInv, replayVars
<1>2. faults' \in Nat /\ faults' >= faults /\ lives' \in Nat
  BY Bounds, FaultType DEF IInv, SettingsOK
<1>3. StraysAreAccounted'
  BY <1>2, StraysStay DEF IInv
<1> QED
  BY <1>1, <1>3 DEF IInv

LEMMA PassKeeps ==
    ASSUME IInv, ScanBegins \/ ScanEnds
    PROVE  IInv'
<1>1. CASE ScanBegins
  <2>0. UNCHANGED <<mode, up, lives, faults, rec, states, replayVars>>
        /\ long.pc = "wait" /\ long.cur = None
        /\ long' = [pc |-> "scan", todo |-> Entries, listed |-> Entries, cur |-> None]
    BY <1>1 DEF ScanBegins, IInv, LongOK
  <2>1. SettingsOK'
    <3>1. trig' \in [{"replay", "scan"} -> [file : 0 .. MaxTouches, seen : 0 .. MaxTouches]]
      BY <1>1, SeesType DEF ScanBegins, IInv, SettingsOK
    <3> QED
      BY <2>0, <3>1 DEF IInv, SettingsOK
  <2>2. Entries \subseteq Recordings
    BY DEF Entries
  <2>3. LongOK' /\ Strays' = Strays
    BY <2>0, <2>2 DEF IInv, LongOK, Strays, Stray
  <2> QED
    BY <2>0, <2>1, <2>3, LongStep
<1>2. CASE ScanEnds
  <2>0. UNCHANGED <<mode, up, lives, faults, rec, replayVars, trig>> /\ long.pc = "scan"
    BY <1>2 DEF ScanEnds
  <2>1. SettingsOK'
    BY <2>0, SettingsSame DEF IInv, SettingsOK
  <2>2. LongOK' /\ Strays' = Strays
    <3>1. long' = [long EXCEPT !.pc = "wait", !.listed = {}]
      BY <1>2 DEF ScanEnds
    <3>2. \A r \in Recordings :
            (IF r \in long.listed THEN states[r] ELSE [phase |-> None, size |-> 0])
              \in [phase : {None, "new", "timed", "ripe"}, size : 0 .. MaxSize]
      BY Bounds DEF IInv, LongOK
    <3>3. states' \in [Recordings -> [phase : {None, "new", "timed", "ripe"}, size : 0 .. MaxSize]]
      BY <1>2, <3>2 DEF ScanEnds
    <3> QED
      BY <2>0, <3>1, <3>3 DEF IInv, LongOK, Strays, Stray
  <2> QED
    BY <2>0, <2>1, <2>2, LongStep
<1> QED
  BY <1>1, <1>2

LEMMA ScanKeeps ==
    ASSUME IInv, NEW r \in Recordings, Notes(r) \/ LongWaits(r) \/ LongMoves(r)
    PROVE  IInv'
<1>0. UNCHANGED <<mode, up, lives, replayVars, trig>> /\ long.pc = "scan" /\ long.cur = None
  BY DEF Notes, LongWaits, LongMoves, Scanning, IInv, LongOK
<1>1. /\ rec[r] \in [at : {None, "long", "temp", "clip"}, size : 0 .. MaxSize, open : BOOLEAN]
      /\ states[r] \in [phase : {None, "new", "timed", "ripe"}, size : 0 .. MaxSize]
  BY DEF IInv, LongOK
<1>2. faults' = faults \/ Fault
  BY DEF Notes, LongWaits, LongMoves
<1>3. SettingsOK'
  <2>1. faults' \in 0 .. MaxFaults
    BY <1>2, FaultType DEF IInv, SettingsOK
  <2> QED
    BY <1>0, <2>1, SettingsSame DEF IInv
<1>4. LongOK' /\ Strays' \subseteq Strays
  <2>1. CASE Notes(r)
    BY <2>1, <1>0, <1>1 DEF Notes, Skip, IInv, LongOK, Strays, Stray
  <2>2. CASE LongWaits(r)
    BY <2>2, <1>0 DEF LongWaits, Skip, IInv, LongOK, Strays, Stray
  <2>3. CASE LongMoves(r)
    <3>1. /\ rec' = [rec EXCEPT ![r] = [@ EXCEPT !.at = "temp"]]
          /\ long' = [long EXCEPT !.pc = "moved", !.todo = @ \ {r}, !.cur = r]
          /\ states' = states
      BY <2>3 DEF LongMoves
    <3>2. LongOK'
      BY <3>1, <1>0, <1>1 DEF IInv, LongOK, None
    <3>3. \A x \in Recordings : rec'[x].at = "temp" /\ long'.cur # x => rec[x].at = "temp"
      BY <3>1 DEF IInv, LongOK
    <3>4. \A x \in Recordings : long.cur # x
      BY <1>0, Bounds
    <3> QED
      BY <3>2, <3>3, <3>4 DEF Strays, Stray
  <2> QED
    BY <2>1, <2>2, <2>3
<1> QED
  BY <1>0, <1>2, <1>3, <1>4, LongStep

(* The rename, when it fails, strands the recording: a fault for a stray. *)
LEMMA PublishKeeps ==
    ASSUME IInv, LongPublishes
    PROVE  IInv'
<1>0. /\ UNCHANGED <<mode, up, lives, replayVars, trig>> /\ long.cur \in Recordings
      /\ long' = [long EXCEPT !.pc = "scan", !.cur = None]
  BY DEF LongPublishes, IInv, LongOK
<1>1. CASE /\ rec' = [rec EXCEPT ![long.cur].at = "clip"]
           /\ states' = [states EXCEPT ![long.cur].phase = None]
           /\ UNCHANGED faults
  <2>1. /\ rec[long.cur] \in [at : {None, "long", "temp", "clip"}, size : 0 .. MaxSize, open : BOOLEAN]
        /\ states[long.cur] \in [phase : {None, "new", "timed", "ripe"}, size : 0 .. MaxSize]
    BY <1>0 DEF IInv, LongOK
  <2>2. /\ rec' = [rec EXCEPT ![long.cur] = [@ EXCEPT !.at = "clip"]]
        /\ states' = [states EXCEPT ![long.cur] = [@ EXCEPT !.phase = None]]
    BY <1>1
  <2>3. LongOK'
    BY <1>0, <2>1, <2>2 DEF IInv, LongOK, None
  <2>4. \A x \in Recordings : rec'[x].at = "temp" => rec[x].at = "temp" /\ x # long.cur
    BY <1>0, <2>1, <2>2 DEF IInv, LongOK
  <2>5. Strays' \subseteq Strays
    BY <2>4 DEF Strays, Stray
  <2>6. SettingsOK'
    BY <1>0, <1>1, SettingsSame DEF IInv, SettingsOK
  <2> QED
    BY <1>0, <1>1, <2>3, <2>5, <2>6, LongStep
<1>2. CASE Fault /\ UNCHANGED <<rec, states>>
  <2>1. faults' \in 0 .. MaxFaults /\ faults' = faults + 1 /\ faults \in Nat /\ lives \in Nat
    BY <1>2, FaultType, Bounds DEF IInv, SettingsOK
  <2>2. SettingsOK' /\ ReplayOK'
    BY <1>0, <2>1, SettingsSame, ReplaySame DEF IInv, replayVars
  <2>3. LongOK'
    BY <1>0, <1>2 DEF IInv, LongOK
  <2>4. Strays' \subseteq Strays \cup {long.cur}
    BY <1>2 DEF Strays, Stray
  <2>5. Cardinality(Strays') <= Cardinality(Strays) + 1 /\ Cardinality(Strays) \in Nat
    BY <2>4, StraysFinite, OneMoreStray
  <2>6. Cardinality(Strays') \in Nat
    <3>1. Strays' \subseteq Recordings
      BY DEF Strays
    <3> QED
      BY <3>1, Bounds, FS_Subset, FS_CardinalityType
  <2>7. StraysAreAccounted'
    BY <1>0, <2>1, <2>5, <2>6 DEF IInv, StraysAreAccounted, Strays
  <2> QED
    BY <2>2, <2>3, <2>7 DEF IInv
<1> QED
  BY <1>1, <1>2 DEF LongPublishes

(***************************************************************************)
(* The instant-replay thread                                               *)
(***************************************************************************)

(* What waits or settles holds no copy that matters. *)
LEMMA WaitKeeps ==
    ASSUME IInv, PollForgets \/ PollSees \/ TriggerSeen \/ GivesUp \/ Settles \/ Declines
    PROVE  IInv'
<1>0. UNCHANGED <<mode, up, lives, faults, longVars, src, clips>>
  BY DEF PollForgets, PollSees, TriggerSeen, GivesUp, Settles, Declines
<1>1. SettingsOK'
  <2>1. trig' \in [{"replay", "scan"} -> [file : 0 .. MaxTouches, seen : 0 .. MaxTouches]]
    BY SeesType DEF PollForgets, PollSees, TriggerSeen, GivesUp, Settles, Declines, IInv, SettingsOK
  <2> QED
    BY <1>0, <2>1 DEF IInv, SettingsOK
<1>2. LongOK' /\ StraysAreAccounted'
  BY <1>0, <1>1, ReplayOnly
<1>3. /\ src \in [sig : 0 .. MaxSig, present : BOOLEAN, open : BOOLEAN]
      /\ last \in [sig : 0 .. MaxSig, baseline : 0 .. MaxSig]
      /\ 0 \in 0 .. MaxSig
  BY Bounds DEF IInv, ReplayOK, ReplayTypes
<1>4. /\ ir' = ir \/ ir'.pc \in {"wait", "settle", "settled"}
      /\ ir' \in [pc : {"wait", "settle", "settled", "copying", "copied"},
                  copy : [sig : 0 .. MaxSig, torn : BOOLEAN]]
      /\ ir'.pc # "wait" => up
  <2>1. CASE PollForgets
    BY <2>1 DEF PollForgets, IInv, ReplayOK, ReplayTypes, ReplayInv
  <2>2. CASE PollSees \/ TriggerSeen
    <3>1. up /\ ir' = [pc |-> "settle", copy |-> [sig |-> src.sig, torn |-> FALSE]]
      BY <2>2 DEF PollSees, TriggerSeen
    <3> QED
      BY <3>1, <1>3
  <2>3. CASE GivesUp \/ Declines
    <3>1. ir' = [pc |-> "wait", copy |-> [sig |-> 0, torn |-> FALSE]]
      BY <2>3 DEF GivesUp, Declines, NoCopy
    <3> QED
      BY <3>1, <1>3
  <2>4. CASE Settles
    <3>1. up /\ ir' = [ir EXCEPT !.pc = "settled"]
      BY <2>4 DEF Settles, IInv, ReplayOK, ReplayInv
    <3> QED
      BY <3>1 DEF IInv, ReplayOK, ReplayTypes
  <2> QED
    BY <2>1, <2>2, <2>3, <2>4
<1>5. /\ last' \in [sig : 0 .. MaxSig, baseline : 0 .. MaxSig]
      /\ src.present => last'.sig = last.sig \/ last'.sig = src.sig
  <2>1. CASE PollForgets
    BY <2>1, <1>3 DEF PollForgets
  <2>2. CASE PollSees \/ TriggerSeen \/ GivesUp \/ Settles
    BY <2>2, <1>3 DEF PollSees, TriggerSeen, GivesUp, Settles
  <2>3. CASE Declines
    BY <2>3, <1>3 DEF Declines
  <2> QED
    BY <2>1, <2>2, <2>3
<1>6. ReplayTypes' /\ NoReplayTwice'
  BY <1>0, <1>4, <1>5 DEF IInv, ReplayOK, ReplayTypes, NoReplayTwice
<1>7. ReplayInv'
  BY <1>0, <1>4, <1>5 DEF IInv, ReplayOK, ReplayInv
<1> QED
  BY <1>1, <1>2, <1>6, <1>7 DEF IInv, ReplayOK

(* A source that is not the last one known has not been copied, so its
   signature is newer than every clip's. *)
LEMMA CopyKeeps ==
    ASSUME IInv, CopyBegins \/ CopyEnds
    PROVE  IInv'
<1>0. UNCHANGED <<mode, up, lives, longVars, src, last, clips, trig>> /\ (faults' = faults \/ Fault)
  BY DEF CopyBegins, CopyEnds
<1>1. SettingsOK'
  <2>1. faults' \in 0 .. MaxFaults
    BY <1>0, FaultType DEF IInv, SettingsOK
  <2> QED
    BY <1>0, <2>1, SettingsSame DEF IInv
<1>2. LongOK' /\ StraysAreAccounted'
  BY <1>0, <1>1, ReplayOnly
<1>3. /\ src \in [sig : 0 .. MaxSig, present : BOOLEAN, open : BOOLEAN]
      /\ ir \in [pc : {"wait", "settle", "settled", "copying", "copied"},
                 copy : [sig : 0 .. MaxSig, torn : BOOLEAN]]
      /\ 0 \in 0 .. MaxSig /\ src.sig \in Nat
  BY Bounds DEF IInv, ReplayOK, ReplayTypes
<1>4. ir.pc # "wait" /\ up
  BY DEF CopyBegins, CopyEnds, IInv, ReplayOK, ReplayInv
<1>5. /\ ir' \in [pc : {"wait", "settle", "settled", "copying", "copied"},
                  copy : [sig : 0 .. MaxSig, torn : BOOLEAN]]
      /\ ir'.pc \in {"copying", "copied"} =>
           /\ ir'.copy.sig \in 1 .. src.sig
           /\ \A i \in DOMAIN clips : clips[i].sig < ir'.copy.sig
  <2>1. CASE CopyBegins
    <3>1. ir' = [pc |-> "copying", copy |-> [sig |-> src.sig, torn |-> FALSE]]
      BY <2>1 DEF CopyBegins
    <3>2. src.present /\ src.sig # last.sig /\ src.sig > 0
      BY <2>1 DEF CopyBegins, IInv, ReplayOK, ReplayInv
    <3>3. \A i \in DOMAIN clips : clips[i].sig # src.sig /\ clips[i].sig <= src.sig
      BY <1>4, <3>2 DEF IInv, ReplayOK, ReplayInv
    <3>4. \A i \in DOMAIN clips : clips[i].sig \in Nat
      <4>1. clips \in Seq(Clip)
        BY DEF IInv, ReplayOK, ReplayTypes
      <4>2. \A i \in DOMAIN clips : clips[i] \in Clip
        BY <4>1
      <4> QED
        BY <4>2, Bounds DEF Clip
    <3> QED
      BY <1>3, <3>1, <3>2, <3>3, <3>4
  <2>2. CASE CopyEnds
    <3>0. ir.pc = "copying"
      BY <2>2 DEF CopyEnds
    <3>1. CASE ir' = [ir EXCEPT !.pc = "copied", !.copy.torn = src.sig # ir.copy.sig]
      <4>1. ir'.pc = "copied" /\ ir'.copy.sig = ir.copy.sig
        BY <3>1, <1>3
      <4>2. PICK b \in BOOLEAN :
              ir' = [ir EXCEPT !.pc = "copied", !.copy = [ir.copy EXCEPT !.torn = b]]
        BY <3>1, <1>3
      <4>3. ir' \in [pc : {"wait", "settle", "settled", "copying", "copied"},
                    copy : [sig : 0 .. MaxSig, torn : BOOLEAN]]
        BY <4>2, <1>3
      <4> QED
        BY <3>0, <4>1, <4>3 DEF IInv, ReplayOK, ReplayInv
    <3>2. CASE ir' = [pc |-> "wait", copy |-> NoCopy]
      BY <3>2, <1>3 DEF NoCopy
    <3> QED
      BY <2>2, <3>1, <3>2 DEF CopyEnds
  <2> QED
    BY <2>1, <2>2
<1>6. ReplayTypes' /\ NoReplayTwice'
  BY <1>0, <1>5 DEF IInv, ReplayOK, ReplayTypes, NoReplayTwice
<1>7. ReplayInv'
  BY <1>0, <1>4, <1>5 DEF IInv, ReplayOK, ReplayInv
<1> QED
  BY <1>1, <1>2, <1>6, <1>7 DEF IInv, ReplayOK

(* The copy is newer than every clip, and becomes the last one known. *)
LEMMA ReplayPublishesKeeps ==
    ASSUME IInv, ReplayPublishes
    PROVE  IInv'
<1>0. /\ UNCHANGED <<mode, up, lives, longVars, src, trig>> /\ (faults' = faults \/ Fault)
      /\ ir.pc = "copied" /\ ir' = [pc |-> "wait", copy |-> [sig |-> 0, torn |-> FALSE]]
  BY DEF ReplayPublishes, NoCopy
<1>1. SettingsOK'
  <2>1. faults' \in 0 .. MaxFaults
    BY <1>0, FaultType DEF IInv, SettingsOK
  <2> QED
    BY <1>0, <2>1, SettingsSame DEF IInv
<1>2. LongOK' /\ StraysAreAccounted'
  BY <1>0, <1>1, ReplayOnly
<1>3. /\ src \in [sig : 0 .. MaxSig, present : BOOLEAN, open : BOOLEAN]
      /\ ir.copy \in [sig : 0 .. MaxSig, torn : BOOLEAN]
      /\ last \in [sig : 0 .. MaxSig, baseline : 0 .. MaxSig]
      /\ clips \in Seq(Clip) /\ MaxSig \in Nat /\ 0 \in 0 .. MaxSig
      /\ ir.copy.sig \in 1 .. src.sig
      /\ \A i \in DOMAIN clips : clips[i].sig < ir.copy.sig
  BY <1>0, Bounds DEF IInv, ReplayOK, ReplayTypes, ReplayInv
<1>4. CASE /\ clips' = Append(clips, ir.copy)
           /\ last' = [last EXCEPT !.sig = ir.copy.sig]
  <2>1. ir.copy \in Clip
    BY <1>3 DEF Clip
  <2>2. /\ clips' \in Seq(Clip) /\ DOMAIN clips = 1 .. Len(clips) /\ Len(clips) \in Nat
        /\ DOMAIN clips' = 1 .. (Len(clips) + 1)
        /\ \A i \in 1 .. Len(clips) : clips'[i] = clips[i]
        /\ clips'[Len(clips) + 1] = ir.copy
    BY <1>3, <1>4, <2>1
  <2>3. \A i \in DOMAIN clips' : i \in DOMAIN clips \/ i = Len(clips) + 1
    BY <2>2
  <2>4. \A i \in DOMAIN clips : clips[i].sig \in Nat
    <3>1. \A i \in DOMAIN clips : clips[i] \in Clip
      BY <1>3
    <3> QED
      BY <3>1, <1>3 DEF Clip
  <2>5. NoReplayTwice'
    <3> SUFFICES ASSUME NEW i \in DOMAIN clips', NEW j \in DOMAIN clips',
                        clips'[i].sig = clips'[j].sig
                 PROVE  i = j
      BY DEF NoReplayTwice
    <3>1. CASE i \in DOMAIN clips /\ j \in DOMAIN clips
      BY <3>1, <2>2 DEF IInv, ReplayOK, NoReplayTwice
    <3>2. CASE i \in DOMAIN clips /\ j = Len(clips) + 1
      BY <3>2, <2>2, <2>4, <1>3
    <3>3. CASE i = Len(clips) + 1 /\ j \in DOMAIN clips
      BY <3>3, <2>2, <2>4, <1>3
    <3> QED
      BY <3>1, <3>2, <3>3, <2>3
  <2>6. ReplayTypes'
    <3>1. last' \in [sig : 0 .. MaxSig, baseline : 0 .. MaxSig] /\ last'.sig = ir.copy.sig
      BY <1>3, <1>4
    <3>2. ir' \in [pc : {"wait", "settle", "settled", "copying", "copied"},
                  copy : [sig : 0 .. MaxSig, torn : BOOLEAN]]
      BY <1>0, <1>3
    <3> QED
      BY <1>0, <1>3, <2>2, <3>1, <3>2 DEF ReplayTypes
  <2>7. ReplayInv'
    <3>1. \A i \in DOMAIN clips' : clips'[i].sig <= src.sig
      BY <1>3, <2>2, <2>3, <2>4
    <3>2. (\E i \in DOMAIN clips' : clips'[i].sig = src.sig) => ir.copy.sig = src.sig
      BY <1>3, <2>2, <2>3, <2>4
    <3>3. last'.sig = ir.copy.sig
      BY <1>3, <1>4
    <3> QED
      BY <1>0, <3>1, <3>2, <3>3 DEF IInv, ReplayOK, ReplayInv
  <2> QED
    BY <1>1, <1>2, <2>5, <2>6, <2>7 DEF IInv, ReplayOK
<1>5. CASE UNCHANGED <<clips, last>>
  <2>1. ReplayTypes' /\ NoReplayTwice'
    BY <1>0, <1>3, <1>5 DEF IInv, ReplayOK, ReplayTypes, NoReplayTwice
  <2>2. ReplayInv'
    BY <1>0, <1>5 DEF IInv, ReplayOK, ReplayInv
  <2> QED
    BY <1>1, <1>2, <2>1, <2>2 DEF IInv, ReplayOK
<1> QED
  BY <1>4, <1>5 DEF ReplayPublishes

(***************************************************************************)
(* The theorems                                                            *)
(***************************************************************************)

LEMMA NextKeeps ==
    ASSUME IInv, [Next]_vars
    PROVE  IInv'
<1>1. ASSUME NEW r \in Recordings,
             RecordingGrows(r) \/ RecordingEnds(r) \/ StableTimePasses(r)
      PROVE  IInv'
  BY <1>1, RecordingKeeps
<1>2. CASE SourceIsWritten \/ SourceIsClosed \/ SourceIsRemoved
  BY <1>2, SourceKeeps
<1>3. ASSUME NEW t \in {"replay", "scan"}, Touch(t) PROVE IInv'
  BY <1>3, TouchKeeps
<1>4. CASE Ends
  BY <1>4, EndsKeeps
<1>5. CASE Starts
  BY <1>5, StartsKeeps
<1>6. CASE LongThread
  BY <1>6, PassKeeps, PublishKeeps, ScanKeeps DEF LongThread
<1>7. CASE ReplayThread
  BY <1>7, WaitKeeps, CopyKeeps, ReplayPublishesKeeps DEF ReplayThread
<1>8. CASE UNCHANGED vars
  <2>1. UNCHANGED <<mode, up, lives, faults, longVars, replayVars, trig>>
    BY <1>8 DEF vars
  <2>2. SettingsOK'
    BY <2>1 DEF IInv, SettingsOK
  <2>3. LongOK' /\ StraysAreAccounted'
    BY <2>1, <2>2, ReplayOnly
  <2> QED
    BY <2>1, <2>2, <2>3, ReplaySame DEF IInv, replayVars
<1> QED
  BY <1>1, <1>2, <1>3, <1>4, <1>5, <1>6, <1>7, <1>8 DEF Next

LEMMA Invariance == Spec => []IInv
<1>1. Init => IInv
  BY InitHolds
<1>2. IInv /\ [Next]_vars => IInv'
  BY NextKeeps
<1> QED
  BY <1>1, <1>2, PTL DEF Spec

(* Every variable keeps its type, and every counter its bound. *)
THEOREM TypeCorrect == Spec => []TypeOK
<1>1. IInv => TypeOK
  BY DEF IInv, SettingsOK, LongOK, ReplayOK, ReplayTypes, Clip, TypeOK
<1> QED
  BY <1>1, Invariance, PTL

(* promote_instant_replay: no write of the source becomes two clips, however
   polls, triggers, failing renames and restarts of the worker fall. *)
THEOREM EachReplayOnce == Spec => []NoReplayTwice
<1>1. IInv => NoReplayTwice
  BY DEF IInv, ReplayOK
<1> QED
  BY <1>1, Invariance, PTL

(* _long_clips_scan_pass: a recording is left under a .copying name only by a
   failing rename or an end of the process, one for each. *)
THEOREM StraysBounded == Spec => []StraysAreAccounted
<1>1. IInv => StraysAreAccounted
  BY DEF IInv
<1> QED
  BY <1>1, Invariance, PTL
=============================================================================
