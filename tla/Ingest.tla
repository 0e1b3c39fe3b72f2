------------------------------- MODULE Ingest -------------------------------
(***************************************************************************)
(* worker/ingest.py: how recordings that OBS and the encoder do not write  *)
(* as clips get into the incoming folder, where ClipPipeline takes over.   *)
(*                                                                         *)
(* Two threads: one promotes finished long recordings (a move to a         *)
(* .copying name, a pause, a rename), the other the instant replay, whose  *)
(* one file is overwritten again and again (a copy to a .copying name, a   *)
(* pause, a rename), by polling or when a trigger file is touched.  They   *)
(* race with the writers of those files and with the end of the process.   *)
(*                                                                         *)
(* A signature (size, mtime) is a number that grows with every write.  The *)
(* names in the incoming folder are taken to be distinct.                  *)
(***************************************************************************)
EXTENDS Integers, FiniteSets, Sequences

CONSTANTS
    Recordings,   \* long recordings
    MaxSize,      \* bound: writes to a recording
    MaxSig,       \* bound: writes to the instant replay
    MaxTouches,   \* bound: touches of each trigger file
    MaxFaults,    \* bound: failing moves, copies and renames
    MaxLives      \* bound: lives of the process

None == "none"

ASSUME IngestAssumption ==
    /\ IsFiniteSet(Recordings) /\ None \notin Recordings
    /\ {MaxSize, MaxSig, MaxLives} \subseteq Nat \ {0}
    /\ {MaxTouches, MaxFaults} \subseteq Nat

VARIABLES
    mode,    \* the settings: how either thread is woken, and the source's suffix
    up,      \* whether the worker runs
    lives, faults,
    rec,     \* each long recording: where it is, its size, whether it is open
    states,  \* _long_clips_scan_pass: what is remembered of each recording
    long,    \* the long-clips thread
    src,     \* the instant replay source
    ir,      \* the instant-replay thread
    last,    \* last_promoted (0: None), and what it was at the start
    trig,    \* the trigger files: their mtime, and the last one seen
    clips    \* what the instant-replay thread has put into the incoming folder

longVars == <<rec, states, long>>
replayVars == <<src, ir, last, clips>>
vars == <<mode, up, lives, faults, longVars, replayVars, trig>>

NoCopy == [sig |-> 0, torn |-> FALSE]
Touched(t) == trig[t].file # trig[t].seen
Fault == faults < MaxFaults /\ faults' = faults + 1
Sees(t) == trig' = [trig EXCEPT ![t].seen = trig[t].file]

Init ==
    /\ mode \in [replay : {"poll", "trigger"}, scan : {"periodic", "trigger"}, mkv : BOOLEAN]
    /\ up = TRUE /\ lives = 1 /\ faults = 0
    /\ rec = [r \in Recordings |-> [at |-> None, size |-> 0, open |-> FALSE]]
    /\ states = [r \in Recordings |-> [phase |-> None, size |-> 0]]
    /\ long = [pc |-> "wait", todo |-> {}, listed |-> {}, cur |-> None]
    /\ src = [sig |-> 0, present |-> FALSE, open |-> FALSE]
    /\ ir = [pc |-> "wait", copy |-> NoCopy]
    /\ last = [sig |-> 0, baseline |-> 0]
    /\ trig = [t \in {"replay", "scan"} |-> [file |-> 0, seen |-> 0]]
    /\ clips = <<>>

(***************************************************************************)
(* The writers, the operator and the process                               *)
(***************************************************************************)

RecordingGrows(r) ==
    /\ \/ rec[r].at = None
       \/ rec[r].open /\ rec[r].size < MaxSize
    /\ rec' = [rec EXCEPT ![r] = [at |-> IF @.at = None THEN "long" ELSE @.at,
                                  size |-> @.size + 1, open |-> TRUE]]
    /\ UNCHANGED <<mode, up, lives, faults, states, long, replayVars, trig>>

RecordingEnds(r) ==
    /\ rec[r].open
    /\ rec' = [rec EXCEPT ![r].open = FALSE]
    /\ UNCHANGED <<mode, up, lives, faults, states, long, replayVars, trig>>

SourceIsWritten ==
    /\ src.sig < MaxSig
    /\ src' = [sig |-> src.sig + 1, present |-> TRUE, open |-> TRUE]
    /\ UNCHANGED <<mode, up, lives, faults, longVars, ir, last, clips, trig>>

SourceIsClosed ==
    /\ src.open
    /\ src' = [src EXCEPT !.open = FALSE]
    /\ UNCHANGED <<mode, up, lives, faults, longVars, ir, last, clips, trig>>

SourceIsRemoved ==
    /\ src.present /\ ~src.open
    /\ src' = [src EXCEPT !.present = FALSE]
    /\ UNCHANGED <<mode, up, lives, faults, longVars, ir, last, clips, trig>>

Touch(t) ==
    /\ mode[IF t = "scan" THEN "scan" ELSE "replay"] = "trigger"
    /\ trig[t].file < MaxTouches
    /\ trig' = [trig EXCEPT ![t].file = @ + 1]
    /\ UNCHANGED <<mode, up, lives, faults, longVars, replayVars>>

(* A crash, or a shutdown that does not wait for the threads longer than a
   few seconds: the long-clips thread leaves its .copying file behind. *)
Ends ==
    /\ up /\ lives < MaxLives
    /\ up' = FALSE
    /\ long' = [pc |-> "wait", todo |-> {}, listed |-> {}, cur |-> None]
    /\ ir' = [pc |-> "wait", copy |-> NoCopy]
    /\ states' = [r \in Recordings |-> [phase |-> None, size |-> 0]]
    /\ UNCHANGED <<mode, lives, faults, rec, src, last, clips, trig>>

(* Mutant: a source that is there at the start counts as new. *)
Starts_NoBaseline ==
    /\ ~up
    /\ up' = TRUE /\ lives' = lives + 1
    /\ last' = [sig |-> 0, baseline |-> 0]
    /\ trig' = [t \in {"replay", "scan"} |-> [file |-> trig[t].file, seen |-> trig[t].file]]
    /\ UNCHANGED <<mode, faults, longVars, src, ir, clips>>

(* What is there at the start, of the source and of the triggers, is old. *)
Starts ==
    /\ ~up
    /\ up' = TRUE /\ lives' = lives + 1
    /\ LET old == IF src.present THEN src.sig ELSE 0
       IN  last' = [sig |-> old, baseline |-> old]
    /\ trig' = [t \in {"replay", "scan"} |-> [file |-> trig[t].file, seen |-> trig[t].file]]
    /\ UNCHANGED <<mode, faults, longVars, src, ir, clips>>

(***************************************************************************)
(* The long-clips thread                                                   *)
(***************************************************************************)

Entries == {r \in Recordings : rec[r].at = "long"}

ScanBegins ==
    /\ up /\ long.pc = "wait"
    /\ IF mode.scan = "trigger" THEN Touched("scan") /\ Sees("scan") ELSE UNCHANGED trig
    /\ long' = [pc |-> "scan", todo |-> Entries, listed |-> Entries, cur |-> None]
    /\ UNCHANGED <<mode, up, lives, faults, rec, states, replayVars>>

Scanning(r) == long.pc = "scan" /\ r \in long.todo
Skip(r) == long' = [long EXCEPT !.todo = @ \ {r}]
Changed(r) == states[r].phase = None \/ states[r].size # rec[r].size

(* Mutant: every pass begins to remember anew. *)
Notes_Forgets(r) ==
    /\ Scanning(r) /\ (Changed(r) \/ states[r].phase = "new")
    /\ states' = [states EXCEPT ![r] = [phase |-> "new", size |-> rec[r].size]]
    /\ Skip(r)
    /\ UNCHANGED <<mode, up, lives, faults, rec, replayVars, trig>>

(* A recording that is new, or has changed since the last pass, is noted; one
   that has not has its time of stability begin. *)
Notes(r) ==
    /\ Scanning(r) /\ (Changed(r) \/ states[r].phase = "new")
    /\ states' = [states EXCEPT ![r] = [phase |-> IF Changed(r) THEN "new" ELSE "timed",
                                        size |-> rec[r].size]]
    /\ Skip(r)
    /\ UNCHANGED <<mode, up, lives, faults, rec, replayVars, trig>>

(* long_clip_stable_seconds have passed. *)
StableTimePasses(r) ==
    /\ states[r].phase = "timed"
    /\ states' = [states EXCEPT ![r].phase = "ripe"]
    /\ UNCHANGED <<mode, up, lives, faults, rec, long, replayVars, trig>>

(* Not long enough, or still locked, or the move fails. *)
LongWaits(r) ==
    /\ Scanning(r) /\ ~Changed(r)
    /\ \/ states[r].phase = "timed" /\ UNCHANGED faults
       \/ states[r].phase = "ripe" /\ rec[r].open /\ UNCHANGED faults
       \/ states[r].phase = "ripe" /\ ~rec[r].open /\ Fault
    /\ Skip(r)
    /\ UNCHANGED <<mode, up, lives, rec, states, replayVars, trig>>

LongMoves(r) ==
    /\ Scanning(r) /\ ~Changed(r) /\ states[r].phase = "ripe" /\ ~rec[r].open
    /\ rec' = [rec EXCEPT ![r].at = "temp"]
    /\ long' = [long EXCEPT !.pc = "moved", !.todo = @ \ {r}, !.cur = r]
    /\ UNCHANGED <<mode, up, lives, faults, states, replayVars, trig>>

(* Mutant: all recordings are moved first and renamed by a later pass. *)
LongPublishes_Later ==
    /\ long.pc = "moved"
    /\ long' = [long EXCEPT !.pc = "scan", !.cur = None]
    /\ UNCHANGED <<mode, up, lives, faults, rec, states, replayVars, trig>>

(* The rename, which may fail: nothing looks for the .copying file again. *)
LongPublishes ==
    /\ long.pc = "moved"
    /\ long' = [long EXCEPT !.pc = "scan", !.cur = None]
    /\ \/ /\ rec' = [rec EXCEPT ![long.cur].at = "clip"]
          /\ states' = [states EXCEPT ![long.cur].phase = None]
          /\ UNCHANGED faults
       \/ Fault /\ UNCHANGED <<rec, states>>
    /\ UNCHANGED <<mode, up, lives, replayVars, trig>>

(* What the pass did not see is forgotten. *)
ScanEnds ==
    /\ long.pc = "scan" /\ long.todo = {}
    /\ long' = [long EXCEPT !.pc = "wait", !.listed = {}]
    /\ states' = [r \in Recordings |->
                    IF r \in long.listed THEN states[r] ELSE [phase |-> None, size |-> 0]]
    /\ UNCHANGED <<mode, up, lives, faults, rec, replayVars, trig>>

(***************************************************************************)
(* The instant-replay thread                                               *)
(***************************************************************************)

(* A source that is gone is forgotten, so that it is new when it is back. *)
PollForgets ==
    /\ up /\ mode.replay = "poll" /\ ir.pc = "wait" /\ ~src.present
    /\ last.sig # 0
    /\ last' = [last EXCEPT !.sig = 0]
    /\ UNCHANGED <<mode, up, lives, faults, longVars, src, ir, clips, trig>>

PollSees ==
    /\ up /\ mode.replay = "poll" /\ ir.pc = "wait" /\ src.present
    /\ src.sig # last.sig
    /\ ir' = [pc |-> "settle", copy |-> [sig |-> src.sig, torn |-> FALSE]]
    /\ UNCHANGED <<mode, up, lives, faults, longVars, src, last, clips, trig>>

(* The trigger's mtime is noted before anything is known of the source. *)
TriggerSeen ==
    /\ up /\ mode.replay = "trigger" /\ ir.pc = "wait" /\ Touched("replay")
    /\ Sees("replay")
    /\ ir' = [pc |-> "settle", copy |-> [sig |-> src.sig, torn |-> FALSE]]
    /\ UNCHANGED <<mode, up, lives, faults, longVars, src, last, clips>>

(* wait_until_stable_with_timing raises, or the source is gone. *)
GivesUp ==
    /\ \/ ir.pc = "settle" /\ (src.open \/ ~src.present \/ src.sig # ir.copy.sig)
       \/ ir.pc = "settled" /\ ~src.present
    /\ ir' = [pc |-> "wait", copy |-> NoCopy]
    /\ UNCHANGED <<mode, up, lives, faults, longVars, src, last, clips, trig>>

(* It returns: nobody had the source open.  What comes next does not look. *)
Settles ==
    /\ ir.pc = "settle" /\ src.present /\ ~src.open
    /\ ir' = [ir EXCEPT !.pc = "settled"]
    /\ UNCHANGED <<mode, up, lives, faults, longVars, src, last, clips, trig>>

(* Stable, but promoted already, or not a file to be ingested. *)
Declines ==
    /\ ir.pc = "settled" /\ src.present
    /\ src.sig = last.sig \/ mode.mkv
    /\ last' = [last EXCEPT !.sig = src.sig]
    /\ ir' = [pc |-> "wait", copy |-> NoCopy]
    /\ UNCHANGED <<mode, up, lives, faults, longVars, src, clips, trig>>

CopyBegins ==
    /\ ir.pc = "settled" /\ src.present
    /\ src.sig # last.sig /\ ~mode.mkv
    /\ ir' = [pc |-> "copying", copy |-> [sig |-> src.sig, torn |-> FALSE]]
    /\ UNCHANGED <<mode, up, lives, faults, longVars, src, last, clips, trig>>

(* The copy may fail; what it read may be of two writes. *)
CopyEnds ==
    /\ ir.pc = "copying"
    /\ \/ /\ src.present
          /\ ir' = [ir EXCEPT !.pc = "copied", !.copy.torn = src.sig # ir.copy.sig]
          /\ UNCHANGED faults
       \/ /\ ~src.present /\ UNCHANGED faults
          /\ ir' = [pc |-> "wait", copy |-> NoCopy]
       \/ Fault /\ ir' = [pc |-> "wait", copy |-> NoCopy]
    /\ UNCHANGED <<mode, up, lives, longVars, src, last, clips, trig>>

(* Mutant: the signature is read after the copy. *)
ReplayPublishes_SigAfter ==
    /\ ir.pc = "copied"
    /\ ir' = [pc |-> "wait", copy |-> NoCopy]
    /\ \/ /\ clips' = Append(clips, ir.copy)
          /\ last' = [last EXCEPT !.sig = src.sig]
          /\ UNCHANGED faults
       \/ Fault /\ UNCHANGED <<clips, last>>
    /\ UNCHANGED <<mode, up, lives, longVars, src, trig>>

(* The rename; when it fails the copy is unlinked and the source is still new. *)
ReplayPublishes ==
    /\ ir.pc = "copied"
    /\ ir' = [pc |-> "wait", copy |-> NoCopy]
    /\ \/ /\ clips' = Append(clips, ir.copy)
          /\ last' = [last EXCEPT !.sig = ir.copy.sig]
          /\ UNCHANGED faults
       \/ Fault /\ UNCHANGED <<clips, last>>
    /\ UNCHANGED <<mode, up, lives, longVars, src, trig>>

LongThread ==
    \/ ScanBegins \/ ScanEnds \/ LongPublishes
    \/ \E r \in Recordings : Notes(r) \/ LongWaits(r) \/ LongMoves(r)

ReplayThread ==
    \/ PollForgets \/ PollSees \/ TriggerSeen \/ GivesUp \/ Settles
    \/ Declines \/ CopyBegins \/ CopyEnds \/ ReplayPublishes

Next ==
    \/ \E r \in Recordings : RecordingGrows(r) \/ RecordingEnds(r) \/ StableTimePasses(r)
    \/ SourceIsWritten \/ SourceIsClosed \/ SourceIsRemoved
    \/ \E t \in {"replay", "scan"} : Touch(t)
    \/ Ends \/ Starts
    \/ LongThread \/ ReplayThread

Spec ==
    /\ Init /\ [][Next]_vars
    /\ WF_vars(LongThread) /\ WF_vars(ReplayThread)
    /\ WF_vars(Starts) /\ WF_vars(SourceIsClosed)
    /\ \A r \in Recordings : WF_vars(StableTimePasses(r))

(***************************************************************************)
(* Properties                                                              *)
(***************************************************************************)

TypeOK ==
    /\ mode \in [replay : {"poll", "trigger"}, scan : {"periodic", "trigger"}, mkv : BOOLEAN]
    /\ up \in BOOLEAN /\ lives \in 1 .. MaxLives /\ faults \in 0 .. MaxFaults
    /\ rec \in [Recordings -> [at : {None, "long", "temp", "clip"}, size : 0 .. MaxSize,
                               open : BOOLEAN]]
    /\ states \in [Recordings -> [phase : {None, "new", "timed", "ripe"}, size : 0 .. MaxSize]]
    /\ long \in [pc : {"wait", "scan", "moved"}, todo : SUBSET Recordings,
                 listed : SUBSET Recordings, cur : Recordings \cup {None}]
    /\ src \in [sig : 0 .. MaxSig, present : BOOLEAN, open : BOOLEAN]
    /\ ir \in [pc : {"wait", "settle", "settled", "copying", "copied"},
               copy : [sig : 0 .. MaxSig, torn : BOOLEAN]]
    /\ last \in [sig : 0 .. MaxSig, baseline : 0 .. MaxSig]
    /\ trig \in [{"replay", "scan"} -> [file : 0 .. MaxTouches, seen : 0 .. MaxTouches]]
    /\ clips \in Seq([sig : 1 .. MaxSig, torn : BOOLEAN])

Stray(r) == rec[r].at = "temp" /\ long.cur # r

(* A recording is left under a .copying name, which every scan ignores, only
   by an end of the process or a failing rename: one for each. *)
StraysAreAccounted ==
    Cardinality({r \in Recordings : Stray(r)}) <= faults + (lives - 1) + (IF up THEN 0 ELSE 1)

(* No write of the instant replay becomes two clips, in one life or in two. *)
NoReplayTwice ==
    \A i, j \in DOMAIN clips : clips[i].sig = clips[j].sig => i = j

(* With periodic scans a finished recording gets out of long_clips, if only
   to be stranded. *)
EveryRecordingLeaves ==
    \A r \in Recordings :
        (rec[r].at = "long" /\ ~rec[r].open /\ mode.scan = "periodic") ~> (rec[r].at # "long")

Whole(s) == \E i \in DOMAIN clips : clips[i] = [sig |-> s, torn |-> FALSE]
Waiting(s) == up /\ ~mode.mkv /\ src.sig = s /\ src.present /\ s # last.baseline
Overtaken(s) == src.sig # s \/ ~src.present \/ ~up

(* In poll mode the last write of the source becomes a whole clip, even when
   a copy before it was torn by that very write, or has failed. *)
EveryReplayArrives ==
    \A s \in 1 .. MaxSig :
        (mode.replay = "poll" /\ Waiting(s)) ~> (Whole(s) \/ Overtaken(s))
=============================================================================
