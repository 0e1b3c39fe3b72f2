----------------------------- MODULE ClipLedger -----------------------------
(***************************************************************************)
(* What the clip pipeline promises to those who read its job store and the *)
(* services it feeds, whatever threads, queues, folders and retries lie    *)
(* behind it: a ledger of clips.  An entry is opened once; the services    *)
(* are told of a clip in a fixed order; it is completed when all that      *)
(* matters was told; and only the operator opens a completed entry again.  *)
(* ClipPipeline implements this module.                                    *)
(***************************************************************************)
EXTENDS Naturals

CONSTANT Keys       \* the clips, by idempotency key

VARIABLES
    status,         \* the entry of each clip
    told,           \* the clips each service was told of, by step
    commands        \* retry-booking commands given so far

vars == <<status, told, commands>>

(* The steps other services see, and those each of them comes after. *)
After == [original |-> {}, previewUp |-> {"original"}, row |-> {"original", "previewUp"},
          booking |-> {"original", "previewUp", "row"}]
Services == DOMAIN After

(* What a completed clip has behind it; a booking may never be found. *)
Required == {"original", "previewUp", "row"}

Init ==
    /\ status = [k \in Keys |-> "none"]
    /\ told = [s \in Services |-> {}]
    /\ commands = 0

Set(k, s) == status' = [status EXCEPT ![k] = s]

Register(k) ==
    /\ status[k] = "none" /\ Set(k, "open")
    /\ UNCHANGED <<told, commands>>

(* A call may be repeated: the services are told of a clip at least once. *)
Tell(k, s) ==
    /\ status[k] # "none"
    /\ \A r \in After[s] : k \in told[r]
    /\ told' = [told EXCEPT ![s] = @ \cup {k}]
    /\ UNCHANGED <<status, commands>>

Complete(k) ==
    /\ status[k] # "none"
    /\ \A s \in Required : k \in told[s]
    /\ Set(k, "completed")
    /\ UNCHANGED <<told, commands>>

(* The drain may give up a clip that is completed by now. *)
Fail(k) ==
    /\ status[k] # "none" /\ Set(k, "failed")
    /\ UNCHANGED <<told, commands>>

(* A thread that had the clip when it was failed may still defer it. *)
Revive(k) ==
    /\ status[k] = "failed" /\ Set(k, "open")
    /\ UNCHANGED <<told, commands>>

Command(k) ==
    /\ status[k] # "none" /\ Set(k, "open")
    /\ commands' = commands + 1
    /\ UNCHANGED told

Next ==
    \E k \in Keys :
        \/ Register(k) \/ Complete(k) \/ Fail(k) \/ Revive(k) \/ Command(k)
        \/ \E s \in Services : Tell(k, s)

Spec == Init /\ [][Next]_vars
=============================================================================
