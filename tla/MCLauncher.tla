----------------------------- MODULE MCLauncher -----------------------------
(* Instances of Launcher for TLC. *)
EXTENDS Launcher, TLC

(* What the operator may ask for. *)
MCIntents == {[act |-> "stop", app |-> "obs"], [act |-> "restart", app |-> "encoder_watchdog"]}
=============================================================================
