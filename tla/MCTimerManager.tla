-------------------------- MODULE MCTimerManager --------------------------
(* Small instances of TimerManager for TLC; the constants are in the cfgs. *)
EXTENDS TimerManager

=============================================================================
