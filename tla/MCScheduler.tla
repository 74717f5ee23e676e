---------------------------- MODULE MCScheduler ----------------------------
(* Small instances of Scheduler for TLC; the constants are in the cfgs.    *)
EXTENDS Scheduler, TLC

(* The pool threads are alike; sound for safety only. *)
Symmetry == Permutations(Workers)

=============================================================================
