---------------------------- MODULE MCIOManager ----------------------------
(* Small instances of IOManager for TLC; the constants are in the cfgs.    *)
EXTENDS IOManager, TLC

(* Threads, and fibers that are not callbacks, are interchangeable. *)
Symmetry == Permutations(Threads) \cup Permutations(Fibers \ Callbacks)

=============================================================================
