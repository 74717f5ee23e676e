------------------------------ MODULE MCHookIo ------------------------------
(* Small instances of HookIo for TLC; the constants are in the cfgs.       *)
EXTENDS HookIo

=============================================================================
