---------------------------- MODULE MCHookConfig ----------------------------
(* Two of the seven required events: one the user may have hooks for, and more. *)
EXTENDS HookConfig, TLC

CONSTANTS pre, stop

MCSymmetry == Permutations({pre, stop})
=============================================================================
