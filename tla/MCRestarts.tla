----------------------------- MODULE MCRestarts -----------------------------
(* Two sessions, a group, two starts in three days and an expiry of one day;  *)
(* three files of transcripts of two sessions, of which the two newest are    *)
(* read, and short texts.                                                     *)
EXTENDS Restarts, TLC

CONSTANTS a, b, f1, f2, f3, none
MCSymmetry == Permutations({a, b}) \cup Permutations({f1, f2, f3})
=============================================================================
