---------------------------- MODULE MCCompletion ----------------------------
(* Instances of Completion for TLC: every dialect, and both operations. *)
EXTENDS Completion
=============================================================================
