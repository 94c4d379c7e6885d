---------------------------- MODULE MCMessaging ----------------------------
(* Instances of Messaging for TLC: each publishing call has a goroutine. *)
EXTENDS Messaging

CONSTANTS m1, m2, m3, k1, k2
=============================================================================
