---------------------------- MODULE MCConnection ----------------------------
(* Connection for TLC. *)
EXTENDS Connection, TLC

CONSTANTS c1, c2
=============================================================================
