------------------------------ MODULE MCIntake ------------------------------
(* BotIntake for TLC. *)
EXTENDS BotIntake
=============================================================================
