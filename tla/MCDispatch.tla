----------------------------- MODULE MCDispatch -----------------------------
(* Dispatch for TLC: two messages of one user, two conversations. *)
EXTENDS Dispatch, TLC

CONSTANTS m1, m2, u1

Authors == (m1 :> u1) @@ (m2 :> u1)
=============================================================================
