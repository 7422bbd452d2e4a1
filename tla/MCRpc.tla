-------------------------------- MODULE MCRpc --------------------------------
(* RpcTable for TLC: calls are model values, batches are sequences of them. *)
EXTENDS RpcTable, TLC

CONSTANTS c1, c2, c3

NoBatches == {}
OnePair == {<<c2, c3>>}
=============================================================================
