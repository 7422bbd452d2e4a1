--------------------------- MODULE AtMostOnceRpc ---------------------------
(***************************************************************************)
(* What MTNet promises to the callers of a request, whatever the server    *)
(* and the connection do: the server runs a request at most once, a caller *)
(* has an answer only for a request that has been run, and an outcome is   *)
(* final.  A failed request may still be run, before or after it failed:   *)
(* the promise is "at most once", not "exactly once".                      *)
(***************************************************************************)
CONSTANT Calls

VARIABLES
    state,  \* "none" (not made), "open", "answered" or "failed"
    run     \* the requests that the server has run

vars == <<state, run>>

TypeOK ==
    /\ state \in [Calls -> {"none", "open", "answered", "failed"}]
    /\ run \subseteq Calls

Init ==
    /\ state = [c \in Calls |-> "none"]
    /\ run = {}

\* Several requests may be made, or fail, in one step (a container, the loss
\* of the connection).
Move(cs, from, to) ==
    /\ \A c \in cs : state[c] = from
    /\ state' = [c \in Calls |-> IF c \in cs THEN to ELSE state[c]]
    /\ run' = run

Run(c) ==
    /\ state[c] # "none"
    /\ c \notin run
    /\ run' = run \cup {c}
    /\ state' = state

Next ==
    \/ \E cs \in SUBSET Calls : \/ Move(cs, "none", "open")
                                \/ Move(cs, "open", "failed")
                                \/ Move(cs \cap run, "open", "answered")
    \/ \E c \in Calls : Run(c)

Spec == Init /\ [][Next]_vars
=============================================================================
