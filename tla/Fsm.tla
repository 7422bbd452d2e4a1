-------------------------------- MODULE Fsm --------------------------------
(***************************************************************************)
(* The state machine for conversations, core/fsm.py: a state per chat and  *)
(* user that expires, and a backend that is given the whole table at every *)
(* change and is read at the start.  Saving may raise an error.            *)
(***************************************************************************)
EXTENDS Integers

CONSTANTS
  Keys,     \* pairs of chat and user
  Ttls,     \* times to live that are asked for
  MaxTime,  \* bound: the clock
  MaxSaves  \* bound: saves that fail

\* What the constants are; MCParts assumes it of their values.
FsmAssumption == Ttls \subseteq Nat /\ {MaxTime, MaxSaves} \subseteq Nat

VARIABLES
  now,     \* time.time()
  states,  \* the table: the data given and the expiry
  saved,   \* what the backend holds
  up,      \* is the engine running
  behind,  \* did the last save fail, or was the engine started without a restore
  fails    \* saves that failed

vars == <<now, states, saved, up, behind, fails>>

None == [data |-> {}, expiry |-> -1]
Empty == [k \in Keys |-> None]

Init ==
  /\ now = 0 /\ states = Empty /\ saved = Empty
  /\ up = FALSE /\ behind = FALSE /\ fails = 0

\* snapshot and restore take what expires later than now.
Living(table) == [k \in Keys |-> IF table[k].expiry > now THEN table[k] ELSE None]

\* _changed
Changed(table) ==
  /\ states' = table
  /\ \/ saved' = Living(table) /\ behind' = FALSE /\ UNCHANGED fails
     \/ /\ fails < MaxSaves /\ fails' = fails + 1
        /\ behind' = TRUE /\ UNCHANGED saved
  /\ UNCHANGED <<now, up>>

\* set: the data is added to that of a state that lives.  A datum is the
\* time at which it was given.
Set(k, ttl) ==
  /\ up
  /\ Changed([states EXCEPT ![k] =
       [data |-> (IF @.expiry > now THEN @.data ELSE {}) \union {now},
        expiry |-> now + ttl]])

\* get and get_data drop what has expired.
Get(k) ==
  /\ up /\ states[k] # None /\ now > states[k].expiry
  /\ Changed([states EXCEPT ![k] = None])

\* Mutant: clear tells the backend nothing.
ClearInMemory(k) ==
  /\ up /\ states' = [states EXCEPT ![k] = None]
  /\ UNCHANGED <<now, saved, up, behind, fails>>

Clear(k) == up /\ Changed([states EXCEPT ![k] = None])

\* _cleanup_loop
Cleanup ==
  /\ up /\ \E k \in Keys : states[k] # None /\ now > states[k].expiry
  /\ Changed([k \in Keys |-> IF now > states[k].expiry THEN None ELSE states[k]])

\* A crash, or stop, which saves nothing.
Stop ==
  /\ up /\ up' = FALSE /\ states' = Empty
  /\ UNCHANGED <<now, saved, behind, fails>>

\* A new process restores the table; start on a stopped engine does not.
Start ==
  /\ ~up /\ up' = TRUE
  /\ \/ states' = Living(saved) /\ behind' = FALSE
     \/ states' = Empty /\ behind' = TRUE
  /\ UNCHANGED <<now, saved, fails>>

Tick == now < MaxTime /\ now' = now + 1 /\ UNCHANGED <<states, saved, up, behind, fails>>

Next ==
  \/ \E k \in Keys : (\E ttl \in Ttls : Set(k, ttl)) \/ Get(k) \/ Clear(k)
  \/ Cleanup \/ Stop \/ Start \/ Tick

Spec == Init /\ [][Next]_vars

-----------------------------------------------------------------------------
(* Properties *)

\* The types of the variables.
TypeOK ==
  /\ now \in 0 .. MaxTime /\ fails \in 0 .. MaxSaves
  /\ {states, saved} \subseteq
       [Keys -> [data : SUBSET (0 .. MaxTime), expiry : Nat \union {-1}]]
  /\ up \in BOOLEAN /\ behind \in BOOLEAN

\* Unless the backend is known to be behind, a restart at any moment finds the
\* states that live now, with their data, and no other: one that was cleared or has
\* expired does not come back.  (At the very time of its expiry a state lives
\* for get and does not for a restart; Living decides.)
SurvivesRestart == up /\ ~behind => Living(saved) = Living(states)
=============================================================================
