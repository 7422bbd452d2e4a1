---------------------------- MODULE DataCentres ----------------------------
(***************************************************************************)
(* Calls to a data centre other than the home one: MTNet.call_dc and       *)
(* _open_dc, with the two that disturb them, _switch_home_dc, which closes *)
(* every sender, and a parallel download (_file_dc_senders), which         *)
(* authorises a key of its own without taking the lock.                    *)
(*                                                                         *)
(* The data centres do not share state, so there is one.  It may revoke a  *)
(* key at any time, though not while the answer to the import of that key  *)
(* travels.  Its endpoint is reachable, so a sender always speaks to it.   *)
(***************************************************************************)
EXTENDS Integers, Sequences

CONSTANTS
  Tasks,      \* the calls
  MaxKeys,    \* bound: keys made
  MaxSenders, \* bound: connections made
  MaxFaults   \* bound: connections lost, requests failed, upsets switched

\* What the constants are; MCParts assumes it of their values.
DataCentresAssumption ==
  {MaxKeys, MaxSenders, MaxFaults} \subseteq Nat /\ 0 \notin Tasks

VARIABLES
  key,      \* dc_auth_keys[dc]; 0 for none
  sender,   \* _dc_senders[dc]; 0 for none
  keyOf,    \* the key of every sender there has been
  open,     \* the senders with a connection
  lost,     \* the senders whose reader is reconnecting
  lock,     \* the task that holds _dc_locks[dc]; 0 for none
  pc,
  mine,     \* the sender that the task uses
  auth,     \* the key that the task opens a sender with; 0 for a new one
  again,    \* has the task been refused once
  file,     \* the key that a download is authorising; 0 for none
  made,     \* keys made
  revoked,  \* the keys that the data centre does not know any more
  upsets,   \* lost connections and home switches so far
  began,    \* what had been revoked, and the upsets, when the call began
  faults

network == <<keyOf, open, lost>>
server == <<made, revoked>>
task == <<pc, mine, auth, again, began>>
vars == <<key, sender, network, lock, task, file, server, upsets, faults>>

Fault == faults < MaxFaults /\ faults' = faults + 1

Init ==
  /\ key = 0 /\ sender = 0
  /\ keyOf = <<>> /\ open = {} /\ lost = {}
  /\ lock = 0
  /\ pc = [t \in Tasks |-> "idle"]
  /\ mine = [t \in Tasks |-> 0] /\ auth = [t \in Tasks |-> 0]
  /\ again = [t \in Tasks |-> FALSE]
  /\ began = [t \in Tasks |-> [revoked |-> {}, upsets |-> 0]]
  /\ file = 0 /\ made = 0 /\ revoked = {} /\ upsets = 0
  /\ faults = 0

Go(t, p) == pc' = [pc EXCEPT ![t] = p]

Begin(t) ==
  /\ pc[t] = "idle" /\ Go(t, "want")
  /\ began' = [began EXCEPT ![t] = [revoked |-> revoked, upsets |-> upsets]]
  /\ UNCHANGED <<key, sender, network, lock, mine, auth, again, file, server, upsets, faults>>

\* Some of the calls that wait for an answer of sender s end with p; those
\* that have not been sent yet do not notice.
Interrupt(s, p, others) ==
  \E cut \in SUBSET {t \in others : pc[t] = "call" /\ mine[t] = s} :
    pc' = [t \in Tasks |-> IF t \in cut THEN p ELSE pc[t]]

\* Under the lock: use the registered sender if it has a connection, else open
\* one, with the key that there is.
Use(t) ==
  /\ IF sender \in open
       THEN /\ mine' = [mine EXCEPT ![t] = sender] /\ Go(t, "call") /\ lock' = 0
            /\ UNCHANGED auth
       ELSE /\ auth' = [auth EXCEPT ![t] = key] /\ Go(t, "open") /\ lock' = t
            /\ UNCHANGED mine
  /\ UNCHANGED <<key, sender, network, again, began, file, server, upsets, faults>>

Enter(t) ==
  /\ pc[t] = "want" /\ lock = 0
  /\ again[t] => sender # mine[t]
  /\ Use(t)

\* Mutant: the task takes back whatever sender is registered.
DiscardAny(t) ==
  /\ pc[t] = "want" /\ lock = 0 /\ again[t] /\ sender # 0
  /\ lock' = t
  /\ sender' = 0 /\ key' = 0
  /\ open' = open \ {sender} /\ lost' = lost \ {sender}
  /\ \E cut \in SUBSET {u \in Tasks \ {t} : pc[u] = "call" /\ mine[u] = sender} :
       pc' = [u \in Tasks |-> IF u \in cut THEN "cut"
                              ELSE IF u = t THEN "closed" ELSE pc[u]]
  /\ UNCHANGED <<keyOf, mine, auth, again, began, file, server, upsets, faults>>

\* A refused task takes the sender it was refused on out of use, if no other
\* task has: its key goes, close cancels what the others wait for.
Discard(t) ==
  /\ pc[t] = "want" /\ lock = 0 /\ again[t] /\ sender = mine[t]
  /\ lock' = t
  /\ sender' = 0 /\ key' = 0
  /\ open' = open \ {sender} /\ lost' = lost \ {sender}
  /\ \E cut \in SUBSET {u \in Tasks \ {t} : pc[u] = "call" /\ mine[u] = sender} :
       pc' = [u \in Tasks |-> IF u \in cut THEN "cut"
                              ELSE IF u = t THEN "closed" ELSE pc[u]]
  /\ UNCHANGED <<keyOf, mine, auth, again, began, file, server, upsets, faults>>

Discarded(t) == pc[t] = "closed" /\ Use(t)

\* A new connection: it is used at once with a key that was there, and has to
\* import the authorisation for a new one.
Connect(t) ==
  /\ pc[t] = "open" /\ Len(keyOf) < MaxSenders
  /\ IF auth[t] # 0
       THEN /\ keyOf' = Append(keyOf, auth[t])
            /\ sender' = Len(keyOf') /\ lock' = 0 /\ Go(t, "call")
            /\ UNCHANGED made
       ELSE /\ made < MaxKeys /\ made' = made + 1
            /\ keyOf' = Append(keyOf, made') /\ Go(t, "import")
            /\ UNCHANGED <<sender, lock>>
  /\ mine' = [mine EXCEPT ![t] = Len(keyOf')]
  /\ auth' = [auth EXCEPT ![t] = 0]
  /\ open' = open \union {Len(keyOf')}
  /\ UNCHANGED <<key, lost, again, began, file, revoked, upsets, faults>>

Import(t) ==
  /\ pc[t] = "import" /\ keyOf[mine[t]] \notin revoked
  /\ key' = keyOf[mine[t]] /\ sender' = mine[t]
  /\ lock' = 0 /\ Go(t, "call")
  /\ UNCHANGED <<network, mine, auth, again, began, file, server, upsets, faults>>

\* The import of a revoked key is refused.  At a bound there is nothing to open.
CannotOpen(t) ==
  \/ pc[t] = "import" /\ keyOf[mine[t]] \in revoked
  \/ pc[t] = "open" /\ (Len(keyOf) = MaxSenders \/ (auth[t] = 0 /\ made = MaxKeys))

\* Mutant: the lock is not given back when opening fails.
OpenFailsLocked(t) ==
  /\ pc[t] \in {"open", "import"}
  /\ IF CannotOpen(t) THEN UNCHANGED faults ELSE Fault
  /\ open' = IF pc[t] = "import" THEN open \ {mine[t]} ELSE open
  /\ Go(t, "failed")
  /\ UNCHANGED <<key, sender, keyOf, lost, lock, mine, auth, again, began, file, server, upsets>>

\* Opening fails: the new sender is closed, the call ends.
OpenFails(t) ==
  /\ pc[t] \in {"open", "import"}
  /\ IF CannotOpen(t) THEN UNCHANGED faults ELSE Fault
  /\ open' = IF pc[t] = "import" THEN open \ {mine[t]} ELSE open
  /\ lock' = 0 /\ Go(t, "failed")
  /\ UNCHANGED <<key, sender, keyOf, lost, mine, auth, again, began, file, server, upsets>>

\* The request brings a closed or lost connection up again.
Revived(t) == open' = open \union {mine[t]} /\ lost' = lost \ {mine[t]}

Answered(t) ==
  /\ pc[t] = "call" /\ keyOf[mine[t]] \notin revoked
  /\ Revived(t) /\ Go(t, "done")
  /\ UNCHANGED <<key, sender, keyOf, lock, mine, auth, again, began, file, server, upsets, faults>>

\* AUTH_KEY_UNREGISTERED or SESSION_REVOKED: once more, and that is all.
Refused(t) ==
  /\ pc[t] = "call" /\ keyOf[mine[t]] \in revoked
  /\ Revived(t) /\ Go(t, IF again[t] THEN "refused" ELSE "want")
  /\ again' = [again EXCEPT ![t] = TRUE]
  /\ UNCHANGED <<key, sender, keyOf, lock, mine, auth, began, file, server, upsets, faults>>

\* Any other failure of the request, a timeout included.
Fails(t) ==
  /\ pc[t] = "call" /\ Fault /\ Go(t, "failed")
  /\ UNCHANGED <<key, sender, network, lock, mine, auth, again, began, file, server, upsets>>

Lose(s) ==
  /\ s \in open /\ Fault /\ upsets' = upsets + 1
  /\ open' = open \ {s} /\ lost' = lost \union {s}
  /\ Interrupt(s, "failed", Tasks)
  /\ UNCHANGED <<key, sender, keyOf, lock, mine, auth, again, began, file, server>>

Reconnect(s) ==
  /\ s \in lost /\ lost' = lost \ {s} /\ open' = open \union {s}
  /\ UNCHANGED <<key, sender, keyOf, lock, task, file, server, upsets, faults>>

\* _switch_home_dc closes the home connection, so that an export ends, and the
\* registered sender.  One that is being opened is in no table.
SwitchHome ==
  /\ Fault /\ upsets' = upsets + 1
  /\ sender' = 0
  /\ \E cut \in SUBSET {t \in Tasks : pc[t] = "call" /\ mine[t] = sender} :
     \E stop \in SUBSET {t \in Tasks : pc[t] = "import"} :
       /\ pc' = [t \in Tasks |-> IF t \in cut \union stop THEN "cut" ELSE pc[t]]
       /\ open' = open \ ({sender} \union {mine[t] : t \in stop})
       /\ lock' = IF stop = {} THEN lock ELSE 0
  /\ lost' = lost \ {sender}
  /\ UNCHANGED <<key, keyOf, mine, auth, again, began, file, server>>

\* A parallel download makes a key of its own when there is none.
FileKey ==
  /\ file = 0 /\ key = 0 /\ made < MaxKeys
  /\ made' = made + 1 /\ file' = made'
  /\ UNCHANGED <<key, sender, network, lock, task, revoked, upsets, faults>>

FileImport ==
  /\ file # 0 /\ file' = 0
  /\ \/ file \notin revoked /\ key' = file
     \/ UNCHANGED key
  /\ UNCHANGED <<sender, network, lock, task, server, upsets, faults>>

Revoke(k) ==
  /\ k \in 1 .. made /\ k \notin revoked
  /\ revoked' = revoked \union {k}
  /\ UNCHANGED <<key, sender, network, lock, task, file, made, upsets, faults>>

TaskStep(t) ==
  \/ Enter(t) \/ Discard(t) \/ Discarded(t) \/ Connect(t) \/ Import(t)
  \/ OpenFails(t) \/ Answered(t) \/ Refused(t)

Next ==
  \/ \E t \in Tasks : TaskStep(t) \/ Begin(t) \/ Fails(t)
  \/ \E s \in 1 .. Len(keyOf) : Lose(s) \/ Reconnect(s)
  \/ \E k \in 1 .. made : Revoke(k)
  \/ SwitchHome \/ FileKey \/ FileImport

Spec == Init /\ [][Next]_vars

\* The event loop runs what can run, and requests are answered.
LiveSpec == Spec /\ \A t \in Tasks : WF_vars(TaskStep(t))

-----------------------------------------------------------------------------
(* Properties *)

\* The types of the variables.
TypeOK ==
  /\ {key, file} \subseteq 0 .. made /\ made \in 0 .. MaxKeys
  /\ keyOf \in Seq(1 .. made) /\ Len(keyOf) <= MaxSenders
  /\ sender \in 0 .. Len(keyOf)
  /\ open \subseteq 1 .. Len(keyOf) /\ lost \subseteq 1 .. Len(keyOf) \ open
  /\ revoked \subseteq 1 .. made
  /\ lock \in Tasks \union {0}
  /\ pc \in [Tasks -> {"idle", "want", "closed", "open", "import", "call",
                       "done", "refused", "failed", "cut"}]

\* Unless a connection was lost or the home switched while it ran, a call ends
\* with a refusal only if the key it was refused with last was good when it
\* began, and is cancelled by another task only for a key that is refused.  So
\* nobody gives up because of a key that was known to be bad, and nobody takes
\* a good sender away from its users.
FailuresHaveCause ==
  \A t \in Tasks : upsets = began[t].upsets =>
    /\ pc[t] = "refused" => keyOf[mine[t]] \notin began[t].revoked
    /\ pc[t] = "cut" => keyOf[mine[t]] \in revoked

\* Every call ends: a task that fails in the middle of opening a sender leaves
\* the lock free for the others.
CallsEnd ==
  \A t \in Tasks :
    pc[t] = "want" ~> pc[t] \in {"done", "refused", "failed", "cut"}
=============================================================================
