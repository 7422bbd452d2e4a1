----------------------------- MODULE BotIntake -----------------------------
(***************************************************************************)
(* How updates of the Bot API reach the bus: BotNet of                     *)
(* goygram/transports/botapi.py, by polling (spin) or by a webhook         *)
(* (_webhook_request), over restarts of the process.                       *)
(*                                                                         *)
(* Updates are the numbers 1 .. srv.  The server forgets one when a later  *)
(* getUpdates asks for what comes after it, or when its webhook request is *)
(* answered.                                                               *)
(***************************************************************************)
EXTENDS Integers, Sequences, FiniteSets

CONSTANTS
  Posts,      \* webhook requests that can be under way at one time
  BatchMax,   \* a getUpdates answers with at most so many updates
  BusMax,     \* the bus blocks whoever pushes to it when it holds so many
  SeenMax,    \* size at which webhook_seen is trimmed (4096 in the code)
  Keep,       \* ... and how far below the highest id it reaches then (2048)
  Retries,    \* how often a rate-limited request is sent again (5)
  MaxUpd,     \* bound: updates of the server
  MaxFaults   \* bound: failed requests and writes, lost answers, stops

ASSUME IntakeAssumption ==
  /\ IsFiniteSet(Posts)
  /\ {BatchMax, BusMax} \subseteq Nat \ {0}
  /\ {SeenMax, Keep, Retries, MaxUpd, MaxFaults} \subseteq Nat

VARIABLES
  srv,      \* the updates the server has made
  open,     \* those it has not forgotten
  hooked,   \* a webhook is registered with the server
  mode,     \* is the client configured to poll or to serve a webhook
  pc,       \* what the client is doing
  attempt,  \* how often the request was rate-limited
  off,      \* self.off
  file,     \* the offset file; 0 when there is none
  batch,    \* updates of the last answer that spin has not handled yet
  post,     \* the webhook requests under way
  seen,     \* webhook_seen
  highest,  \* webhook_highest_update_id
  bus,      \* what is queued; an error report is 0
  here,     \* history: updates pushed since the process started
  ever,     \* history: updates pushed at any time
  faults    \* failures so far

server == <<srv, open, hooked>>
poller == <<attempt, off, file, batch>>
webhook == <<post, seen, highest>>
pushed == <<bus, here, ever>>
vars == <<server, mode, pc, poller, webhook, pushed, faults>>

Updates == 1 .. MaxUpd
NoPost == [upd |-> 0, at |-> "none"]

\* The types of the variables.
TypeOK ==
  /\ srv \in 0 .. MaxUpd /\ open \subseteq 1 .. srv
  /\ hooked \in BOOLEAN /\ mode \in {"poll", "hook"}
  /\ pc \in {"down", "ask", "batch", "save", "error", "serve"}
  /\ attempt \in 0 .. Retries
  /\ off \in 0 .. MaxUpd + 1 /\ file \in 0 .. MaxUpd + 1
  /\ batch \subseteq 1 .. srv
  /\ post \in [Posts -> [upd : 0 .. MaxUpd, at : {"none", "lock", "push", "reply"}]]
  /\ seen \subseteq Updates /\ highest \in -1 .. MaxUpd
  /\ bus \in Seq(0 .. MaxUpd)
  /\ here \subseteq ever /\ ever \subseteq 1 .. srv
  /\ faults \in 0 .. MaxFaults

Init ==
  /\ srv = 0 /\ open = {} /\ hooked \in BOOLEAN
  /\ mode \in {"poll", "hook"}
  /\ pc = "down" /\ attempt = 0 /\ off = 0 /\ file = 0 /\ batch = {}
  /\ post = [p \in Posts |-> NoPost]
  /\ seen = {} /\ highest = -1
  /\ bus = <<>> /\ here = {} /\ ever = {}
  /\ faults = 0

-----------------------------------------------------------------------------
(* Helpers *)

Fault == faults < MaxFaults /\ faults' = faults + 1

First(S, n) == {u \in S : Cardinality({v \in S : v < u}) < n}
IsNext(u) == u \in batch /\ \A v \in batch : u <= v
Max2(a, b) == IF a > b THEN a ELSE b

\* Bus.push waits for room.
Push(u) ==
  /\ Len(bus) < BusMax
  /\ bus' = Append(bus, u)
  /\ here' = here \cup ({u} \ {0})
  /\ ever' = ever \cup ({u} \ {0})

-----------------------------------------------------------------------------
(* The server, and whoever consumes the bus *)

NewUpdate ==
  /\ srv < MaxUpd
  /\ srv' = srv + 1 /\ open' = open \cup {srv + 1}
  /\ UNCHANGED <<hooked, mode, pc, poller, webhook, pushed, faults>>

\* Somebody else registers a webhook for the bot (one that nobody answers).
RegisterElsewhere ==
  /\ mode = "poll" /\ ~hooked /\ hooked' = TRUE
  /\ Fault
  /\ UNCHANGED <<srv, open, mode, pc, poller, webhook, pushed>>

Fetch ==
  /\ bus # <<>> /\ bus' = Tail(bus)
  /\ UNCHANGED <<server, mode, pc, poller, webhook, here, ever, faults>>

-----------------------------------------------------------------------------
(* Start and end of the process *)

\* Mutant: the offset file is not read.
StartAnew ==
  /\ pc = "down" /\ mode = "poll"
  /\ pc' = "ask" /\ attempt' = 0 /\ off' = 0
  /\ \/ hooked' = FALSE /\ UNCHANGED faults
     \/ UNCHANGED hooked /\ Fault
  /\ UNCHANGED <<srv, open, mode, file, batch, webhook, pushed>>

\* The constructor reads the offset file.  run() deletes a webhook before it
\* polls, and goes on when that fails.
StartPolling ==
  /\ pc = "down" /\ mode = "poll"
  /\ pc' = "ask" /\ attempt' = 0 /\ off' = file
  /\ \/ hooked' = FALSE /\ UNCHANGED faults
     \/ UNCHANGED hooked /\ Fault
  /\ UNCHANGED <<srv, open, mode, file, batch, webhook, pushed>>

\* The webhook is registered without drop_pending_updates, by which an operator
\* has the server forget what it holds; forgetting is then what was asked for.
StartWebhook ==
  /\ pc = "down" /\ mode = "hook"
  /\ pc' = "serve" /\ hooked' = TRUE /\ off' = file
  /\ UNCHANGED <<srv, open, mode, attempt, file, batch, webhook, pushed, faults>>

\* The process is killed, or close() ends it: then a webhook is deleted if the
\* server can be reached.  A 401 or 404 to getUpdates ends spin, and with it
\* run().  What is in memory is lost, the bus included.
Stop ==
  /\ pc # "down" /\ pc' = "down"
  /\ Fault
  /\ hooked' \in IF mode = "hook" THEN {hooked, FALSE} ELSE {hooked}
  /\ attempt' = 0 /\ off' = 0 /\ batch' = {}
  /\ post' = [p \in Posts |-> NoPost] /\ seen' = {} /\ highest' = -1
  /\ bus' = <<>> /\ here' = {}
  /\ UNCHANGED <<srv, open, mode, file, ever>>

-----------------------------------------------------------------------------
(* Polling: BotNet.spin, and req for getUpdates *)

\* Mutant: the offset confirms the updates of the batch still to be handled.
ConfirmTooMuch == open' = {u \in open : u > off}

\* What a getUpdates with this offset makes the server forget.
Confirm == open' = {u \in open : u >= off}

GetUpdates ==
  /\ pc = "ask" /\ ~hooked
  /\ Confirm
  /\ batch' = First(open', BatchMax)
  /\ pc' = IF batch' = {} THEN "ask" ELSE "batch"
  /\ attempt' = 0
  /\ UNCHANGED <<srv, hooked, mode, off, file, webhook, pushed, faults>>

\* Mutant: the webhook stays; polling only tries again.
ConflictRetried ==
  /\ pc = "ask" /\ hooked
  /\ pc' = "ask" /\ attempt' = 0
  /\ UNCHANGED <<server, mode, off, file, batch, webhook, pushed, faults>>

\* 409: req deletes the webhook and answers with no updates.
Conflict ==
  /\ pc = "ask" /\ hooked
  /\ \/ hooked' = FALSE /\ pc' = "ask" /\ UNCHANGED faults
     \/ pc' = "error" /\ UNCHANGED hooked /\ Fault
  /\ attempt' = 0
  /\ UNCHANGED <<srv, open, mode, off, file, batch, webhook, pushed>>

\* Mutant: one request too many.
LimitedOnce ==
  /\ pc = "ask" /\ Fault
  /\ \/ attempt <= Retries /\ attempt' = attempt + 1 /\ pc' = "ask"
     \/ attempt > Retries /\ attempt' = 0 /\ pc' = "error"
  /\ UNCHANGED <<server, mode, off, file, batch, webhook, pushed>>

\* 429: the request is sent again after a while, a few times.
RateLimited ==
  /\ pc = "ask" /\ Fault
  /\ \/ attempt < Retries /\ attempt' = attempt + 1 /\ pc' = "ask"
     \/ attempt = Retries /\ attempt' = 0 /\ pc' = "error"
  /\ UNCHANGED <<server, mode, off, file, batch, webhook, pushed>>

\* Any other failure: the server may have seen the request.
RequestFails ==
  /\ pc = "ask" /\ Fault
  /\ UNCHANGED open \/ (~hooked /\ Confirm)
  /\ pc' = "error" /\ attempt' = 0
  /\ UNCHANGED <<srv, hooked, mode, off, file, batch, webhook, pushed>>

PushNext(u) ==
  /\ pc = "batch" /\ IsNext(u)
  /\ Push(u)
  /\ pc' = "save"
  /\ UNCHANGED <<server, mode, poller, webhook, faults>>

\* self.off moves on and is written to the file, which is replaced at once.
\* A write that fails ends the batch.
SaveOffset(u) ==
  /\ pc = "save" /\ IsNext(u)
  /\ off' = u + 1
  /\ \/ /\ file' = u + 1 /\ batch' = batch \ {u}
        /\ pc' = IF batch' = {} THEN "ask" ELSE "batch"
        /\ UNCHANGED faults
     \/ /\ batch' = {} /\ pc' = "error"
        /\ UNCHANGED file /\ Fault
  /\ UNCHANGED <<server, mode, attempt, webhook, pushed>>

\* An exception is reported on the bus; spin goes on.
ReportError ==
  /\ pc = "error"
  /\ Push(0)
  /\ pc' = "ask"
  /\ UNCHANGED <<server, mode, poller, webhook, faults>>

-----------------------------------------------------------------------------
(* The webhook: BotNet._webhook_request *)

At(p, at) == post' = [post EXCEPT ![p].at = at]

\* The server may send an update again before an earlier request is answered.
Deliver(p, u) ==
  /\ pc = "serve" /\ hooked
  /\ u \in open /\ post[p] = NoPost
  /\ post' = [post EXCEPT ![p] = [upd |-> u, at |-> "lock"]]
  /\ UNCHANGED <<server, mode, pc, poller, seen, highest, pushed, faults>>

\* Mutant: without _webhook_lock.
LockFree(p) ==
  /\ post[p].at = "lock"
  /\ At(p, IF post[p].upd \in seen THEN "reply" ELSE "push")
  /\ UNCHANGED <<server, mode, pc, poller, seen, highest, pushed, faults>>

\* The requests handle their updates one at a time (_webhook_lock).
Lock(p) ==
  /\ post[p].at = "lock"
  /\ \A q \in Posts : post[q].at # "push"
  /\ At(p, IF post[p].upd \in seen THEN "reply" ELSE "push")
  /\ UNCHANGED <<server, mode, pc, poller, seen, highest, pushed, faults>>

\* The ids that are remembered once `S` has grown too large.
Trimmed(S, top) == IF Cardinality(S) > SeenMax THEN {u \in S : u >= top - Keep} ELSE S

PushPosted(p) ==
  LET u == post[p].upd
  IN  /\ post[p].at = "push"
      /\ Push(u)
      /\ highest' = Max2(highest, u)
      /\ seen' = Trimmed(seen \cup {u}, highest')
      /\ At(p, "reply")
      /\ UNCHANGED <<server, mode, pc, poller, faults>>

\* The answer reaches the server, or is lost.
Reply(p) ==
  /\ post[p].at = "reply"
  /\ post' = [post EXCEPT ![p] = NoPost]
  /\ \/ open' = open \ {post[p].upd} /\ UNCHANGED faults
     \/ UNCHANGED open /\ Fault
  /\ UNCHANGED <<srv, hooked, mode, pc, poller, seen, highest, pushed>>

-----------------------------------------------------------------------------
Polling ==
  \/ GetUpdates \/ Conflict \/ RateLimited \/ RequestFails \/ ReportError
  \/ \E u \in batch : PushNext(u) \/ SaveOffset(u)

Serving == \E p \in Posts : Lock(p) \/ PushPosted(p) \/ Reply(p)

Next ==
  \/ NewUpdate \/ RegisterElsewhere \/ Fetch
  \/ StartPolling \/ StartWebhook \/ Stop
  \/ Polling \/ Serving
  \/ \E p \in Posts, u \in Updates : Deliver(p, u)

Spec == Init /\ [][Next]_vars

\* The tasks of the client run, the operator starts it again after it ended,
\* and the server sends an update until it is answered.
Fairness ==
  /\ WF_vars(StartPolling) /\ WF_vars(StartWebhook)
  /\ WF_vars(Polling) /\ WF_vars(Fetch)
  /\ \A p \in Posts : WF_vars(Lock(p) \/ PushPosted(p) \/ Reply(p))
  /\ \A u \in Updates : WF_vars(\E p \in Posts : Deliver(p, u))

LiveSpec == Spec /\ Fairness

-----------------------------------------------------------------------------
(* Properties *)

\* The server never forgets an update that was not put on the bus, whatever
\* request, answer, write or process fails: the offset that confirms it, and
\* the answer to its webhook request, come after the push.
ForgottenWasPushed == (1 .. srv) \ open \subseteq ever

Pushes(u) == bus' = Append(bus, u)

\* A process pushes an update once.  Only a webhook request that comes so late
\* that its id has left webhook_seen gets through again.
PushedOnce ==
  [][\A u \in here : Pushes(u) => mode = "hook" /\ u < highest - Keep]_vars

\* An update that the offset file has passed is not polled again, after any
\* number of restarts: what is repeated was pushed and not yet saved.
SavedIsNotRepeated == [][\A u \in Updates : mode = "poll" /\ Pushes(u) => u >= file]_vars

\* Every update reaches the bus, once the failures end: no lost answer, full
\* bus, foreign webhook or stale offset stops the intake for good.
Arrives == \A u \in Updates : (u <= srv) ~> (u \in ever)
=============================================================================
