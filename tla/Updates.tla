------------------------------ MODULE Updates ------------------------------
(***************************************************************************)
(* The position of the client in the server's sequence of updates (the     *)
(* `pts` of MTNet.cursor), and its recovery after a gap:                   *)
(* goygram/transports/mtproto.py, update_cursor, _dispatch_updates,        *)
(* _post_reconnect_recovery, _recover_difference.                          *)
(*                                                                         *)
(* Updates are the numbers 1 .. srv, in the order of the server.  The      *)
(* client runs in one event loop: its tasks wait in the FIFO queue         *)
(* `ready`, while the reader may handle any number of messages between     *)
(* two of their turns.                                                     *)
(***************************************************************************)
EXTENDS Integers, Sequences, FiniteSets

CONSTANTS
  Tasks,       \* slots for the recovery tasks that exist at one time
  SliceSize,   \* a difference carries at most so many updates
  MaxTries,    \* turns of the loop of _recover_difference (16 in the code)
  MaxPts,      \* bound: updates of the server
  MaxChan,     \* bound: position of the channel
  MaxWire,     \* bound: messages under way at one time
  MaxFaults    \* bound: lost connections and crashes of the process

ASSUME BoundsAssumption ==
  /\ Tasks \subseteq Nat /\ IsFiniteSet(Tasks)
  /\ SliceSize \in Nat \ {0}
  /\ MaxTries \in Nat \ {0}
  /\ {MaxPts, MaxChan, MaxWire, MaxFaults} \subseteq Nat

VARIABLES
  srv,      \* the updates the server has made
  chan,     \* the server's position in a channel, counted on its own
  up,       \* is there a connection
  wire,     \* messages of the server not handled yet, in order
  asked,    \* requests the server has not answered yet
  cursor,   \* cursor["pts"] of the running client; -1 when there is none
  saved,    \* the pts in the cursor file, with which a restart begins
  task,     \* what each task is waiting for
  tries,    \* how often its loop has asked
  got,      \* the result of the request a task was waiting for
  lock,     \* _difference_lock is held
  ready,    \* tasks that can run, in the order in which they will
  bus,      \* updates pushed to the bus and not yet dispatched
  handled,  \* history: updates that were dispatched to the handlers
  passed,   \* history: updates the file was moved past without them
  dropped,  \* history: ... or the cursor only, whose file was not written
  noticed,  \* history: the gap of which the client knows reaches up to here
  faults    \* lost connections and crashes so far

position == <<cursor, saved, dropped>>
client == <<position, task, tries, got, lock, ready, noticed>>
server == <<srv, chan, up, faults>>
vars == <<server, client, wire, asked, bus, handled, passed>>

Max2(a, b) == IF a > b THEN a ELSE b
Min2(a, b) == IF a < b THEN a ELSE b

Positions == -1 .. Max2(MaxPts, MaxChan)
Waiting == {"diff", "state", "first"}   \* the task awaits an answer
Locked == {"diff", "state"}             \* ... inside the lock

(***************************************************************************)
(* What a request can end with.  `new` are the messages of the difference; *)
(* `pts` is the position that update_cursor finds in the result: the one   *)
(* of `state`, or a `pts` of the result itself, or none (-1).              *)
(***************************************************************************)
Result(kind, new, pts) == [kind |-> kind, new |-> new, pts |-> pts]
ResultKinds == {"none", "done", "slice", "state", "persistent", "error"}
Results == [kind : ResultKinds, new : SUBSET (1 .. MaxPts), pts : Positions]
NoResult == Result("none", {}, -1)
Failure == Result("error", {}, -1)

Requests == [task : Tasks, kind : Waiting, pts : Positions]

\* `from` is the position after which the messages of a difference begin;
\* it is -1 for a result that names a position without them.
Messages ==
  [kind : {"reply"}, task : Tasks, result : Results, from : Positions]
    \cup [kind : {"live", "tooLong"}, at : 1 .. MaxPts]
    \cup [kind : {"call"}, new : SUBSET (1 .. MaxPts), pts : Positions]

ServerTypes ==
  /\ srv \in 0 .. MaxPts
  /\ chan \in 0 .. MaxChan
  /\ up \in BOOLEAN
  /\ faults \in 0 .. MaxFaults

TransportTypes ==
  /\ wire \in Seq(Messages)
  /\ asked \subseteq Requests

TaskTypes ==
  /\ task \in [Tasks -> {"none", "sleep", "post", "new"} \cup Waiting]
  /\ tries \in [Tasks -> 0 .. MaxTries]
  /\ got \in [Tasks -> Results]
  /\ lock \in BOOLEAN
  /\ ready \in Seq(Tasks)

PositionTypes ==
  /\ cursor \in Positions /\ saved \in Positions
  /\ noticed \in 0 .. MaxPts
  /\ bus \subseteq 1 .. MaxPts
  /\ handled \subseteq 1 .. MaxPts
  /\ passed \subseteq Positions /\ dropped \subseteq Positions

\* The types of the variables of the client, the server and what is between.
TypeOK == ServerTypes /\ TransportTypes /\ TaskTypes /\ PositionTypes

(***************************************************************************)
(* The first start knows no position; a later one has read the file.       *)
(***************************************************************************)
Init ==
  /\ srv = 0 /\ chan = 0 /\ up = TRUE
  /\ wire = <<>> /\ asked = {}
  /\ cursor \in {-1, 0} /\ saved = cursor
  /\ task = [t \in Tasks |-> "none"]
  /\ tries = [t \in Tasks |-> 0]
  /\ got = [t \in Tasks |-> NoResult]
  /\ lock = FALSE
  /\ ready = <<>>
  /\ bus = {} /\ handled = {} /\ passed = {} /\ dropped = {}
  /\ noticed = 0
  /\ faults = 0

-----------------------------------------------------------------------------
(* The client's operations *)

\* Positions only grow.  Memory has the new one before the file.
UpdateCursor(pts) == cursor' = Max2(cursor, pts)

Push(new) == bus' = bus \cup new

\* The file is written, with the whole cursor.  What was `jumped` now, and
\* what was dropped before, is behind the position of a restart too.
Save(jumped, new) ==
  /\ saved' = cursor' /\ dropped' = {}
  /\ passed' = passed \cup ((jumped \cup dropped) \ (bus \cup handled \cup new))

\* The updates below `pts` that are not in the result it comes with.
Jumped(pts, from) == IF from = -1 THEN 1 .. pts ELSE {}

\* A result is taken: first the position, then the messages.  Its date may
\* have the file written when its pts does not.
Take(pts, jumped, new) ==
  /\ Push(new)
  /\ UpdateCursor(pts)
  /\ \/ pts <= cursor /\ UNCHANGED <<saved, dropped, passed>>
     \/ pts # -1 /\ Save(jumped, new)

\* The file cannot be written.  The exception leaves _dispatch_updates before
\* the messages are pushed, and the new position stays in memory.
TakeFails(pts, jumped, new) ==
  /\ pts # -1
  /\ UpdateCursor(pts)
  /\ dropped' = dropped \cup ((jumped \cup new) \ (bus \cup handled))
  /\ UNCHANGED <<saved, bus, passed>>

\* A task for which nothing of an earlier user of the slot is under way.
IsFree(t) ==
  /\ task[t] = "none"
  /\ \A r \in asked : r.task # t
  /\ \A i \in 1 .. Len(wire) : wire[i].kind = "reply" => wire[i].task # t

Create(t, pc) ==
  /\ IsFree(t) /\ \A o \in Tasks : IsFree(o) => t <= o
  /\ task' = [task EXCEPT ![t] = pc]
  /\ UNCHANGED <<tries, got, lock>>

Ask(t, kind, pts) ==
  /\ task' = [task EXCEPT ![t] = kind]
  /\ got' = [got EXCEPT ![t] = NoResult]
  /\ asked' = asked \cup {[task |-> t, kind |-> kind, pts |-> pts]}

\* The task ends.  Without success, and when no other task is left to try,
\* nobody follows up the gap of which the client knew.
End(t, success) ==
  /\ task' = [task EXCEPT ![t] = "none"]
  /\ tries' = [tries EXCEPT ![t] = 0]
  /\ got' = [got EXCEPT ![t] = NoResult]
  /\ noticed' = IF success \/ \E o \in Tasks \ {t} : task[o] # "none"
                THEN noticed ELSE 0
  /\ UNCHANGED asked

\* The lock is free or the task returns; it is never waited for, because
\* nothing is awaited between the test and the acquisition.
RecoverDifference(t) ==
  \/ /\ lock
     /\ End(t, TRUE)
     /\ UNCHANGED lock
  \/ /\ ~lock /\ cursor = -1
     /\ End(t, FALSE)
     /\ UNCHANGED lock
  \/ /\ ~lock /\ cursor # -1
     /\ lock' = TRUE
     /\ Ask(t, "diff", cursor)
     /\ tries' = [tries EXCEPT ![t] = 1]
     /\ UNCHANGED noticed

\* The task of an updatesTooLong has its first turn.
StartRecovery(t) ==
  /\ task[t] = "new"
  /\ RecoverDifference(t)
  /\ UNCHANGED <<position, bus>>

\* The task of a reconnect after its half second.
StartPostReconnect(t) ==
  /\ task[t] = "post"
  /\ \/ /\ lock \/ cursor # -1
        /\ RecoverDifference(t)
     \/ /\ ~lock /\ cursor = -1
        /\ Ask(t, "first", -1)
        /\ UNCHANGED <<tries, lock, noticed>>
  /\ UNCHANGED <<position, bus>>

\* updates.getState of a client that had no position.  The result was
\* dispatched when it arrived; what the coroutine passes to update_cursor
\* is the {"ok", "result"} around it, which has no position.
EndFirstState(t) ==
  /\ task[t] = "first"
  /\ End(t, got[t].kind = "state")
  /\ UNCHANGED <<lock, position, bus>>

LeaveLock(t, success) ==
  /\ lock' = FALSE
  /\ End(t, success)

\* The answer to updates.getDifference.  It is dispatched a second time,
\* which finds nothing of the cursor to change and writes no file.
\* Its constructor is looked up in the {"ok", "result"} around it, so that a
\* slice or a difference that is too long ends the loop like any other.
UseDifference(t) ==
  /\ task[t] = "diff"
  /\ \/ /\ got[t].kind \in {"done", "slice"}
        /\ Push(got[t].new)
        /\ UpdateCursor(got[t].pts)
        /\ UNCHANGED <<saved, dropped>>
        /\ LeaveLock(t, got[t].kind = "done")
     \/ /\ got[t].kind = "persistent"
        /\ Ask(t, "state", -1)
        /\ UNCHANGED <<position, bus, tries, lock, noticed>>
     \/ /\ got[t].kind = "error"
        /\ LeaveLock(t, FALSE)
        /\ UNCHANGED <<position, bus>>

\* Mutant: the loop has one turn too many.
UseStateOnceMore(t) ==
  /\ task[t] = "state"
  /\ \/ /\ got[t].kind = "state" /\ tries[t] <= MaxTries
        /\ Ask(t, "diff", cursor)
        /\ tries' = [tries EXCEPT ![t] = @ + 1]
        /\ UNCHANGED <<lock, noticed>>
     \/ /\ got[t].kind = "state" /\ tries[t] > MaxTries
        /\ LeaveLock(t, TRUE)
     \/ /\ got[t].kind = "error"
        /\ LeaveLock(t, FALSE)
  /\ UNCHANGED <<position, bus>>

\* Mutant: the loop has no end.
UseStateForEver(t) ==
  /\ task[t] = "state"
  /\ \/ /\ got[t].kind = "state"
        /\ Ask(t, "diff", cursor)
        /\ UNCHANGED <<tries, lock, noticed>>
     \/ /\ got[t].kind = "error"
        /\ LeaveLock(t, FALSE)
  /\ UNCHANGED <<position, bus>>

\* The answer to updates.getState after the server refused the position.
UseState(t) ==
  /\ task[t] = "state"
  /\ \/ /\ got[t].kind = "state" /\ tries[t] < MaxTries
        /\ Ask(t, "diff", cursor)
        /\ tries' = [tries EXCEPT ![t] = @ + 1]
        /\ UNCHANGED <<lock, noticed>>
     \/ /\ got[t].kind = "state" /\ tries[t] = MaxTries
        /\ LeaveLock(t, TRUE)
     \/ /\ got[t].kind = "error"
        /\ LeaveLock(t, FALSE)
  /\ UNCHANGED <<position, bus>>

\* The event loop gives the first ready task its turn.
Run ==
  /\ ready # <<>>
  /\ ready' = Tail(ready)
  /\ LET t == Head(ready) IN
       \/ StartRecovery(t)
       \/ StartPostReconnect(t)
       \/ EndFirstState(t)
       \/ UseDifference(t)
       \/ UseState(t)
  /\ UNCHANGED <<server, wire, handled, passed>>

\* asyncio.sleep(0.5) of _post_reconnect_recovery is over.
WakeUp(t) ==
  /\ task[t] = "sleep"
  /\ task' = [task EXCEPT ![t] = "post"]
  /\ ready' = Append(ready, t)
  /\ UNCHANGED <<server, wire, asked, position, tries, got, lock, noticed, bus, handled, passed>>

Awaits(t) == task[t] \in Waiting /\ got[t].kind = "none"

\* A request fails: its 30 seconds are over, it could not be written, or the
\* server has refused it for another reason.
RequestFails(t) ==
  /\ Awaits(t)
  /\ got' = [got EXCEPT ![t] = Failure]
  /\ ready' = Append(ready, t)
  /\ UNCHANGED <<server, wire, asked, position, task, tries, lock, noticed, bus, handled, passed>>

-----------------------------------------------------------------------------
(* The reader *)

\* Mutant: only the position is taken, the messages are left to the caller.
HandleReplyLater(m) ==
  /\ m.kind = "reply"
  /\ \/ /\ ~Awaits(m.task)
        /\ UNCHANGED <<bus, passed, client>>
     \/ /\ Awaits(m.task)
        /\ Take(m.result.pts, Jumped(m.result.pts, m.from), {})
        /\ got' = [got EXCEPT ![m.task] = m.result]
        /\ ready' = Append(ready, m.task)
        /\ UNCHANGED <<task, tries, lock, noticed>>

\* rpc_result: the result is dispatched before the caller gets it; when that
\* fails, the caller gets the exception.  The answer to a request that was
\* given up is dropped.
HandleReply(m) ==
  /\ m.kind = "reply"
  /\ \/ /\ ~Awaits(m.task)
        /\ UNCHANGED <<bus, passed, client>>
     \/ /\ Awaits(m.task)
        /\ LET jumped == Jumped(m.result.pts, m.from) IN
             \/ /\ Take(m.result.pts, jumped, m.result.new)
                /\ got' = [got EXCEPT ![m.task] = m.result]
             \/ /\ TakeFails(m.result.pts, jumped, m.result.new)
                /\ got' = [got EXCEPT ![m.task] = Failure]
        /\ ready' = Append(ready, m.task)
        /\ UNCHANGED <<task, tries, lock, noticed>>

\* A new message: pushed; its pts is not looked at.  Its date may have the
\* cursor written; when that fails, the message is dispatched once more.
HandleLive(m) ==
  /\ m.kind = "live"
  /\ Push({m.at})
  /\ UNCHANGED <<cursor, task, tries, got, lock, ready, noticed>>
  /\ \/ UNCHANGED <<saved, dropped, passed>>
     \/ Save({}, {m.at})

\* Mutant: the lock is looked at when the message arrives.
HandleTooLongUnlocked(m) ==
  /\ m.kind = "tooLong"
  /\ IF lock THEN UNCHANGED <<task, tries, got, lock, ready>>
     ELSE \E t \in Tasks : Create(t, "new") /\ ready' = Append(ready, t)
  /\ noticed' = Max2(noticed, m.at)
  /\ UNCHANGED <<position, bus, passed>>

\* updatesTooLong: a task of its own, which runs after the tasks whose
\* answers arrived before.
HandleTooLong(m) ==
  /\ m.kind = "tooLong"
  /\ \E t \in Tasks : Create(t, "new") /\ ready' = Append(ready, t)
  /\ noticed' = Max2(noticed, m.at)
  /\ UNCHANGED <<position, bus, passed>>

\* The result of any other call, if it has a pts: the one of a message just
\* sent, or the one of a channel, which goes to the same place.
HandleCall(m) ==
  /\ m.kind = "call"
  /\ \/ Take(m.pts, 1 .. m.pts, m.new)
     \/ TakeFails(m.pts, 1 .. m.pts, m.new)
  /\ UNCHANGED <<task, tries, got, lock, ready, noticed>>

Handle ==
  /\ wire # <<>>
  /\ wire' = Tail(wire)
  /\ LET m == Head(wire) IN
       HandleReply(m) \/ HandleLive(m) \/ HandleTooLong(m) \/ HandleCall(m)
  /\ UNCHANGED <<server, asked, handled>>

\* The dispatcher takes an update off the bus; one it has seen is dropped.
Dispatch ==
  /\ \E u \in bus : bus' = bus \ {u} /\ handled' = handled \cup {u}
  /\ UNCHANGED <<server, client, wire, asked, passed>>

-----------------------------------------------------------------------------
(* The connection *)

\* Messages under way are gone; every pending request fails.
ConnectionLost ==
  /\ up /\ faults < MaxFaults
  /\ up' = FALSE
  /\ faults' = faults + 1
  /\ wire' = <<>> /\ asked' = {}
  /\ LET failed == {t \in Tasks : Awaits(t)} IN
       /\ got' = [t \in Tasks |-> IF t \in failed THEN Failure ELSE got[t]]
       /\ \E order \in [1 .. Cardinality(failed) -> failed] :
            /\ failed = {order[i] : i \in DOMAIN order}
            /\ ready' = ready \o order
  /\ UNCHANGED <<srv, chan, position, task, tries, lock, noticed, bus, handled, passed>>

\* The reader has the connection back, and lets the gap be recovered.
ReaderReconnects ==
  /\ ~up /\ up' = TRUE
  /\ \E t \in Tasks : Create(t, "sleep")
  /\ noticed' = srv
  /\ UNCHANGED <<srv, chan, faults, wire, asked, position, ready, bus, handled, passed>>

\* A request has it back: nobody recovers anything.
RequestReconnects ==
  /\ ~up /\ up' = TRUE
  /\ UNCHANGED <<srv, chan, faults, wire, asked, client, bus, handled, passed>>

\* The process stops and starts again: only the cursor file is left.
Crash ==
  /\ faults < MaxFaults
  /\ faults' = faults + 1
  /\ up' = TRUE
  /\ wire' = <<>> /\ asked' = {}
  /\ task' = [t \in Tasks |-> "none"]
  /\ tries' = [t \in Tasks |-> 0]
  /\ got' = [t \in Tasks |-> NoResult]
  /\ lock' = FALSE
  /\ ready' = <<>>
  /\ bus' = {}
  /\ cursor' = saved /\ dropped' = {}
  /\ passed' = passed \cup {u \in bus : u <= saved}
  /\ noticed' = 0
  /\ UNCHANGED <<srv, chan, saved, handled>>

-----------------------------------------------------------------------------
(* The server *)

Send(m) == Len(wire) < MaxWire /\ wire' = Append(wire, m)

\* A new update; the server sends it, or says that there are too many.
ServerUpdates ==
  /\ srv < MaxPts
  /\ srv' = srv + 1
  /\ \/ ~up /\ UNCHANGED wire
     \/ up /\ \E kind \in {"live", "tooLong"} : Send([kind |-> kind, at |-> srv + 1])
  /\ UNCHANGED <<chan, up, faults, asked, client, bus, handled, passed>>

\* The result of a message this client has sent.
ServerSends ==
  /\ up /\ srv < MaxPts
  /\ srv' = srv + 1
  /\ Send([kind |-> "call", new |-> {srv + 1}, pts |-> srv + 1])
  /\ UNCHANGED <<chan, up, faults, asked, client, bus, handled, passed>>

\* The result of a call about a channel, with the position of the channel.
ServerReadsChannel ==
  /\ up
  /\ \E pts \in chan + 1 .. MaxChan :
       /\ chan' = pts
       /\ Send([kind |-> "call", new |-> {}, pts |-> pts])
  /\ UNCHANGED <<srv, up, faults, asked, client, bus, handled, passed>>

Reply(r, result, from) ==
  Send([kind |-> "reply", task |-> r.task, result |-> result, from |-> from])

AnswerState(r) ==
  /\ r.kind \in {"state", "first"}
  /\ Reply(r, Result("state", {}, srv), -1)

AnswerDifference(r) ==
  /\ r.kind = "diff" /\ r.pts <= srv
  /\ LET to == Min2(r.pts + SliceSize, srv) IN
       IF to = srv THEN Reply(r, Result("done", r.pts + 1 .. to, srv), r.pts)
                   ELSE Reply(r, Result("slice", r.pts + 1 .. to, -1), r.pts)

AnswerTooLong(r) ==
  /\ r.kind = "diff" /\ r.pts < srv
  /\ Reply(r, Result("done", {}, srv), -1)

\* PERSISTENT_TIMESTAMP_INVALID: the position is not one of the server's.
\* PERSISTENT_TIMESTAMP_OUTDATED: the server cannot serve it at this time.
AnswerPersistent(r) ==
  /\ r.kind = "diff"
  /\ Reply(r, Result("persistent", {}, -1), r.pts)

ServerAnswers ==
  /\ up
  /\ \E r \in asked :
       /\ asked' = asked \ {r}
       /\ AnswerState(r) \/ AnswerDifference(r) \/ AnswerTooLong(r) \/ AnswerPersistent(r)
  /\ UNCHANGED <<server, client, bus, handled, passed>>

-----------------------------------------------------------------------------
Next ==
  \/ Run
  \/ \E t \in Tasks : WakeUp(t) \/ RequestFails(t)
  \/ Handle
  \/ Dispatch
  \/ ConnectionLost \/ ReaderReconnects \/ RequestReconnects \/ Crash
  \/ ServerUpdates \/ ServerSends \/ ServerReadsChannel \/ ServerAnswers

Spec == Init /\ [][Next]_vars

(***************************************************************************)
(* Ready tasks run, sleeps end, and a request ends after its 30 seconds at *)
(* the latest.  Nothing is assumed of the server or of the connection.     *)
(***************************************************************************)
LiveSpec ==
  /\ Spec
  /\ WF_vars(Run)
  /\ \A t \in Tasks : WF_vars(WakeUp(t)) /\ WF_vars(RequestFails(t))
-----------------------------------------------------------------------------
(* Properties *)

(***************************************************************************)
(* Every update up to the position of the client, and every one up to the  *)
(* position of its file, has reached the bus, unless there is a cause: the *)
(* position was named by a result that does not hold the updates below it  *)
(* (getState, a difference that is too long, the result of another call);  *)
(* the process crashed before the bus was dispatched; or the cursor file   *)
(* could not be written, in which case the messages of that result are not *)
(* pushed (1049-1068) although its position is kept (429).  A failed write *)
(* costs the file nothing by itself: a restart asks for these updates      *)
(* again, unless a later write has moved the file past them as well.       *)
(* Nothing else skips one: the messages of a difference come with its      *)
(* position, and the position of a slice is not taken at all.              *)
(***************************************************************************)
SkippedForCause ==
  /\ \A u \in 1 .. cursor : u \in bus \cup handled \cup passed \cup dropped
  /\ \A u \in 1 .. saved : u \in bus \cup handled \cup passed

\* What makes it inductive: a difference is asked for from a position the
\* client had, its answer holds every message after that position, and what
\* a caller is given has been taken over before; only a client that has a
\* position recovers differences.
RequestsBehind ==
  \A r \in asked : r.kind = "diff" => r.pts \in 0 .. cursor

Follows(m) ==
  m.kind = "reply" /\ m.from # -1 =>
    /\ m.from <= cursor
    /\ (m.from + 1) .. m.result.pts \subseteq m.result.new

RepliesFollow == \A i \in 1 .. Len(wire) : Follows(wire[i])

FileBehind == saved <= cursor

GotTaken == \A t \in Tasks : got[t].pts <= cursor

AskersKnow == \A t \in Tasks : task[t] \in Locked => cursor # -1

IInv ==
  /\ TypeOK
  /\ RequestsBehind
  /\ RepliesFollow
  /\ GotTaken
  /\ AskersKnow
  /\ FileBehind
  /\ SkippedForCause

(***************************************************************************)
(* A gap the client was told of, by updatesTooLong or by the loss of its   *)
(* connection, is behind the cursor or still being worked on, unless the   *)
(* last task that worked on it failed.  A recovery that finds the lock     *)
(* held returns (1101): the holder's answer must then be one that covers   *)
(* the new gap.                                                            *)
(***************************************************************************)
NoticesServed == noticed > Max2(0, cursor) => \E t \in Tasks : task[t] # "none"

(***************************************************************************)
(* Every recovery ends and lets go of the lock, even when the server never *)
(* answers, or refuses the client's position for ever because it is the    *)
(* one of a channel (1106).                                                *)
(***************************************************************************)
RecoveryEnds == \A t \in Tasks : task[t] # "none" ~> task[t] = "none"
=============================================================================
