----------------------------- MODULE Connection -----------------------------
(***************************************************************************)
(* Who keeps the connection of the MTProto transport alive                 *)
(* (src/goygram/transports/mtproto.py, class MTNet): the reader task       *)
(* `spin`, the keepalive task it starts, the requests that find the        *)
(* connection gone and reconnect themselves (`ensure_auth_key`,            *)
(* `_pause_reader`, `boot`), and `close`.                                  *)
(*                                                                         *)
(* The event loop runs one task at a time: an action is what one task does *)
(* between two awaits that suspend it.  An uncontended asyncio.Lock does   *)
(* not suspend, and `_reader_lock` is never contended (its holders do not  *)
(* await), so it does not appear.  A cancelled task ends in a step of its  *)
(* own, Unwind, which runs its finally blocks.                             *)
(*                                                                         *)
(* The client has its authorization key.  Moving to another data centre    *)
(* (`_switch_home_dc`) and the key exchange are left out.                  *)
(***************************************************************************)
EXTENDS Naturals, Sequences, FiniteSets

CONSTANTS
    Callers,      \* tasks that make one request each
    Cancellable,  \* the callers that may be cancelled
    MaxReaders,   \* bound: reader tasks that exist at a time
    LossKinds,    \* how the peer may be lost: "reset", "timeout"
    MaxLosses,    \* bound: times the peer is lost
    MaxFailures,  \* bound: attempts to connect that fail
    MayClose      \* whether close() may be called

Slots == 1 .. MaxReaders
Reader(n) == <<"reader", n>>
Ping(n) == <<"ping", n>>
Call(c) == <<"call", c>>
Closer == <<"close", 0>>

Readers == {Reader(n) : n \in Slots}
Pings == {Ping(n) : n \in Slots}
Calls == {Call(c) : c \in Callers}
Tasks == Readers \cup Pings \cup Calls \cup {Closer}

ASSUME ConnectionAssumption ==
    /\ Cancellable \subseteq Callers
    /\ MaxReaders \in Nat \ {0}
    /\ LossKinds \subseteq {"reset", "timeout"}
    /\ MaxLosses \in Nat /\ MaxFailures \in Nat
    /\ MayClose \in BOOLEAN

VARIABLES
    sock,       \* rd and wr: "none", "open", or open with the peer lost
    authReady,  \* MTNet.auth_ready
    stopEv,     \* MTNet.stop_ev
    readerTask, \* MTNet.reader_task: a slot, or 0 for None
    pingTask,   \* MTNet._keepalive_task: a slot, or 0 for None
    authLock,   \* MTNet._auth_lock: its holder, then those who wait for it
    pc,         \* where each task is suspended
    local,      \* the reader and the keepalive that a task waits to see ended
    cancelled,  \* tasks whose cancellation has been requested
    losses,     \* how often the peer has been lost
    failures    \* how often connecting has failed

vars == <<sock, authReady, stopEv, readerTask, pingTask, authLock, pc, local,
          cancelled, losses, failures>>
faultVars == <<losses, failures>>

Nobody == [reader |-> 0, ping |-> 0]
Ended == {"none", "done"}
Alive(p) == {t \in Tasks : p[t] \notin Ended}

\* ensure_auth_key from the lock to its return, in a task that suspends there.
Connecting == {"lock", "stuck", "pausePing", "pauseReader", "boot"}

-----------------------------------------------------------------------------
Init ==
    /\ sock = "open"
    /\ authReady = TRUE
    /\ stopEv = FALSE
    /\ readerTask = 1
    /\ pingTask = 1
    /\ authLock = << >>
    /\ pc = [t \in Tasks |-> CASE t = Reader(1) -> "reading"
                               [] t = Ping(1) -> "sleep"
                               [] OTHER -> "none"]
    /\ local = [t \in Tasks |-> Nobody]
    /\ cancelled = {}
    /\ losses = 0
    /\ failures = 0

-----------------------------------------------------------------------------
(* ensure_reader, given the tasks p and the reader task rt at that point   *)

\* Mutant: the test for a living reader is missing.
NeedsReaderAlways(p, rt) == rt \in 0 .. MaxReaders

NeedsReader(p, rt) == rt = 0 \/ p[Reader(rt)] = "done"

\* A slot whose tasks have ended and that nothing refers to any more.
Free(p, n) ==
    /\ {Reader(n), Ping(n)} \cap Alive(p) = {}
    /\ n # pingTask
    /\ \A t \in Tasks : n \notin {local[t].reader, local[t].ping}

FreeSlot(p) == CHOOSE n \in Slots : Free(p, n)

\* The bound on readers: there is a slot for one if one is needed.
Room(p, rt) == NeedsReader(p, rt) => \E n \in Slots : Free(p, n)

ReaderFor(p, rt) == IF NeedsReader(p, rt) THEN FreeSlot(p) ELSE rt

Spawned(p, rt) ==
    IF NeedsReader(p, rt)
    THEN [p EXCEPT ![Reader(FreeSlot(p))] = "starting"]
    ELSE p

StopAfter(p, rt) == stopEv /\ ~ NeedsReader(p, rt)

-----------------------------------------------------------------------------
(* _pause_reader, in a task t that has just got the lock                   *)

Pausable(t, p, rt) == rt # 0 /\ p[Reader(rt)] # "done" /\ Reader(rt) # t

NothingToPause(t, p, rt) ==
    /\ ~ Pausable(t, p, rt)
    /\ pc' = [p EXCEPT ![t] = "boot"]
    /\ readerTask' = rt
    /\ UNCHANGED <<local, cancelled>>

ToPause(t, p, rt) ==
    /\ Pausable(t, p, rt)
    /\ readerTask' = 0
    /\ local' = [local EXCEPT ![t] = [reader |-> rt, ping |-> pingTask]]

PauseReaderOnly(t, p, rt) ==
    /\ ToPause(t, p, rt)
    /\ pingTask = 0
    /\ cancelled' = cancelled \cup {Reader(rt)}
    /\ pc' = [p EXCEPT ![t] = "pauseReader"]

\* Mutant: the keepalive is left running.
PauseLeavesPing(t, p, rt) ==
    /\ ToPause(t, p, rt)
    /\ cancelled' = cancelled \cup {Reader(rt)}
    /\ pc' = [p EXCEPT ![t] = "pauseReader"]

\* The keepalive is ended before the reader.  A keepalive that does this
\* itself cancels itself and then awaits its own end: asyncio finds no end of
\* that chain (RecursionError, in the loop's exception handler), and the task
\* stays where it is for ever, with the lock.
PausePing(t, p, rt) ==
    /\ ToPause(t, p, rt)
    /\ pingTask # 0
    /\ cancelled' = cancelled \cup ({Ping(pingTask)} \cap Alive(p))
    /\ pc' = [p EXCEPT ![t] = IF Ping(pingTask) = t THEN "stuck" ELSE "pausePing"]

PauseReader(t, p, rt) ==
    \/ NothingToPause(t, p, rt)
    \/ PauseReaderOnly(t, p, rt)
    \/ PausePing(t, p, rt)

-----------------------------------------------------------------------------
(* ensure_auth_key and the write of the request after it                   *)

\* Mutant: a caller repeats its request like the keepalive.
AfterRequestSleep(t) == IF stopEv' THEN "done" ELSE "sleep"

\* The state a request's task goes on in when the request is over.
AfterRequest(t) ==
    IF t \in Pings /\ ~ stopEv' THEN "sleep" ELSE "done"

\* The rest of send: without a writer it raises, else the reply is awaited.
Write(t, p) ==
    pc' = [p EXCEPT ![t] = IF sock' = "none" THEN AfterRequest(t) ELSE "waiting"]

\* Mutant: the lock is not taken.
EnterWithoutLock(t, p, rt) == authLock' = authLock /\ PauseReader(t, p, rt)

\* The slow path: wait for the lock, or go on with it at once.
EnterLock(t, p, rt) ==
    /\ authLock' = Append(authLock, t)
    /\ IF authLock = << >>
       THEN PauseReader(t, p, rt)
       ELSE /\ pc' = [p EXCEPT ![t] = "lock"]
            /\ readerTask' = rt
            /\ UNCHANGED <<local, cancelled>>

\* _rpc_call up to where its task is suspended.
Request(t) ==
    LET p == Spawned(pc, readerTask)
        rt == ReaderFor(pc, readerTask)
    IN  /\ Room(pc, readerTask)
        /\ stopEv' = StopAfter(pc, readerTask)
        /\ UNCHANGED <<sock, authReady, pingTask, faultVars>>
        /\ \/ /\ authReady
              /\ Write(t, p)
              /\ readerTask' = rt
              /\ UNCHANGED <<authLock, local, cancelled>>
           \/ /\ ~ authReady
              /\ EnterLock(t, p, rt)

\* The state the reader goes on in: it tests stop_ev, and finds the socket
\* gone at once.
AfterConnect ==
    IF stopEv' THEN "done" ELSE IF sock' = "none" THEN "backoff" ELSE "reading"

Granted(t) == pc[t] = "lock" /\ t \notin cancelled /\ Head(authLock) = t

\* The lock is free; another task may have connected in the meantime.
LockGranted(t) ==
    /\ Granted(t)
    /\ UNCHANGED <<sock, authReady, stopEv, pingTask, faultVars>>
    /\ \/ /\ authReady
          /\ authLock' = Tail(authLock)
          /\ IF t \in Readers THEN pc' = [pc EXCEPT ![t] = AfterConnect]
                              ELSE Write(t, pc)
          /\ UNCHANGED <<readerTask, local, cancelled>>
       \/ /\ ~ authReady
          /\ authLock' = authLock
          /\ PauseReader(t, pc, readerTask)

\* Mutant: the reader is awaited but not cancelled.
PingEndedNoCancel(t) ==
    /\ pc[t] = "pausePing"
    /\ t \notin cancelled
    /\ Ping(local[t].ping) \notin Alive(pc)
    /\ pingTask' = 0
    /\ pc' = [pc EXCEPT ![t] = "pauseReader"]
    /\ UNCHANGED <<sock, authReady, stopEv, readerTask, authLock, local,
                   cancelled, faultVars>>

PingEnded(t) ==
    /\ pc[t] = "pausePing"
    /\ t \notin cancelled
    /\ Ping(local[t].ping) \notin Alive(pc)
    /\ pingTask' = 0
    /\ cancelled' = cancelled \cup ({Reader(local[t].reader)} \cap Alive(pc))
    /\ pc' = [pc EXCEPT ![t] = "pauseReader"]
    /\ UNCHANGED <<sock, authReady, stopEv, readerTask, authLock, local, faultVars>>

ReaderEnded(t) ==
    /\ pc[t] = "pauseReader"
    /\ t \notin cancelled
    /\ Reader(local[t].reader) \notin Alive(pc)
    /\ pc' = [pc EXCEPT ![t] = "boot"]
    /\ UNCHANGED <<sock, authReady, stopEv, readerTask, pingTask, authLock,
                   local, cancelled, faultVars>>

\* Mutant: the finally block is missing.
ResumeNothing(t, p) == UNCHANGED <<readerTask, stopEv>> /\ pc' = p

\* The finally block: a reader that was paused is started again.
Resume(t, p) ==
    IF local[t].reader = 0
    THEN UNCHANGED <<readerTask, stopEv>> /\ pc' = p
    ELSE /\ stopEv' = StopAfter(pc, readerTask)
         /\ Room(p, readerTask)
         /\ readerTask' = ReaderFor(p, readerTask)
         /\ pc' = Spawned(p, readerTask)

Forget(t) == local' = [local EXCEPT ![t] = Nobody]

\* boot opens a connection, or finds one; one whose peer has closed it may
\* not know that yet.
BootDone(t) ==
    /\ pc[t] = "boot"
    /\ t \notin cancelled
    /\ sock' \in {"open"} \cup ({sock} \cap {"reset"})
    /\ Resume(t, [pc EXCEPT ![t] = IF t \in Readers THEN AfterConnect ELSE "waiting"])
    /\ authReady' = TRUE
    /\ authLock' = Tail(authLock)
    /\ Forget(t)
    /\ UNCHANGED <<pingTask, cancelled, faultVars>>

\* Mutant: the lock is not released when connecting fails.
BootFailsLocked(t) ==
    /\ pc[t] = "boot"
    /\ t \notin cancelled
    /\ sock # "open"
    /\ failures < MaxFailures
    /\ failures' = failures + 1
    /\ sock' = sock
    /\ Resume(t, [pc EXCEPT ![t] = IF t \in Readers THEN AfterConnect
                                                    ELSE AfterRequest(t)])
    /\ Forget(t)
    /\ UNCHANGED <<authReady, pingTask, authLock, cancelled, losses>>

BootFails(t) ==
    /\ pc[t] = "boot"
    /\ t \notin cancelled
    /\ sock # "open"
    /\ failures < MaxFailures
    /\ failures' = failures + 1
    /\ sock' = sock
    /\ Resume(t, [pc EXCEPT ![t] = IF t \in Readers THEN AfterConnect
                                                    ELSE AfterRequest(t)])
    /\ authLock' = Tail(authLock)
    /\ Forget(t)
    /\ UNCHANGED <<authReady, pingTask, cancelled, losses>>

-----------------------------------------------------------------------------
(* The requests: a caller makes one, a keepalive one every 30 seconds      *)

CallStarts(c) == pc[Call(c)] = "none" /\ Request(Call(c))

PingFires(n) ==
    /\ pc[Ping(n)] = "sleep"
    /\ Ping(n) \notin cancelled
    /\ \/ /\ stopEv
          /\ pc' = [pc EXCEPT ![Ping(n)] = "done"]
          /\ UNCHANGED <<sock, authReady, stopEv, readerTask, pingTask,
                         authLock, local, cancelled, faultVars>>
       \/ /\ ~ stopEv
          /\ Request(Ping(n))

\* An answer, an error or the timeout; see RpcTable.
RequestReturns(t) ==
    /\ pc[t] = "waiting"
    /\ t \notin cancelled
    /\ stopEv' = stopEv
    /\ pc' = [pc EXCEPT ![t] = AfterRequest(t)]
    /\ UNCHANGED <<sock, authReady, readerTask, pingTask, authLock, local,
                   cancelled, faultVars>>

-----------------------------------------------------------------------------
(* spin; reading a packet changes nothing here                             *)

ReaderStarts(n) ==
    /\ pc[Reader(n)] = "starting"
    /\ Reader(n) \notin cancelled
    /\ authReady
    /\ pingTask' = n
    /\ pc' = [pc EXCEPT ![Reader(n)] = IF stopEv THEN "done" ELSE "reading",
                        ![Ping(n)] = IF stopEv THEN "done" ELSE "sleep"]
    /\ UNCHANGED <<sock, authReady, stopEv, readerTask, authLock, local,
                   cancelled, faultVars>>

\* Mutant: the writer of the lost connection is kept.
ReaderKeepsWriter(n) ==
    /\ pc[Reader(n)] = "reading"
    /\ Reader(n) \notin cancelled
    /\ sock \in {"reset", "none"}
    /\ pc' = [pc EXCEPT ![Reader(n)] = "backoff"]
    /\ UNCHANGED <<sock, authReady, stopEv, readerTask, pingTask, authLock,
                   local, cancelled, faultVars>>

\* Only a ConnectionError counts as a lost connection.  A task that was given
\* the lock before has run by then: the loss is news from the selector.
ReaderLosesPeer(n) ==
    /\ pc[Reader(n)] = "reading"
    /\ Reader(n) \notin cancelled
    /\ sock \in {"reset", "none"}
    /\ \A t \in Tasks : ~ Granted(t)
    /\ sock' = "none"
    /\ pc' = [pc EXCEPT ![Reader(n)] = "backoff"]
    /\ UNCHANGED <<authReady, stopEv, readerTask, pingTask, authLock, local,
                   cancelled, faultVars>>

\* Any other exception of the stream (TimeoutError, and other OSErrors) is
\* raised again by every later read.
ReaderNaps(n) ==
    /\ pc[Reader(n)] = "reading"
    /\ Reader(n) \notin cancelled
    /\ sock = "timeout"
    /\ pc' = [pc EXCEPT ![Reader(n)] = "nap"]
    /\ UNCHANGED <<sock, authReady, stopEv, readerTask, pingTask, authLock,
                   local, cancelled, faultVars>>

NapOver(n) ==
    /\ pc[Reader(n)] = "nap"
    /\ Reader(n) \notin cancelled
    /\ pc' = [pc EXCEPT ![Reader(n)] = IF stopEv THEN "done" ELSE "reading"]
    /\ UNCHANGED <<sock, authReady, stopEv, readerTask, pingTask, authLock,
                   local, cancelled, faultVars>>

\* The backoff is over: _connect.
ReaderReconnects(n) ==
    /\ pc[Reader(n)] = "backoff"
    /\ Reader(n) \notin cancelled
    /\ UNCHANGED <<sock, stopEv, pingTask, faultVars>>
    /\ \/ /\ stopEv
          /\ pc' = [pc EXCEPT ![Reader(n)] = "done"]
          /\ UNCHANGED <<authReady, readerTask, authLock, local, cancelled>>
       \/ /\ ~ stopEv
          /\ authReady' = FALSE
          /\ EnterLock(Reader(n), pc, readerTask)

-----------------------------------------------------------------------------
(* Cancellation                                                            *)

CancelCall(c) ==
    /\ c \in Cancellable
    /\ Call(c) \in Alive(pc)
    /\ cancelled' = cancelled \cup {Call(c)}
    /\ UNCHANGED <<sock, authReady, stopEv, readerTask, pingTask, authLock, pc,
                   local, faultVars>>

Places(t) == {i \in DOMAIN authLock : authLock[i] = t}

\* A task that is cancelled gives up its place in the lock's queue, and with the
\* first place the lock.
Without(t) ==
    IF Places(t) = {} THEN authLock
    ELSE LET i == CHOOSE i \in Places(t) : TRUE
         IN  [j \in 1 .. Len(authLock) - 1 |-> authLock[IF j < i THEN j ELSE j + 1]]

\* CancelledError reaches the top of the task.  Only a task in boot has
\* entered the block whose finally starts the paused reader again.
Unwind(t) ==
    /\ t \in cancelled
    /\ t \in Alive(pc)
    /\ pc[t] # "stuck"
    /\ IF pc[t] = "boot"
       THEN Resume(t, [pc EXCEPT ![t] = "done"])
       ELSE pc' = [pc EXCEPT ![t] = "done"] /\ UNCHANGED <<readerTask, stopEv>>
    /\ authLock' = Without(t)
    /\ cancelled' = cancelled \ {t}
    /\ Forget(t)
    /\ UNCHANGED <<sock, authReady, pingTask, faultVars>>

-----------------------------------------------------------------------------
(* close                                                                   *)

\* Mutant: the reader is not ended.
CloseConnectionOnly(n) ==
    /\ n \in 0 .. MaxReaders
    /\ readerTask' = 0
    /\ sock' = "none"
    /\ authReady' = FALSE
    /\ cancelled' = cancelled
    /\ pc' = [pc EXCEPT ![Closer] = "done"]
    /\ Forget(Closer)

\* Mutant: the reader is awaited but not cancelled.
CloseAwaitsReader(n) ==
    /\ local' = [local EXCEPT ![Closer] = [reader |-> n, ping |-> 0]]
    /\ UNCHANGED <<readerTask, sock, authReady, cancelled>>
    /\ pc' = [pc EXCEPT ![Closer] =
            IF n # 0 /\ Reader(n) \in Alive(pc) THEN "closeReader" ELSE "done"]

\* The reader is cancelled and awaited; if there is none the connection is
\* closed at once.
CloseReader(n) ==
    \/ /\ n # 0
       /\ Reader(n) \in Alive(pc)
       /\ cancelled' = cancelled \cup {Reader(n)}
       /\ local' = [local EXCEPT ![Closer] = [reader |-> n, ping |-> 0]]
       /\ pc' = [pc EXCEPT ![Closer] = "closeReader"]
       /\ UNCHANGED <<sock, authReady, readerTask>>
    \/ /\ n # 0 => Reader(n) \notin Alive(pc)
       /\ readerTask' = 0
       /\ sock' = "none"
       /\ authReady' = FALSE
       /\ cancelled' = cancelled
       /\ pc' = [pc EXCEPT ![Closer] = "done"]
       /\ Forget(Closer)

\* Cancelling a keepalive that waits for itself raises RecursionError here.
CloseStarts ==
    /\ MayClose
    /\ pc[Closer] = "none"
    /\ stopEv' = TRUE
    /\ UNCHANGED <<pingTask, authLock, faultVars>>
    /\ \/ /\ pingTask = 0
          /\ CloseReader(readerTask)
       \/ /\ pingTask # 0
          /\ pc[Ping(pingTask)] # "stuck"
          /\ cancelled' = cancelled \cup ({Ping(pingTask)} \cap Alive(pc))
          /\ local' = [local EXCEPT ![Closer] =
                            [reader |-> readerTask, ping |-> pingTask]]
          /\ pc' = [pc EXCEPT ![Closer] = "closePing"]
          /\ UNCHANGED <<sock, authReady, readerTask>>
       \/ /\ pingTask # 0
          /\ pc[Ping(pingTask)] = "stuck"
          /\ pc' = [pc EXCEPT ![Closer] = "failed"]
          /\ UNCHANGED <<sock, authReady, readerTask, local, cancelled>>

ClosePingEnded ==
    /\ pc[Closer] = "closePing"
    /\ Ping(local[Closer].ping) \notin Alive(pc)
    /\ pingTask' = 0
    /\ CloseReader(local[Closer].reader)
    /\ UNCHANGED <<stopEv, authLock, faultVars>>

CloseReaderEnded ==
    /\ pc[Closer] = "closeReader"
    /\ Reader(local[Closer].reader) \notin Alive(pc)
    /\ CloseReader(0)
    /\ UNCHANGED <<stopEv, pingTask, authLock, faultVars>>

-----------------------------------------------------------------------------
PeerLost(kind) ==
    /\ sock = "open"
    /\ losses < MaxLosses
    /\ losses' = losses + 1
    /\ sock' = kind
    /\ UNCHANGED <<authReady, stopEv, readerTask, pingTask, authLock, pc,
                   local, cancelled, failures>>

Connect(t) ==
    \/ LockGranted(t) \/ PingEnded(t) \/ ReaderEnded(t) \/ BootDone(t)
    \/ BootFails(t)

ReaderStep(n) ==
    \/ ReaderStarts(n) \/ ReaderLosesPeer(n) \/ ReaderNaps(n) \/ NapOver(n)
    \/ ReaderReconnects(n)

CloseStep == ClosePingEnded \/ CloseReaderEnded

Next ==
    \/ \E t \in Tasks \ {Closer} : Connect(t) \/ RequestReturns(t) \/ Unwind(t)
    \/ \E n \in Slots : ReaderStep(n) \/ PingFires(n)
    \/ \E c \in Callers : CallStarts(c) \/ CancelCall(c)
    \/ \E kind \in LossKinds : PeerLost(kind)
    \/ CloseStarts
    \/ CloseStep

Spec == Init /\ [][Next]_vars

(* The event loop runs every task that is ready, timers fire, and an       *)
(* attempt to connect ends.  Nothing obliges anyone to make a request, to  *)
(* cancel one or to close, or the network to fail.                         *)
Fairness ==
    /\ \A t \in Tasks \ {Closer} :
         WF_vars(Connect(t)) /\ WF_vars(RequestReturns(t)) /\ WF_vars(Unwind(t))
    /\ \A n \in Slots : WF_vars(ReaderStep(n)) /\ WF_vars(PingFires(n))
    /\ WF_vars(CloseStep)

LiveSpec == Spec /\ Fairness

-----------------------------------------------------------------------------
(* Properties                                                              *)

\* The values the state can have: which kind of task can be suspended where.
TypeOK ==
    /\ sock \in {"none", "open", "reset", "timeout"}
    /\ authReady \in BOOLEAN
    /\ stopEv \in BOOLEAN
    /\ readerTask \in 0 .. MaxReaders
    /\ pingTask \in 0 .. MaxReaders
    /\ authLock \in Seq(Tasks)
    /\ DOMAIN pc = Tasks
    /\ \A t \in Readers :
         pc[t] \in Ended \cup Connecting \cup {"starting", "reading", "backoff", "nap"}
    /\ \A t \in Pings : pc[t] \in Ended \cup Connecting \cup {"sleep", "waiting"}
    /\ \A t \in Calls : pc[t] \in Ended \cup Connecting \cup {"waiting"}
    /\ pc[Closer] \in Ended \cup {"closePing", "closeReader", "failed"}
    /\ local \in [Tasks -> [reader : 0 .. MaxReaders, ping : 0 .. MaxReaders]]
    /\ cancelled \subseteq Tasks
    /\ losses \in 0 .. MaxLosses
    /\ failures \in 0 .. MaxFailures

Running == Alive(pc) \ cancelled

\* The tasks that take the mutex are the ones inside its block: at most one
\* task pauses the reader or opens a connection, and it holds the lock.
OneConnects ==
    \A t \in Tasks : pc[t] \in Connecting \ {"lock"} =>
        authLock # << >> /\ Head(authLock) = t

\* A task waits only for the end of tasks that have ended or will: they have
\* been cancelled.
WaitsEnd ==
    \A t \in Tasks :
        /\ pc[t] \in {"pauseReader", "closeReader"} =>
             Reader(local[t].reader) \notin Running
        /\ pc[t] \in {"pausePing", "closePing"} =>
             Ping(local[t].ping) \notin Running

\* Two readers never read, or reconnect, the same connection.
Reading(n) == Reader(n) \in Running /\ pc[Reader(n)] # "starting"

OneReads == \A m, n \in Slots : Reading(m) /\ Reading(n) => m = n

\* A keepalive that runs is the one that a reconnect or close will end.
PingsKnown == \A n \in Slots : Ping(n) \in Running => pingTask = n

\* While requests are let through, there is a reader for their answers, or a
\* task that is closing.
SomebodyReads ==
    authReady => \/ \E n \in Slots : Reader(n) \in Running
                 \/ pc[Closer] # "none"

\* After close nothing is left, no task and no connection, unless somebody has
\* made a request.
ClosedIsQuiet ==
    pc[Closer] = "done" /\ (\A c \in Callers : pc[Call(c)] = "none") =>
        Alive(pc) = {} /\ sock = "none" /\ readerTask = 0

\* close comes to an end, whatever the tasks it ends are doing.
CloseReturns == pc[Closer] \in {"closePing", "closeReader"} ~> pc[Closer] = "done"

\* Every request that has to reconnect returns to its caller, also when others
\* do so at the same time and connecting fails, except behind a keepalive that
\* waits for itself.
RequestsReturn ==
    \A c \in Callers :
        pc[Call(c)] \in Connecting ~>
            \/ pc[Call(c)] = "done"
            \/ \E n \in Slots : pc[Ping(n)] = "stuck"

\* A connection that was reset is opened again, if no attempt fails and the
\* client is not stopped.
ResetsRepaired == sock = "reset" ~> sock = "open" \/ stopEv \/ failures > 0

\* A connection that the reader has seen lost is opened again, also after
\* attempts that fail.
Reconnects ==
    \A n \in Slots :
        pc[Reader(n)] = "backoff" ~> (sock = "open" /\ authReady) \/ stopEv

\* A connection that was lost is opened again, whatever the error.
LossesRepaired ==
    sock \in LossKinds ~> sock = "open" \/ stopEv \/ failures > 0
=============================================================================
