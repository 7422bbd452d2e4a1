------------------------------ MODULE Dispatch ------------------------------
(***************************************************************************)
(* What happens to a packet that is fetched from the bus: Disp of          *)
(* goygram/core/disp.py with its filter of duplicates and its handlers,    *)
(* and the conversations (conv_wait, ask, _conv_dispatch) of AppCore in    *)
(* goygram/client.py.                                                      *)
(*                                                                         *)
(* There is one task that consumes the bus, and it awaits every handler.   *)
(* Packets are messages of one chat, identified by what the filter of      *)
(* duplicates compares (chat and message id).  The other kinds of packets  *)
(* differ in the list of handlers they go to.                              *)
(***************************************************************************)
EXTENDS Integers, Sequences, FiniteSets

CONSTANTS
  Msgs,      \* keys of the filter of duplicates
  Users,     \* who can write in the chat
  From,      \* the user that wrote each message
  Asks,      \* conversations that can be open at one time
  Hooks,     \* how many handlers there are in update_hook, and in hook
  BusMax,    \* size of the bus
  Window,    \* an entry is kept so long (300 seconds in the code)
  NoAsk,     \* stands for "no conversation"
  Err,       \* an error report on the bus
  MaxTime,   \* bound: the clock
  MaxPush,   \* bound: packets of the transports
  MaxAsks    \* bound: conversations that are started

ASSUME DispatchAssumption ==
  /\ IsFiniteSet(Asks) /\ IsFiniteSet(Msgs)
  /\ From \in [Msgs -> Users]
  /\ NoAsk \notin Asks /\ Err \notin Msgs
  /\ {Hooks, BusMax, Window, MaxTime, MaxPush, MaxAsks} \subseteq Nat
  /\ Window < MaxTime

VARIABLES
  now,     \* the clock
  pushes,  \* packets pushed so far
  bus,     \* packets queued
  seen,    \* _seen: when an entry was made; -1 when there is none
  sweep,   \* _seen_sweep
  at,      \* what the consumer does: "idle", or which handlers it runs
  msg,     \* the message it handles
  left,    \* handlers of its snapshot that have not run
  asker,   \* the conversation that the handler it runs waits for, or NoAsk
  conv,    \* _conv: the conversation registered for a user, or for anybody
  task,    \* what the task of a conversation does
  key,     \* the user it waits for
  fut,     \* its future
  asks,    \* conversations started so far
  last     \* history: when a message was last given to the handlers

clock == <<now, seen, sweep, last>>
consumer == <<at, msg, left, asker>>
talks == <<conv, task, key, fut, asks>>
vars == <<clock, pushes, bus, consumer, talks>>

Anybody == "anybody"
Partners == Users \cup {Anybody}
Never == -1

\* The types of the variables.
TypeOK ==
  /\ now \in 0 .. MaxTime /\ sweep \in 0 .. MaxTime
  /\ seen \in [Msgs -> -1 .. MaxTime] /\ last \in [Msgs -> -1 .. MaxTime]
  /\ pushes \in 0 .. MaxPush /\ bus \in Seq(Msgs \cup {Err}) /\ Len(bus) <= BusMax
  /\ at \in {"idle", "update", "hook"} /\ msg \in Msgs \cup {Err} /\ left \in 0 .. Hooks
  /\ asker \in Asks \cup {NoAsk}
  /\ conv \in [Partners -> Asks \cup {NoAsk}]
  /\ task \in [Asks -> {"none", "send", "wait"}]
  /\ key \in [Asks -> Partners]
  /\ fut \in [Asks -> {"open", "answer", "superseded", "timeout"}]
  /\ asks \in 0 .. MaxAsks

Init ==
  /\ now \in {0, Window + 1} /\ sweep = 0 /\ pushes = 0 /\ bus = <<>>
  /\ seen = [m \in Msgs |-> Never] /\ last = [m \in Msgs |-> Never]
  /\ at = "idle" /\ msg = Err /\ left = 0 /\ asker = NoAsk
  /\ conv = [p \in Partners |-> NoAsk]
  /\ task = [a \in Asks |-> "none"] /\ key = [a \in Asks |-> Anybody]
  /\ fut = [a \in Asks |-> "open"] /\ asks = 0

-----------------------------------------------------------------------------
(* The world *)

Tick ==
  /\ now < MaxTime /\ now' = now + 1
  /\ UNCHANGED <<seen, sweep, last, pushes, bus, consumer, talks>>

\* Mutant: a push does not wait for room.
PushAtOnce(m) ==
  /\ pushes < MaxPush /\ pushes' = pushes + 1
  /\ bus' = Append(bus, m)
  /\ UNCHANGED <<clock, consumer, talks>>

\* A transport pushes a message, possibly one that the other one has pushed.
Push(m) ==
  /\ pushes < MaxPush /\ pushes' = pushes + 1
  /\ Len(bus) < BusMax /\ bus' = Append(bus, m)
  /\ UNCHANGED <<clock, consumer, talks>>

-----------------------------------------------------------------------------
(* Conversations *)

\* Mutant: a conversation that ends takes whatever entry is there with it.
PopAny(a) == conv' = [conv EXCEPT ![key[a]] = NoAsk]

\* The `finally` of conv_wait.
PopOwn(a) == conv' = [p \in Partners |-> IF conv[p] = a THEN NoAsk ELSE conv[p]]

\* conv_wait takes the place of the conversation that waits for the same user.
Register(a, p) ==
  LET old == conv[p]
  IN  /\ conv' = [conv EXCEPT ![p] = a]
      /\ task' = [task EXCEPT ![a] = "wait"]
      /\ key' = [key EXCEPT ![a] = p]
      /\ fut' = [b \in Asks |-> IF b = a THEN "open"
                                ELSE IF b = old /\ fut[b] = "open" THEN "superseded"
                                ELSE fut[b]]

\* A task of the user calls ask, which sends the question first.
Ask(a, p) ==
  /\ task[a] = "none" /\ asks < MaxAsks
  /\ task' = [task EXCEPT ![a] = "send"]
  /\ key' = [key EXCEPT ![a] = p]
  /\ asks' = asks + 1
  /\ UNCHANGED <<clock, pushes, bus, consumer, conv, fut>>

\* send_msg has returned.
Wait(a) ==
  /\ task[a] = "send"
  /\ Register(a, key[a])
  /\ UNCHANGED <<clock, pushes, bus, consumer, asks>>

\* Mutant: conv_wait has no timeout.
NoTimeout(a) == FALSE /\ UNCHANGED vars

\* wait_for gives up.  It may do so in the turn in which the answer was set,
\* before the task has run: then the answer is dropped.
Timeout(a) ==
  /\ task[a] = "wait" /\ fut[a] \in {"open", "answer"}
  /\ fut' = [fut EXCEPT ![a] = "timeout"]
  /\ UNCHANGED <<clock, pushes, bus, consumer, conv, task, key, asks>>

\* conv_wait returns the answer or None, or raises.  A handler that waited for
\* it goes on.
Resume(a) ==
  /\ task[a] = "wait" /\ fut[a] # "open"
  /\ PopOwn(a)
  /\ task' = [task EXCEPT ![a] = "none"]
  /\ asker' = IF asker = a THEN NoAsk ELSE asker
  /\ key' = [key EXCEPT ![a] = Anybody] /\ fut' = [fut EXCEPT ![a] = "open"]
  /\ UNCHANGED <<clock, pushes, bus, at, msg, left, asks>>

\* Whom _conv_dispatch may give the message to: the conversation with anybody
\* comes before the one with the sender, and a filter may turn the message
\* down.  An entry whose future is done is removed on the way.
Open(p) == conv[p] # NoAsk /\ fut[conv[p]] = "open"

Answer(p) ==
  /\ Open(p)
  /\ fut' = [fut EXCEPT ![conv[p]] = "answer"]
  /\ conv' = [q \in Partners |->
                IF q = p \/ (q = Anybody /\ ~Open(q)) THEN NoAsk ELSE conv[q]]

NoAnswer ==
  /\ conv' = [q \in Partners |->
                IF q \in {Anybody, From[msg]} /\ ~Open(q) THEN NoAsk ELSE conv[q]]
  /\ UNCHANGED fut

-----------------------------------------------------------------------------
(* The consumer: Disp.consume and Disp.one *)

\* Nothing is left of the message the consumer has handled.
Idle == at' = "idle" /\ msg' = Err /\ left' = 0

\* Mutant: the consumer starts its handlers and does not wait for them.
Unbound == TRUE

\* The handler that runs does not wait.
Free == asker = NoAsk

\* Mutant: a sweep empties the table.
SweptClean == IF now - sweep > Window THEN [m \in Msgs |-> Never] ELSE seen

\* Mutant: there is no sweep.
SweptNot == seen

\* _is_duplicate removes what is too old, but not at every packet.
Swept == IF now - sweep > Window
           THEN [m \in Msgs |-> IF now - seen[m] > Window THEN Never ELSE seen[m]]
           ELSE seen

FetchErr ==
  /\ at = "idle" /\ bus # <<>> /\ Head(bus) = Err
  /\ bus' = Tail(bus)
  /\ UNCHANGED <<clock, pushes, consumer, talks>>

Fetch(m) ==
  /\ at = "idle" /\ bus # <<>> /\ Head(bus) = m
  /\ bus' = Tail(bus)
  /\ sweep' = IF now - sweep > Window THEN now ELSE sweep
  /\ IF Swept[m] # Never
       THEN seen' = Swept /\ UNCHANGED <<consumer, last>>
       ELSE /\ seen' = [Swept EXCEPT ![m] = now]
            /\ last' = [last EXCEPT ![m] = now]
            /\ at' = "update" /\ msg' = m /\ left' = Hooks /\ UNCHANGED asker
  /\ UNCHANGED <<now, pushes, talks>>

\* A handler returns, or raises: that is reported if the bus has room, and
\* the error handlers are awaited before the next one (_report_error).
RunHook ==
  /\ at # "idle" /\ Free /\ left > 0
  /\ left' = left - 1
  /\ bus' \in {bus} \cup (IF Len(bus) < BusMax THEN {Append(bus, Err)} ELSE {})
  /\ UNCHANGED <<clock, pushes, at, msg, asker, talks>>

\* It raises StopPropagation: nobody else gets the message, and no
\* conversation if it was a handler of all updates.
StopPropagation ==
  /\ at # "idle" /\ Free /\ left > 0
  /\ Idle
  /\ UNCHANGED <<clock, pushes, bus, asker, talks>>

\* A handler, or an error handler after the last of them, waits for an answer
\* (Obj.ask).
HookAsks(a, p) ==
  /\ at # "idle" /\ Free
  /\ task[a] = "none" /\ asks < MaxAsks
  /\ asks' = asks + 1 /\ asker' = a
  /\ Register(a, p)
  /\ UNCHANGED <<clock, pushes, bus, at, msg, left>>

\* The conversations come between the two lists of handlers.  An exception of
\* a filter leaves nothing of the message to do but its report.
Converse ==
  /\ at = "update" /\ Free /\ left = 0
  /\ \/ /\ \E p \in {Anybody, From[msg]} : Answer(p) \/ NoAnswer
        /\ at' = "hook" /\ left' = Hooks /\ UNCHANGED <<msg, bus>>
     \/ /\ \E p \in {Anybody, From[msg]} :
             /\ Open(p)
             /\ conv' = [q \in Partners |->
                          IF q = Anybody /\ p # q /\ ~Open(q) THEN NoAsk ELSE conv[q]]
        /\ at' = "hook" /\ left' = 0 /\ UNCHANGED <<msg, fut>>
        /\ bus' = IF Len(bus) < BusMax THEN Append(bus, Err) ELSE bus
  /\ UNCHANGED <<clock, pushes, asker, task, key, asks>>

Finish ==
  /\ at = "hook" /\ Free /\ left = 0
  /\ Idle
  /\ UNCHANGED <<clock, pushes, bus, asker, talks>>

-----------------------------------------------------------------------------
Consume ==
  \/ FetchErr \/ RunHook \/ StopPropagation \/ Converse \/ Finish
  \/ \E m \in Msgs : Fetch(m)

Next ==
  \/ Tick \/ Consume
  \/ \E m \in Msgs : Push(m)
  \/ \E a \in Asks : Wait(a) \/ Timeout(a) \/ Resume(a)
  \/ \E a \in Asks, p \in Partners : Ask(a, p) \/ HookAsks(a, p)

Spec == Init /\ [][Next]_vars

\* The event loop runs the consumer and the tasks; timers fire; a question that
\* is sent is answered by the server, or its request times out.
Fairness ==
  /\ WF_vars(Consume)
  /\ \A a \in Asks : WF_vars(Wait(a)) /\ WF_vars(Timeout(a)) /\ WF_vars(Resume(a))

LiveSpec == Spec /\ Fairness

-----------------------------------------------------------------------------
(* Properties *)

\* A conversation can be answered as long as it is not over: its entry is not
\* taken away by the end of one that it replaced, by a filter, a message or a
\* timeout of another; and no entry stays behind whose task is gone.
WaitersAreRegistered ==
  /\ \A a \in Asks : task[a] = "wait" /\ fut[a] = "open" => conv[key[a]] = a
  /\ \A p \in Partners : conv[p] # NoAsk => task[conv[p]] = "wait" /\ key[conv[p]] = p

\* A handler that waits for an answer waits in vain: the message that it waits
\* for stays on the bus until it has given up.
HandlersWaitInVain == asker # NoAsk => fut[asker] # "answer"

Given(m) == at = "idle" /\ at' = "update" /\ msg' = m
Dropped(m) == bus # <<>> /\ Head(bus) = m /\ bus' = Tail(bus) /\ at = "idle" /\ at' = "idle"

\* A message that comes again, over the other transport or after a lost answer,
\* is not given to the handlers twice within the window ...
NotTwiceInWindow ==
  [][\A m \in Msgs : Given(m) /\ last[m] # Never => now - last[m] > Window]_vars

\* ... and is not dropped once two windows have passed, although the table is
\* swept only now and then.
DroppedIsRecent ==
  [][\A m \in Msgs : Dropped(m) => last[m] # Never /\ now - last[m] <= 2 * Window]_vars

\* Whatever handlers and tasks wait for, and whoever replaces whom, the bus is
\* emptied and every conversation ends.
Settles == <>[](bus = <<>> /\ at = "idle" /\ \A a \in Asks : task[a] = "none")
=============================================================================
