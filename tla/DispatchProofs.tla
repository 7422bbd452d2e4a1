--------------------------- MODULE DispatchProofs ---------------------------
(***************************************************************************)
(* Proofs about the dispatcher, for any set of messages, users and         *)
(* conversations, any number of handlers, and any window, bus and bounds.  *)
(***************************************************************************)
EXTENDS Dispatch, SequenceTheorems, TLAPS

\* The consumer handles a message, not an error report.
Handling == at # "idle" => msg \in Msgs

\* A handler that waits is known to its conversation, which has no answer.
Asking == asker # NoAsk => task[asker] = "wait" /\ fut[asker] # "answer"

\* An entry of the filter is from the last time the message was handled, and
\* not older than a window before the last sweep; what was handled and has no entry
\* is older than a window.
Filter ==
  /\ sweep <= now
  /\ \A m \in Msgs :
       /\ seen[m] # Never => seen[m] = last[m] /\ sweep - Window <= seen[m]
       /\ seen[m] = Never /\ last[m] # Never => now - last[m] > Window

DispatchInv == TypeOK /\ Handling /\ WaitersAreRegistered /\ Asking /\ Filter

-----------------------------------------------------------------------------
(* Lemmas *)

\* The constants are numbers.
LEMMA Numbers ==
  /\ Hooks \in Nat /\ BusMax \in Nat /\ Window \in Nat /\ MaxTime \in Nat
  /\ MaxPush \in Nat /\ MaxAsks \in Nat /\ Window < MaxTime
  /\ NoAsk \notin Asks /\ Err \notin Msgs /\ Anybody \in Partners
  /\ \A m \in Msgs : From[m] \in Partners
BY DispatchAssumption DEF Partners

\* An appended or a shortened queue is a queue, and not the one it was.
LEMMA Queues ==
  ASSUME TypeOK
  PROVE  /\ \A e \in Msgs \cup {Err} : Len(bus) < BusMax =>
              Append(bus, e) \in Seq(Msgs \cup {Err}) /\ Len(Append(bus, e)) <= BusMax
         /\ bus # <<>> => /\ Tail(bus) \in Seq(Msgs \cup {Err}) /\ Len(Tail(bus)) <= BusMax
                          /\ Tail(bus) # bus /\ Head(bus) \in Msgs \cup {Err}
         /\ \A e \in Msgs \cup {Err} : bus # <<>> => Tail(bus) # Append(bus, e)
<1>1. bus \in Seq(Msgs \cup {Err}) /\ Len(bus) \in Nat /\ Len(bus) <= BusMax
      /\ BusMax \in Nat
  BY Numbers, LenProperties DEF TypeOK
<1>2. \A e \in Msgs \cup {Err} :
        Append(bus, e) \in Seq(Msgs \cup {Err}) /\ Len(Append(bus, e)) = Len(bus) + 1
  BY <1>1, AppendProperties
<1>3. bus # <<>> => /\ Tail(bus) \in Seq(Msgs \cup {Err}) /\ Len(Tail(bus)) = Len(bus) - 1
                    /\ Head(bus) \in Msgs \cup {Err}
  BY <1>1, HeadTailProperties
<1> HIDE DEF TypeOK
<1>4. ASSUME NEW e \in Msgs \cup {Err}, Len(bus) < BusMax
      PROVE  Append(bus, e) \in Seq(Msgs \cup {Err}) /\ Len(Append(bus, e)) <= BusMax
  BY <1>1, <1>2, <1>4
<1>5. bus # <<>> => Len(Tail(bus)) <= BusMax /\ Tail(bus) # bus
  BY <1>1, <1>3
<1>6. ASSUME NEW e \in Msgs \cup {Err}, bus # <<>> PROVE Tail(bus) # Append(bus, e)
  BY <1>1, <1>2, <1>3, <1>6
<1> QED
  BY <1>3, <1>4, <1>5, <1>6

\* Conversations that nothing happens to.
LEMMA TalksKept ==
  ASSUME DispatchInv, UNCHANGED <<conv, task, key, fut, asker>>
  PROVE  WaitersAreRegistered' /\ Asking'
BY DEF DispatchInv, WaitersAreRegistered, Asking

\* A filter that nothing happens to but time.
LEMMA FilterKept ==
  ASSUME DispatchInv, UNCHANGED <<seen, sweep, last>>, now' \in Int, now <= now'
  PROVE  Filter'
<1>1. ASSUME NEW m \in Msgs, seen[m] = Never, last[m] # Never
      PROVE  now' - last[m] > Window
  <2>1. now \in Int /\ last[m] \in Int /\ Window \in Int
    BY Numbers DEF DispatchInv, TypeOK
  <2>2. now - last[m] > Window
    BY <1>1 DEF DispatchInv, Filter
  <2> HIDE DEF DispatchInv
  <2> QED
    BY <2>1, <2>2
<1>2. sweep' <= now'
  <2>1. now \in Int /\ sweep \in Int /\ sweep <= now
    BY DEF DispatchInv, TypeOK, Filter
  <2> HIDE DEF DispatchInv
  <2> QED
    BY <2>1, SMT
<1> QED
  BY <1>1, <1>2 DEF DispatchInv, Filter

\* The first state.
LEMMA InitDispatch == Init => DispatchInv
<1> SUFFICES ASSUME Init PROVE DispatchInv
  OBVIOUS
<1>1. TypeOK
  <2>1. /\ now \in 0 .. MaxTime /\ 0 \in 0 .. MaxTime /\ 0 \in 0 .. MaxPush
        /\ 0 \in 0 .. MaxAsks /\ 0 \in 0 .. Hooks /\ -1 \in -1 .. MaxTime
    BY Numbers, SMT DEF Init
  <2>2. <<>> \in Seq(Msgs \cup {Err}) /\ Len(<<>>) <= BusMax
    BY Numbers
  <2> QED
    BY <2>1, <2>2, Numbers DEF Init, TypeOK, Never
<1>2. Handling /\ WaitersAreRegistered /\ Asking
  BY DEF Init, Handling, WaitersAreRegistered, Asking
<1>3. Filter
  BY Numbers DEF Init, Filter
<1> QED
  BY <1>1, <1>2, <1>3 DEF DispatchInv

-----------------------------------------------------------------------------
(* The world, and the steps that only move the consumer *)

LEMMA TickKeeps ==
  ASSUME DispatchInv, Tick PROVE DispatchInv'
<1>1. /\ now' \in 0 .. MaxTime /\ now' \in Int /\ now <= now'
      /\ UNCHANGED <<seen, sweep, last, pushes, bus, at, msg, left, asker, conv, task, key,
                     fut, asks>>
  BY Numbers, SMT DEF Tick, DispatchInv, TypeOK, consumer, talks
<1>2. TypeOK' /\ Handling'
  BY <1>1 DEF DispatchInv, TypeOK, Handling
<1> QED
  BY <1>1, <1>2, TalksKept, FilterKept DEF DispatchInv

\* The bus and the consumer may change as their types allow.
LEMMA ConsumerKeeps ==
  ASSUME DispatchInv, UNCHANGED <<clock, talks, asker>>,
         pushes' \in 0 .. MaxPush, bus' \in Seq(Msgs \cup {Err}), Len(bus') <= BusMax,
         at' \in {"idle", "update", "hook"}, msg' \in Msgs \cup {Err}, left' \in 0 .. Hooks,
         at' # "idle" => msg' \in Msgs
  PROVE  DispatchInv'
<1>1. UNCHANGED <<now, seen, sweep, last, conv, task, key, fut, asks, asker>>
  BY DEF clock, talks
<1>2. TypeOK' /\ Handling'
  BY <1>1 DEF DispatchInv, TypeOK, Handling
<1>3. now' \in Int /\ now <= now'
  BY <1>1, SMT DEF DispatchInv, TypeOK
<1> QED
  BY <1>1, <1>2, <1>3, TalksKept, FilterKept DEF DispatchInv

LEMMA QuietDispatchKeeps ==
  ASSUME DispatchInv,
         (\E m \in Msgs : Push(m)) \/ FetchErr \/ RunHook \/ StopPropagation \/ Finish
           \/ UNCHANGED vars
  PROVE  DispatchInv'
<1>0. /\ pushes \in 0 .. MaxPush /\ bus \in Seq(Msgs \cup {Err}) /\ Len(bus) <= BusMax
      /\ at \in {"idle", "update", "hook"} /\ msg \in Msgs \cup {Err} /\ left \in 0 .. Hooks
      /\ 0 \in 0 .. Hooks
      /\ (at # "idle" => msg \in Msgs)
  BY Numbers DEF DispatchInv, TypeOK, Handling
<1>1. ASSUME NEW m \in Msgs, Push(m) PROVE DispatchInv'
  <2>1. pushes' \in 0 .. MaxPush
    BY <1>0, <1>1, Numbers, SMT DEF Push
  <2>2. bus' \in Seq(Msgs \cup {Err}) /\ Len(bus') <= BusMax
    BY <1>1, Queues DEF Push, DispatchInv
  <2> QED
    BY <1>0, <1>1, <2>1, <2>2, ConsumerKeeps DEF Push, consumer
<1>2. CASE FetchErr
  <2>1. bus' \in Seq(Msgs \cup {Err}) /\ Len(bus') <= BusMax
    BY <1>2, Queues DEF FetchErr, DispatchInv
  <2> QED
    BY <1>0, <1>2, <2>1, ConsumerKeeps DEF FetchErr, consumer
<1>3. CASE RunHook
  <2>1. bus' \in Seq(Msgs \cup {Err}) /\ Len(bus') <= BusMax
    BY <1>0, <1>3, Queues DEF RunHook, DispatchInv
  <2>2. left' \in 0 .. Hooks
    BY <1>0, <1>3, Numbers, SMT DEF RunHook
  <2> QED
    BY <1>0, <1>3, <2>1, <2>2, ConsumerKeeps DEF RunHook
<1>4. CASE StopPropagation
  BY <1>0, <1>4, ConsumerKeeps DEF StopPropagation, Idle
<1>5. CASE Finish
  BY <1>0, <1>5, ConsumerKeeps DEF Finish, Idle
<1>6. CASE UNCHANGED vars
  BY <1>0, <1>6, ConsumerKeeps DEF vars, consumer
<1> QED
  BY <1>1, <1>2, <1>3, <1>4, <1>5, <1>6

\* A packet is fetched and goes through the filter.
LEMMA FetchKeeps ==
  ASSUME DispatchInv, NEW m \in Msgs, Fetch(m) PROVE DispatchInv'
<1> USE DEF DispatchInv
<1>0. /\ bus' = Tail(bus) /\ bus # <<>> /\ Head(bus) = m /\ at = "idle"
      /\ UNCHANGED <<now, pushes, asker, conv, task, key, fut, asks>>
      /\ sweep' = (IF now - sweep > Window THEN now ELSE sweep)
      /\ \/ Swept[m] # Never /\ seen' = Swept /\ UNCHANGED <<at, msg, left, last>>
         \/ /\ Swept[m] = Never
            /\ seen' = [Swept EXCEPT ![m] = now] /\ last' = [last EXCEPT ![m] = now]
            /\ at' = "update" /\ msg' = m /\ left' = Hooks
  BY DEF Fetch, talks, consumer
<1>1. /\ now \in 0 .. MaxTime /\ sweep \in 0 .. MaxTime /\ Window \in Nat
      /\ seen \in [Msgs -> -1 .. MaxTime] /\ last \in [Msgs -> -1 .. MaxTime]
      /\ MaxTime \in Nat
  BY Numbers DEF TypeOK
<1>2. Swept \in [Msgs -> -1 .. MaxTime]
  BY <1>1 DEF Swept, Never
<1>3. seen' \in [Msgs -> -1 .. MaxTime] /\ last' \in [Msgs -> -1 .. MaxTime]
      /\ sweep' \in 0 .. MaxTime
  <2>1. now \in -1 .. MaxTime
    BY <1>1
  <2> QED
    BY <1>0, <1>1, <1>2, <2>1
<1>4. bus' \in Seq(Msgs \cup {Err}) /\ Len(bus') <= BusMax
  BY <1>0, Queues
<1>5. TypeOK' /\ Handling'
  <2>1. Hooks \in 0 .. Hooks
    BY Numbers
  <2> QED
    BY <1>0, <1>3, <1>4, <2>1 DEF TypeOK, Handling
<1>6. ASSUME NEW x \in Msgs
      PROVE  /\ Swept[x] # Never => Swept[x] = last[x] /\ sweep' - Window <= Swept[x]
             /\ Swept[x] = Never /\ last[x] # Never => now - last[x] > Window
  <2>1. /\ seen[x] # Never => seen[x] = last[x] /\ sweep - Window <= seen[x]
        /\ seen[x] = Never /\ last[x] # Never => now - last[x] > Window
    BY DEF Filter
  <2>2. seen[x] \in Int /\ last[x] \in Int /\ now \in Int /\ sweep \in Int /\ Window \in Int
    BY <1>1
  <2>3. CASE now - sweep > Window
    <3>1. Swept[x] = (IF now - seen[x] > Window THEN Never ELSE seen[x]) /\ sweep' = now
      BY <1>0, <2>3 DEF Swept
    <3> HIDE DEF DispatchInv
    <3> QED
      BY <2>1, <2>2, <3>1, SMT DEF Never
  <2>4. CASE ~(now - sweep > Window)
    BY <1>0, <2>1, <2>4 DEF Swept
  <2> QED
    BY <2>3, <2>4
<1>7. sweep <= now /\ sweep' <= now'
  BY <1>0, <1>1 DEF Filter
<1>8. Filter'
  <2>1. ASSUME NEW x \in Msgs, seen'[x] = Swept[x], last'[x] = last[x]
        PROVE  /\ seen'[x] # Never => seen'[x] = last'[x] /\ sweep' - Window <= seen'[x]
               /\ seen'[x] = Never /\ last'[x] # Never => now' - last'[x] > Window
    BY <1>0, <1>6, <2>1
  <2>2. CASE Swept[m] # Never
    BY <1>0, <1>7, <2>1, <2>2 DEF Filter
  <2>3. CASE Swept[m] = Never
    <3>1. seen'[m] = now /\ last'[m] = now /\ now # Never
      BY <1>0, <1>1, <1>2, <2>3 DEF Never
    <3>2. sweep' - Window <= now
      <4> HIDE DEF DispatchInv
      <4> QED
        BY <1>0, <1>1, <1>7, SMT
    <3>3. \A x \in Msgs \ {m} : seen'[x] = Swept[x] /\ last'[x] = last[x]
      BY <1>0, <1>1, <1>2, <2>3
    <3> QED
      BY <1>0, <1>7, <2>1, <3>1, <3>2, <3>3 DEF Filter
  <2> QED
    BY <2>2, <2>3
<1>9. WaitersAreRegistered' /\ Asking'
  BY <1>0, TalksKept
<1> QED
  BY <1>5, <1>8, <1>9

-----------------------------------------------------------------------------
(* Conversations *)

\* What only concerns the conversations leaves the rest of the invariant.
LEMMA ConversationKeeps ==
  ASSUME DispatchInv, UNCHANGED <<clock, pushes, bus, at, msg, left>>,
         WaitersAreRegistered', Asking',
         asker' \in Asks \cup {NoAsk},
         conv' \in [Partners -> Asks \cup {NoAsk}],
         task' \in [Asks -> {"none", "send", "wait"}],
         key' \in [Asks -> Partners],
         fut' \in [Asks -> {"open", "answer", "superseded", "timeout"}],
         asks' \in 0 .. MaxAsks
  PROVE  DispatchInv'
<1>1. UNCHANGED <<now, seen, sweep, last>>
  BY DEF clock
<1>2. TypeOK' /\ Handling'
  BY <1>1 DEF DispatchInv, TypeOK, Handling
<1>3. now' \in Int /\ now <= now'
  BY <1>1, SMT DEF DispatchInv, TypeOK
<1> QED
  BY <1>1, <1>2, <1>3, FilterKept DEF DispatchInv

\* The types that the steps of a conversation start from.
LEMMA TalkTypes ==
  ASSUME DispatchInv
  PROVE  /\ asker \in Asks \cup {NoAsk} /\ conv \in [Partners -> Asks \cup {NoAsk}]
         /\ task \in [Asks -> {"none", "send", "wait"}] /\ key \in [Asks -> Partners]
         /\ fut \in [Asks -> {"open", "answer", "superseded", "timeout"}]
         /\ asks \in 0 .. MaxAsks /\ NoAsk \notin Asks /\ Anybody \in Partners
BY Numbers DEF DispatchInv, TypeOK

\* A conversation that was not waiting is registered.
LEMMA RegisterKeeps ==
  ASSUME DispatchInv, NEW a \in Asks, NEW p \in Partners, task[a] # "wait",
         Register(a, p), asker' = asker \/ asker' = a
  PROVE  /\ WaitersAreRegistered' /\ Asking'
         /\ conv' \in [Partners -> Asks \cup {NoAsk}]
         /\ task' \in [Asks -> {"none", "send", "wait"}]
         /\ key' \in [Asks -> Partners]
         /\ fut' \in [Asks -> {"open", "answer", "superseded", "timeout"}]
<1>0. /\ asker \in Asks \cup {NoAsk} /\ conv \in [Partners -> Asks \cup {NoAsk}]
      /\ task \in [Asks -> {"none", "send", "wait"}] /\ key \in [Asks -> Partners]
      /\ fut \in [Asks -> {"open", "answer", "superseded", "timeout"}]
      /\ NoAsk \notin Asks
  BY TalkTypes
<1>1. /\ conv' \in [Partners -> Asks \cup {NoAsk}] /\ conv'[p] = a
      /\ \A q \in Partners \ {p} : conv'[q] = conv[q]
      /\ task' \in [Asks -> {"none", "send", "wait"}] /\ task'[a] = "wait"
      /\ \A b \in Asks \ {a} : task'[b] = task[b]
      /\ key' \in [Asks -> Partners] /\ key'[a] = p
      /\ \A b \in Asks \ {a} : key'[b] = key[b]
  BY <1>0 DEF Register
<1>2. /\ fut' \in [Asks -> {"open", "answer", "superseded", "timeout"}] /\ fut'[a] = "open"
      /\ \A b \in Asks \ {a} : fut'[b] \in {fut[b], "superseded"}
      /\ \A b \in Asks \ {a} : fut'[b] = "open" => fut[b] = "open" /\ b # conv[p]
  BY <1>0 DEF Register
<1>3. ASSUME NEW b \in Asks, task'[b] = "wait", fut'[b] = "open" PROVE conv'[key'[b]] = b
  <2>1. CASE b = a
    BY <1>1, <2>1
  <2>2. CASE b # a
    <3>1. conv[key[b]] = b /\ key'[b] = key[b] /\ b # conv[p]
      BY <1>1, <1>2, <1>3, <2>2 DEF DispatchInv, WaitersAreRegistered
    <3>2. key[b] \in Partners \ {p}
      BY <1>0, <3>1
    <3> QED
      BY <1>1, <3>1, <3>2
  <2> QED
    BY <2>1, <2>2
<1>4. ASSUME NEW q \in Partners, conv'[q] # NoAsk
      PROVE  task'[conv'[q]] = "wait" /\ key'[conv'[q]] = q
  <2>1. CASE q = p
    BY <1>1, <2>1
  <2>2. CASE q # p
    <3>1. conv'[q] = conv[q] /\ conv[q] \in Asks
      BY <1>0, <1>1, <1>4, <2>2
    <3>2. task[conv[q]] = "wait" /\ key[conv[q]] = q
      BY <1>4, <3>1 DEF DispatchInv, WaitersAreRegistered
    <3> QED
      BY <1>1, <3>1, <3>2
  <2> QED
    BY <2>1, <2>2
<1>5. Asking'
  <2>1. CASE asker' = a
    BY <1>1, <1>2, <2>1 DEF Asking
  <2>2. CASE asker' = asker /\ asker # NoAsk
    <3>1. task[asker] = "wait" /\ fut[asker] # "answer" /\ asker \in Asks \ {a}
      BY <1>0, <2>2 DEF DispatchInv, Asking
    <3> QED
      BY <1>1, <1>2, <2>2, <3>1 DEF Asking
  <2>3. CASE asker' = NoAsk
    BY <2>3 DEF Asking
  <2> QED
    BY <2>1, <2>2, <2>3
<1> QED
  BY <1>1, <1>2, <1>3, <1>4, <1>5 DEF WaitersAreRegistered

\* The steps of the task of a conversation, and of a handler that asks.
LEMMA TaskKeeps ==
  ASSUME DispatchInv, NEW a \in Asks,
         \/ Wait(a) \/ Timeout(a) \/ Resume(a)
         \/ \E p \in Partners : Ask(a, p) \/ HookAsks(a, p)
  PROVE  DispatchInv'
<1>0. /\ asker \in Asks \cup {NoAsk} /\ conv \in [Partners -> Asks \cup {NoAsk}]
      /\ task \in [Asks -> {"none", "send", "wait"}] /\ key \in [Asks -> Partners]
      /\ fut \in [Asks -> {"open", "answer", "superseded", "timeout"}]
      /\ asks \in 0 .. MaxAsks /\ NoAsk \notin Asks /\ Anybody \in Partners
  BY TalkTypes
<1>1. /\ \A b \in Asks : task[b] = "wait" /\ fut[b] = "open" => conv[key[b]] = b
      /\ \A q \in Partners : conv[q] # NoAsk => task[conv[q]] = "wait" /\ key[conv[q]] = q
      /\ asker # NoAsk => task[asker] = "wait" /\ fut[asker] # "answer"
  BY DEF DispatchInv, WaitersAreRegistered, Asking
<1>2. CASE Wait(a)
  <2>1. UNCHANGED <<clock, pushes, bus, at, msg, left, asker, asks>> /\ task[a] # "wait"
        /\ key[a] \in Partners /\ Register(a, key[a])
    BY <1>0, <1>2 DEF Wait, consumer
  <2> QED
    BY <1>0, <2>1, RegisterKeeps, ConversationKeeps
<1>3. ASSUME NEW p \in Partners, HookAsks(a, p) PROVE DispatchInv'
  <2>1. asks' \in 0 .. MaxAsks
    BY <1>0, <1>3, Numbers, SMT DEF HookAsks
  <2>2. UNCHANGED <<clock, pushes, bus, at, msg, left>> /\ task[a] # "wait"
        /\ Register(a, p) /\ asker' = a
    BY <1>3 DEF HookAsks
  <2> QED
    BY <1>0, <2>1, <2>2, RegisterKeeps, ConversationKeeps
<1>4. ASSUME NEW p \in Partners, Ask(a, p) PROVE DispatchInv'
  <2>1. asks' \in 0 .. MaxAsks
    BY <1>0, <1>4, Numbers, SMT DEF Ask
  <2>2. /\ UNCHANGED <<clock, pushes, bus, at, msg, left, asker, conv, fut>>
        /\ task[a] = "none" /\ task' = [task EXCEPT ![a] = "send"]
        /\ key' = [key EXCEPT ![a] = p]
    BY <1>4 DEF Ask, consumer
  <2>3. /\ task' \in [Asks -> {"none", "send", "wait"}] /\ key' \in [Asks -> Partners]
        /\ task'[a] = "send"
        /\ \A b \in Asks \ {a} : task'[b] = task[b] /\ key'[b] = key[b]
    BY <1>0, <2>2
  <2>4. WaitersAreRegistered'
    BY <1>0, <1>1, <2>2, <2>3 DEF WaitersAreRegistered
  <2>5. Asking'
    BY <1>0, <1>1, <2>2, <2>3 DEF Asking
  <2> QED
    BY <1>0, <2>1, <2>2, <2>3, <2>4, <2>5, ConversationKeeps
<1>5. CASE Timeout(a)
  <2>1. /\ UNCHANGED <<clock, pushes, bus, at, msg, left, asker, conv, task, key, asks>>
        /\ fut' = [fut EXCEPT ![a] = "timeout"]
    BY <1>5 DEF Timeout, consumer
  <2>2. /\ fut' \in [Asks -> {"open", "answer", "superseded", "timeout"}]
        /\ fut'[a] = "timeout" /\ \A b \in Asks \ {a} : fut'[b] = fut[b]
    BY <1>0, <2>1
  <2>3. WaitersAreRegistered' /\ Asking'
    BY <1>0, <1>1, <2>1, <2>2 DEF WaitersAreRegistered, Asking
  <2> QED
    BY <1>0, <2>1, <2>2, <2>3, ConversationKeeps
<1>6. CASE Resume(a)
  <2>1. /\ UNCHANGED <<clock, pushes, bus, at, msg, left, asks>> /\ fut[a] # "open"
        /\ conv' = [q \in Partners |-> IF conv[q] = a THEN NoAsk ELSE conv[q]]
        /\ task' = [task EXCEPT ![a] = "none"]
        /\ asker' = IF asker = a THEN NoAsk ELSE asker
        /\ key' = [key EXCEPT ![a] = Anybody] /\ fut' = [fut EXCEPT ![a] = "open"]
    BY <1>6 DEF Resume, PopOwn
  <2>2. /\ conv' \in [Partners -> Asks \cup {NoAsk}]
        /\ task' \in [Asks -> {"none", "send", "wait"}] /\ key' \in [Asks -> Partners]
        /\ fut' \in [Asks -> {"open", "answer", "superseded", "timeout"}]
        /\ asker' \in Asks \cup {NoAsk} /\ task'[a] = "none"
    BY <1>0, <2>1
  <2>3. \A b \in Asks \ {a} : task'[b] = task[b] /\ key'[b] = key[b] /\ fut'[b] = fut[b]
    BY <1>0, <2>1
  <2>4. ASSUME NEW b \in Asks, task'[b] = "wait", fut'[b] = "open" PROVE conv'[key'[b]] = b
    <3>1. b # a /\ conv[key[b]] = b /\ key'[b] = key[b] /\ key[b] \in Partners
      BY <1>0, <1>1, <2>2, <2>3, <2>4
    <3> QED
      BY <2>1, <3>1
  <2>5. ASSUME NEW q \in Partners, conv'[q] # NoAsk
        PROVE  task'[conv'[q]] = "wait" /\ key'[conv'[q]] = q
    <3>1. conv'[q] = conv[q] /\ conv[q] \in Asks \ {a}
      BY <1>0, <2>1, <2>5
    <3> QED
      BY <1>1, <2>3, <2>5, <3>1
  <2>6. Asking'
    BY <1>0, <1>1, <2>1, <2>3 DEF Asking
  <2> QED
    BY <1>0, <2>1, <2>2, <2>4, <2>5, <2>6, ConversationKeeps DEF WaitersAreRegistered
<1> QED
  BY <1>2, <1>3, <1>4, <1>5, <1>6

\* An entry of which the future is done may be removed, and an open future may be
\* given its answer while no handler waits.
LEMMA CleanedUp ==
  ASSUME DispatchInv, asker = NoAsk, UNCHANGED <<asker, task, key>>,
         \A q \in Partners : conv'[q] \in {conv[q], NoAsk},
         \A b \in Asks : fut'[b] = "open" => fut[b] = "open",
         \A q \in Partners :
           conv[q] # NoAsk /\ fut'[conv[q]] = "open" => conv'[q] = conv[q]
  PROVE  WaitersAreRegistered' /\ Asking'
<1>0. key \in [Asks -> Partners] /\ NoAsk \notin Asks
  BY TalkTypes
<1>1. /\ \A b \in Asks : task[b] = "wait" /\ fut[b] = "open" => conv[key[b]] = b
      /\ \A q \in Partners : conv[q] # NoAsk => task[conv[q]] = "wait" /\ key[conv[q]] = q
  BY DEF DispatchInv, WaitersAreRegistered
<1>2. ASSUME NEW b \in Asks, task'[b] = "wait", fut'[b] = "open" PROVE conv'[key'[b]] = b
  <2>1. conv[key[b]] = b /\ key[b] \in Partners /\ b # NoAsk
    BY <1>0, <1>1, <1>2
  <2> QED
    BY <1>2, <2>1
<1>3. ASSUME NEW q \in Partners, conv'[q] # NoAsk
      PROVE  task'[conv'[q]] = "wait" /\ key'[conv'[q]] = q
  <2>1. conv'[q] = conv[q]
    BY <1>3
  <2> QED
    BY <1>1, <1>3, <2>1
<1> QED
  BY <1>2, <1>3 DEF WaitersAreRegistered, Asking

\* The conversations get the message.
LEMMA ConverseKeeps ==
  ASSUME DispatchInv, Converse PROVE DispatchInv'
<1>0. /\ asker \in Asks \cup {NoAsk} /\ conv \in [Partners -> Asks \cup {NoAsk}]
      /\ task \in [Asks -> {"none", "send", "wait"}] /\ key \in [Asks -> Partners]
      /\ fut \in [Asks -> {"open", "answer", "superseded", "timeout"}]
      /\ asks \in 0 .. MaxAsks /\ NoAsk \notin Asks /\ Anybody \in Partners
  BY TalkTypes
<1>1. /\ UNCHANGED <<now, seen, sweep, last, pushes, asker, task, key, asks>>
      /\ asker = NoAsk /\ msg \in Msgs /\ From[msg] \in Partners
  BY Numbers DEF Converse, Free, clock, DispatchInv, Handling
<1> DEFINE Cleaned ==
      /\ conv' \in [Partners -> Asks \cup {NoAsk}]
      /\ fut' \in [Asks -> {"open", "answer", "superseded", "timeout"}]
      /\ \A q \in Partners : conv'[q] \in {conv[q], NoAsk}
      /\ \A b \in Asks : fut'[b] = "open" => fut[b] = "open"
      /\ \A q \in Partners :
           conv[q] # NoAsk /\ fut'[conv[q]] = "open" => conv'[q] = conv[q]
<1>2. ASSUME NEW p \in Partners, Answer(p) PROVE Cleaned
  <2>1. conv[p] \in Asks /\ fut[conv[p]] = "open"
        /\ fut' = [fut EXCEPT ![conv[p]] = "answer"]
        /\ conv' = [q \in Partners |->
                      IF q = p \/ (q = Anybody /\ ~Open(q)) THEN NoAsk ELSE conv[q]]
    BY <1>0, <1>2 DEF Answer, Open
  <2>2. /\ conv' \in [Partners -> Asks \cup {NoAsk}]
        /\ fut' \in [Asks -> {"open", "answer", "superseded", "timeout"}]
        /\ \A q \in Partners : conv'[q] \in {conv[q], NoAsk}
        /\ \A b \in Asks : fut'[b] = "open" => fut[b] = "open" /\ b # conv[p]
    BY <1>0, <2>1
  <2>3. ASSUME NEW q \in Partners, conv[q] # NoAsk, fut'[conv[q]] = "open"
        PROVE  conv'[q] = conv[q]
    <3>1. conv[q] \in Asks
      BY <1>0, <2>3
    <3>2. q # p /\ Open(q)
      BY <2>2, <2>3, <3>1 DEF Open
    <3> QED
      BY <2>1, <3>2
  <2> QED
    BY <2>2, <2>3
<1>3. ASSUME NoAnswer PROVE Cleaned
  <2>1. UNCHANGED fut
        /\ conv' = [q \in Partners |->
                      IF q \in {Anybody, From[msg]} /\ ~Open(q) THEN NoAsk ELSE conv[q]]
    BY <1>3 DEF NoAnswer
  <2> QED
    BY <1>0, <2>1 DEF Open
<1>4. ASSUME NEW p \in Partners, UNCHANGED fut,
             conv' = [q \in Partners |->
                        IF q = Anybody /\ p # q /\ ~Open(q) THEN NoAsk ELSE conv[q]]
      PROVE  Cleaned
  BY <1>0, <1>4 DEF Open
<1>5. Cleaned
  <2>1. (\E p \in Partners : Answer(p)) \/ NoAnswer
          \/ \E p \in Partners : UNCHANGED fut /\
               conv' = [q \in Partners |->
                          IF q = Anybody /\ p # q /\ ~Open(q) THEN NoAsk ELSE conv[q]]
    BY <1>0, <1>1 DEF Converse
  <2> HIDE DEF Cleaned
  <2> QED
    BY <1>2, <1>3, <1>4, <2>1
<1>6. WaitersAreRegistered' /\ Asking'
  BY <1>1, <1>5, CleanedUp
<1>7. bus' \in Seq(Msgs \cup {Err}) /\ Len(bus') <= BusMax
  <2>1. bus' = bus \/ (bus' = Append(bus, Err) /\ Len(bus) < BusMax)
    BY DEF Converse
  <2> QED
    BY <2>1, Queues DEF DispatchInv, TypeOK
<1>8. /\ at' \in {"idle", "update", "hook"} /\ msg' \in Msgs \cup {Err} /\ left' \in 0 .. Hooks
      /\ (at' # "idle" => msg' \in Msgs)
  <2>1. 0 \in 0 .. Hooks /\ Hooks \in 0 .. Hooks
    BY Numbers
  <2> QED
    BY <1>1, <2>1 DEF Converse, Idle
<1>9. TypeOK' /\ Handling'
  BY <1>1, <1>5, <1>7, <1>8 DEF DispatchInv, TypeOK, Handling
<1>10. Filter'
  <2>1. now' \in Int /\ now <= now'
    BY <1>1, SMT DEF DispatchInv, TypeOK
  <2> QED
    BY <1>1, <2>1, FilterKept
<1> QED
  BY <1>6, <1>9, <1>10 DEF DispatchInv

\* Every step.
LEMMA NextKeepsDispatch == DispatchInv /\ [Next]_vars => DispatchInv'
BY TickKeeps, QuietDispatchKeeps, FetchKeeps, TaskKeeps, ConverseKeeps DEF Next, Consume

-----------------------------------------------------------------------------
(* Theorems *)

\* The invariant, in every state.
THEOREM DispatchInvariant == Spec => []DispatchInv
<1>1. Init => DispatchInv
  BY InitDispatch
<1> QED
  BY <1>1, NextKeepsDispatch, PTL DEF Spec

\* The types of the variables.
THEOREM DispatchTypeCorrect == Spec => []TypeOK
<1>1. DispatchInv => TypeOK
  BY DEF DispatchInv
<1> QED
  BY <1>1, DispatchInvariant, PTL

\* A conversation that is not over can be answered, and no entry is left behind.
THEOREM ConversationsReachable == Spec => []WaitersAreRegistered
<1>1. DispatchInv => WaitersAreRegistered
  BY DEF DispatchInv
<1> QED
  BY <1>1, DispatchInvariant, PTL

\* A handler that waits for an answer does not get one.
THEOREM WaitingIsVain == Spec => []HandlersWaitInVain
<1>1. DispatchInv => HandlersWaitInVain
  BY DEF DispatchInv, Asking, HandlersWaitInVain
<1> QED
  BY <1>1, DispatchInvariant, PTL

\* The only step that gives a message to the handlers lets it through the filter.
LEMMA WhoGives ==
  ASSUME Next, NEW m \in Msgs, Given(m)
  PROVE  Fetch(m) /\ Swept[m] = Never
<1>1. at = "idle" /\ at' = "update" /\ msg' = m
  BY DEF Given
<1>2. ~(Tick \/ FetchErr \/ RunHook \/ StopPropagation \/ Converse \/ Finish)
  BY <1>1 DEF Tick, FetchErr, RunHook, StopPropagation, Converse, Finish, Idle, consumer
<1>3. ~(\E x \in Msgs : Push(x))
  BY <1>1 DEF Push, consumer
<1>4. ~(\E a \in Asks : Wait(a) \/ Timeout(a) \/ Resume(a))
  BY <1>1 DEF Wait, Timeout, Resume, consumer
<1>5. ~(\E a \in Asks, p \in Partners : Ask(a, p) \/ HookAsks(a, p))
  BY <1>1 DEF Ask, HookAsks, consumer
<1>6. PICK x \in Msgs : Fetch(x)
  BY <1>2, <1>3, <1>4, <1>5 DEF Next, Consume
<1>7. Swept[x] = Never /\ msg' = x
  BY <1>1, <1>6 DEF Fetch, consumer
<1> QED
  BY <1>1, <1>6, <1>7

\* The only step that drops a message found an entry of it in the filter.
LEMMA WhoDrops ==
  ASSUME TypeOK, Next, NEW m \in Msgs, Dropped(m)
  PROVE  Fetch(m) /\ Swept[m] # Never
<1>1. bus # <<>> /\ Head(bus) = m /\ bus' = Tail(bus) /\ at = "idle" /\ at' = "idle"
  BY DEF Dropped
<1>2. Tail(bus) # bus /\ \A e \in Msgs \cup {Err} : Tail(bus) # Append(bus, e)
  BY <1>1, Queues
<1>3. ~(Tick \/ RunHook \/ StopPropagation \/ Converse \/ Finish)
  BY <1>1, <1>2 DEF Tick, RunHook, StopPropagation, Converse, Finish
<1>4. ~FetchErr
  BY <1>1, Numbers DEF FetchErr
<1>5. ~(\E x \in Msgs : Push(x))
  BY <1>1, <1>2 DEF Push
<1>6. ~(\E a \in Asks : Wait(a) \/ Timeout(a) \/ Resume(a))
  BY <1>1, <1>2 DEF Wait, Timeout, Resume
<1>7. ~(\E a \in Asks, p \in Partners : Ask(a, p) \/ HookAsks(a, p))
  BY <1>1, <1>2 DEF Ask, HookAsks
<1>8. PICK x \in Msgs : Fetch(x)
  BY <1>3, <1>4, <1>5, <1>6, <1>7 DEF Next, Consume
<1>9. x = m /\ Swept[x] # Never
  BY <1>1, <1>8 DEF Fetch
<1> QED
  BY <1>8, <1>9

\* The types that the arithmetic of the filter needs.
LEMMA Clocks ==
  ASSUME DispatchInv, NEW m \in Msgs
  PROVE  /\ now \in Int /\ sweep \in Int /\ Window \in Nat
         /\ seen[m] \in Int /\ last[m] \in Int
BY Numbers DEF DispatchInv, TypeOK

\* A message that comes again is not given to the handlers within the window ...
THEOREM NotGivenTwice == Spec => NotTwiceInWindow
<1>1. DispatchInv /\ [Next]_vars =>
        [\A m \in Msgs : Given(m) /\ last[m] # Never => now - last[m] > Window]_vars
  <2> SUFFICES ASSUME DispatchInv, Next, NEW m \in Msgs, Given(m), last[m] # Never
               PROVE  now - last[m] > Window
    OBVIOUS
  <2>1. Swept[m] = Never
    BY WhoGives
  <2>2. seen[m] = Never \/ now - seen[m] > Window
    BY <2>1 DEF Swept
  <2> QED
    BY <2>2 DEF DispatchInv, Filter
<1> QED
  BY <1>1, DispatchInvariant, PTL DEF Spec, NotTwiceInWindow

\* ... and is not dropped when two windows have passed.
THEOREM NotDroppedForLong == Spec => DroppedIsRecent
<1>1. DispatchInv /\ [Next]_vars =>
        [\A m \in Msgs : Dropped(m) => last[m] # Never /\ now - last[m] <= 2 * Window]_vars
  <2> SUFFICES ASSUME DispatchInv, Next, NEW m \in Msgs, Dropped(m)
               PROVE  last[m] # Never /\ now - last[m] <= 2 * Window
    OBVIOUS
  <2>1. Swept[m] # Never
    BY WhoDrops DEF DispatchInv
  <2>2. seen[m] # Never /\ (now - sweep > Window => ~(now - seen[m] > Window))
    BY <2>1 DEF Swept
  <2>3. seen[m] = last[m] /\ sweep - Window <= seen[m]
    BY <2>2 DEF DispatchInv, Filter
  <2>4. /\ now \in Int /\ sweep \in Int /\ Window \in Nat
        /\ seen[m] \in Int /\ last[m] \in Int
    BY Clocks
  <2> HIDE DEF DispatchInv
  <2> QED
    BY <2>2, <2>3, <2>4, SMT
<1> QED
  BY <1>1, DispatchInvariant, PTL DEF Spec, DroppedIsRecent
=============================================================================
