--------------------------- MODULE UpdatesProofs ---------------------------
(***************************************************************************)
(* Proofs about Updates, for any number of tasks, updates and faults, any  *)
(* size of a slice and any number of turns of the recovery's loop.         *)
(***************************************************************************)
EXTENDS Updates, FiniteSetTheorems, SequenceTheorems, TLAPS

\* What is left unchanged is left so variable by variable.
USE DEF position, client

\* Positions are the integers from -1 to a bound that covers both kinds.
LEMMA PositionFacts ==
  /\ Positions \subseteq Int
  /\ -1 \in Positions
  /\ 0 .. MaxPts \subseteq Positions
  /\ 0 .. MaxChan \subseteq Positions
  /\ \A a, b \in Positions : Max2(a, b) \in Positions
  /\ \A a \in Positions : 1 .. a \subseteq Positions
  BY BoundsAssumption DEF Positions, Max2

\* Results that name no message and no position.
LEMMA PlainResults ==
  NoResult \in Results /\ Failure \in Results /\ NoResult.pts = -1 /\ Failure.pts = -1
  BY PositionFacts DEF NoResult, Failure, Result, Results, ResultKinds

LEMMA InitIInv == Init => IInv
<1> SUFFICES ASSUME Init PROVE IInv
  OBVIOUS
<1>1. TypeOK
  <2>1. ServerTypes
    BY BoundsAssumption DEF Init, ServerTypes
  <2>2. TransportTypes
    BY DEF Init, TransportTypes
  <2>3. TaskTypes
    <3>1. 0 \in 0 .. MaxTries
      BY BoundsAssumption
    <3>2. NoResult \in Results
      BY PlainResults
    <3>3. task \in [Tasks -> {"none", "sleep", "post", "new"} \cup Waiting]
      BY DEF Init
    <3>4. tries \in [Tasks -> 0 .. MaxTries]
      BY <3>1 DEF Init
    <3>5. got \in [Tasks -> Results]
      BY <3>2 DEF Init
    <3>6. lock \in BOOLEAN
      BY DEF Init
    <3>7. ready \in Seq(Tasks)
      BY DEF Init
    <3> QED
      BY <3>3, <3>4, <3>5, <3>6, <3>7 DEF TaskTypes
  <2>4. PositionTypes
    <3>1. {-1, 0} \subseteq Positions /\ 0 \in 0 .. MaxPts
      BY PositionFacts, BoundsAssumption
    <3> QED
      BY <3>1 DEF Init, PositionTypes
  <2> QED
    BY <2>1, <2>2, <2>3, <2>4 DEF TypeOK
<1>2. RequestsBehind /\ RepliesFollow /\ AskersKnow /\ FileBehind /\ SkippedForCause
  BY DEF Init, RequestsBehind, RepliesFollow, AskersKnow, Locked, FileBehind, SkippedForCause
<1>3. GotTaken
  BY PlainResults DEF Init, GotTaken
<1> QED
  BY <1>1, <1>2, <1>3 DEF IInv

-----------------------------------------------------------------------------
(* Steps *)

\* The cursor only grows, so that what was behind it stays behind it.
LEMMA CursorGrows ==
  ASSUME IInv, NEW pts \in Positions, UpdateCursor(pts)
  PROVE  cursor' \in Positions /\ cursor <= cursor' /\ pts <= cursor'
         /\ (cursor' = cursor \/ cursor' = pts)
  BY PositionFacts DEF IInv, TypeOK, PositionTypes, UpdateCursor, Max2

\* Requests and answers do not fall behind when the cursor grows.
LEMMA StayBehind ==
  ASSUME IInv, cursor' \in Positions, cursor <= cursor',
         asked' \subseteq asked, wire' = wire \/ (wire # <<>> /\ wire' = Tail(wire))
  PROVE  RequestsBehind' /\ RepliesFollow'
<1> USE PositionFacts
<1>1. RequestsBehind'
  BY DEF IInv, RequestsBehind, TypeOK, PositionTypes, TransportTypes, Requests
<1>2. ASSUME NEW i \in 1 .. Len(wire') PROVE Follows(wire[i])'
  <2>1. \E j \in 1 .. Len(wire) : wire'[i] = wire[j]
    <3>1. wire \in Seq(Messages)
      BY DEF IInv, TypeOK, TransportTypes
    <3>2. CASE wire' = wire
      BY <3>2
    <3>3. CASE wire # <<>> /\ wire' = Tail(wire)
      <4>1. wire'[i] = wire[i + 1] /\ i + 1 \in 1 .. Len(wire)
        BY <3>1, <3>3, <1>2, HeadTailProperties
      <4> QED
        BY <4>1
    <3> QED
      BY <3>2, <3>3
  <2>2. PICK j \in 1 .. Len(wire) : wire'[i] = wire[j]
    BY <2>1
  <2>3. Follows(wire[j]) /\ wire[j] \in Messages
    BY DEF IInv, RepliesFollow, TypeOK, TransportTypes
  <2> QED
    <3>1. wire[j].kind = "reply" => wire[j].from \in Int
      BY <2>3 DEF Messages
    <3>2. cursor \in Int /\ cursor' \in Int
      BY DEF IInv, TypeOK, PositionTypes
    <3> QED
      BY <2>2, <2>3, <3>1, <3>2 DEF Follows
<1> QED
  BY <1>1, <1>2 DEF RepliesFollow

-----------------------------------------------------------------------------
(* Turns of the tasks *)

\* The slots of the tasks have their types.
Slots ==
  /\ task \in [Tasks -> {"none", "sleep", "post", "new"} \cup Waiting]
  /\ tries \in [Tasks -> 0 .. MaxTries]
  /\ got \in [Tasks -> Results]

\* What a turn of a task owes to the invariant.
GoodTurn ==
  /\ Slots' /\ lock' \in BOOLEAN
  /\ GotTaken' /\ AskersKnow' /\ RequestsBehind'
  /\ asked' \subseteq Requests
  /\ UNCHANGED position
  /\ noticed' \in 0 .. MaxPts
  /\ bus \subseteq bus' /\ bus' \subseteq 1 .. MaxPts

\* A task that ends.
LEMMA EndKeeps ==
  ASSUME IInv, NEW t \in Tasks, NEW success \in BOOLEAN, End(t, success), cursor' = cursor
  PROVE  Slots' /\ GotTaken' /\ AskersKnow' /\ RequestsBehind' /\ asked' \subseteq Requests
         /\ noticed' \in 0 .. MaxPts
<1> USE PlainResults
<1>1. 0 \in 0 .. MaxTries /\ 0 \in 0 .. MaxPts
  BY BoundsAssumption
<1>2. Slots'
  BY <1>1 DEF IInv, TypeOK, TaskTypes, End, Slots
<1>3. cursor \in Int /\ -1 <= cursor
  BY BoundsAssumption DEF IInv, TypeOK, PositionTypes, Positions, Max2
<1>4. GotTaken'
  BY <1>3 DEF IInv, TypeOK, TaskTypes, GotTaken, End
<1>5. RequestsBehind' /\ asked' \subseteq Requests
  BY DEF IInv, RequestsBehind, TypeOK, TransportTypes, End
<1>7. AskersKnow'
  BY DEF IInv, TypeOK, TaskTypes, AskersKnow, Locked, End
<1>6. noticed' \in 0 .. MaxPts
  BY <1>1 DEF IInv, TypeOK, PositionTypes, End
<1> QED
  BY <1>2, <1>4, <1>5, <1>6, <1>7

\* A task that asks, for a difference from the cursor if for one at all.
LEMMA AskKeeps ==
  ASSUME IInv, NEW t \in Tasks, NEW kind \in Waiting, NEW pts \in Positions,
         Ask(t, kind, pts), cursor' = cursor, tries' \in [Tasks -> 0 .. MaxTries],
         kind = "diff" => pts \in 0 .. cursor,
         kind \in Locked => cursor # -1
  PROVE  Slots' /\ GotTaken' /\ AskersKnow' /\ RequestsBehind' /\ asked' \subseteq Requests
<1> USE PlainResults
<1>1. Slots'
  BY DEF IInv, TypeOK, TaskTypes, Ask, Slots
<1>2. cursor \in Int /\ -1 <= cursor
  BY BoundsAssumption DEF IInv, TypeOK, PositionTypes, Positions, Max2
<1>3. GotTaken'
  BY <1>2 DEF IInv, TypeOK, TaskTypes, GotTaken, Ask
<1>4. asked' \subseteq Requests
  BY DEF IInv, TypeOK, TransportTypes, Ask, Requests
<1>5. RequestsBehind'
  BY DEF IInv, RequestsBehind, Ask
<1>6. AskersKnow'
  BY DEF IInv, TypeOK, TaskTypes, AskersKnow, Ask
<1> QED
  BY <1>1, <1>3, <1>4, <1>5, <1>6

\* The cursor, if there is one, is a place to ask from.
LEMMA CursorIsPlace ==
  ASSUME IInv, cursor # -1
  PROVE  cursor \in 0 .. cursor
  BY BoundsAssumption DEF IInv, TypeOK, PositionTypes, Positions, Max2

LEMMA RecoverKeeps ==
  ASSUME IInv, NEW t \in Tasks, RecoverDifference(t), UNCHANGED <<position, bus>>
  PROVE  GoodTurn
<1>1. lock \in BOOLEAN /\ bus \subseteq 1 .. MaxPts /\ noticed \in 0 .. MaxPts
  BY DEF IInv, TypeOK, TaskTypes, PositionTypes
<1>2. ASSUME NEW success \in BOOLEAN, End(t, success), UNCHANGED lock PROVE GoodTurn
  BY <1>1, <1>2, EndKeeps DEF GoodTurn
<1>3. CASE ~lock /\ cursor # -1 /\ lock' = TRUE /\ Ask(t, "diff", cursor)
           /\ tries' = [tries EXCEPT ![t] = 1] /\ UNCHANGED noticed
  <2>1. tries' \in [Tasks -> 0 .. MaxTries]
    BY <1>3, BoundsAssumption DEF IInv, TypeOK, TaskTypes
  <2>2. cursor \in 0 .. cursor /\ cursor \in Positions
    BY <1>3, CursorIsPlace DEF IInv, TypeOK, PositionTypes
  <2>3. Slots' /\ GotTaken' /\ AskersKnow' /\ RequestsBehind' /\ asked' \subseteq Requests
    <3>1. Ask(t, "diff", cursor) /\ cursor' = cursor /\ cursor # -1
      BY <1>3
    <3> QED
      BY <2>1, <2>2, <3>1, AskKeeps DEF Waiting
  <2> QED
    BY <1>1, <1>3, <2>3 DEF GoodTurn
<1> QED
  BY <1>2, <1>3 DEF RecoverDifference

LEMMA PostReconnectKeeps ==
  ASSUME IInv, NEW t \in Tasks, StartPostReconnect(t)
  PROVE  GoodTurn
<1>1. CASE RecoverDifference(t)
  BY <1>1, RecoverKeeps DEF StartPostReconnect
<1>2. CASE Ask(t, "first", -1) /\ UNCHANGED <<tries, lock, noticed>>
  <2>1. tries' \in [Tasks -> 0 .. MaxTries]
    BY <1>2 DEF IInv, TypeOK, TaskTypes
  <2>2. Slots' /\ GotTaken' /\ AskersKnow' /\ RequestsBehind' /\ asked' \subseteq Requests
    BY <1>2, <2>1, AskKeeps, PositionFacts DEF Waiting, Locked, StartPostReconnect
  <2> QED
    BY <1>2, <2>2 DEF GoodTurn, StartPostReconnect, IInv, TypeOK, TaskTypes, PositionTypes
<1> QED
  BY <1>1, <1>2 DEF StartPostReconnect

LEMMA EndTurnKeeps ==
  ASSUME IInv, NEW t \in Tasks, NEW success \in BOOLEAN, End(t, success),
         lock' \in BOOLEAN, UNCHANGED position, bus \subseteq bus', bus' \subseteq 1 .. MaxPts
  PROVE  GoodTurn
  BY EndKeeps DEF GoodTurn

LEMMA UseDifferenceKeeps ==
  ASSUME IInv, NEW t \in Tasks, UseDifference(t)
  PROVE  GoodTurn
<1>1. bus \subseteq 1 .. MaxPts /\ got[t] \in Results /\ got[t].pts <= cursor
      /\ cursor \in Positions
  BY DEF IInv, TypeOK, TaskTypes, PositionTypes, GotTaken
<1>2. CASE /\ Push(got[t].new) /\ UpdateCursor(got[t].pts)
           /\ UNCHANGED <<saved, dropped>> /\ LeaveLock(t, got[t].kind = "done")
  <2>1. UNCHANGED position
    <3>1. got[t].pts \in Int /\ cursor \in Int
      BY <1>1, PositionFacts DEF Results
    <3> QED
      BY <1>1, <1>2, <3>1 DEF UpdateCursor, Max2
  <2>2. bus \subseteq bus' /\ bus' \subseteq 1 .. MaxPts
    BY <1>1, <1>2 DEF Push, Results
  <2>3. (got[t].kind = "done") \in BOOLEAN
    OBVIOUS
  <2>4. lock' \in BOOLEAN /\ End(t, got[t].kind = "done")
    BY <1>2 DEF LeaveLock
  <2> QED
    BY <2>1, <2>2, <2>3, <2>4, EndTurnKeeps
<1>5. cursor # -1
  BY DEF IInv, AskersKnow, Locked, UseDifference
<1>3. CASE Ask(t, "state", -1) /\ UNCHANGED <<position, bus, tries, lock, noticed>>
  <2>1. tries' \in [Tasks -> 0 .. MaxTries]
    BY <1>3 DEF IInv, TypeOK, TaskTypes
  <2>2. Slots' /\ GotTaken' /\ AskersKnow' /\ RequestsBehind' /\ asked' \subseteq Requests
    BY <1>3, <1>5, <2>1, AskKeeps, PositionFacts DEF Waiting
  <2> QED
    BY <1>3, <2>2 DEF GoodTurn, IInv, TypeOK, TaskTypes, PositionTypes
<1>4. CASE LeaveLock(t, FALSE) /\ UNCHANGED <<position, bus>>
  BY <1>1, <1>4, EndTurnKeeps DEF LeaveLock
<1> QED
  BY <1>2, <1>3, <1>4 DEF UseDifference

LEMMA UseStateKeeps ==
  ASSUME IInv, NEW t \in Tasks, UseState(t)
  PROVE  GoodTurn
<1>1. bus \subseteq 1 .. MaxPts /\ cursor \in Positions
  BY DEF IInv, TypeOK, PositionTypes
<1>4. cursor # -1
  BY DEF IInv, AskersKnow, Locked, UseState
<1>2. CASE tries[t] < MaxTries /\ Ask(t, "diff", cursor)
           /\ tries' = [tries EXCEPT ![t] = @ + 1] /\ UNCHANGED <<lock, noticed, position, bus>>
  <2>1. tries' \in [Tasks -> 0 .. MaxTries]
    BY <1>2, BoundsAssumption DEF IInv, TypeOK, TaskTypes
  <2>2. Slots' /\ GotTaken' /\ AskersKnow' /\ RequestsBehind' /\ asked' \subseteq Requests
    BY <1>1, <1>2, <1>4, <2>1, CursorIsPlace, AskKeeps DEF Waiting
  <2> QED
    BY <1>2, <2>2 DEF GoodTurn, IInv, TypeOK, TaskTypes, PositionTypes
<1>3. ASSUME NEW success \in BOOLEAN, LeaveLock(t, success), UNCHANGED <<position, bus>>
      PROVE  GoodTurn
  BY <1>1, <1>3, EndTurnKeeps DEF LeaveLock
<1> QED
  BY <1>2, <1>3 DEF UseState

\* A turn of any task preserves the invariant.
LEMMA RunKeeps == ASSUME IInv, Run PROVE IInv'
<1> DEFINE t == Head(ready)
<1>1. t \in Tasks /\ ready' \in Seq(Tasks)
  BY HeadTailProperties DEF Run, IInv, TypeOK, TaskTypes
<1>2. GoodTurn
  <2>1. CASE StartRecovery(t)
    BY <1>1, <2>1, RecoverKeeps DEF StartRecovery
  <2>2. CASE StartPostReconnect(t)
    BY <1>1, <2>2, PostReconnectKeeps
  <2>3. CASE EndFirstState(t)
    <3>1. (got[t].kind = "state") \in BOOLEAN
      OBVIOUS
    <3>2. End(t, got[t].kind = "state") /\ UNCHANGED <<lock, position, bus>>
      BY <2>3 DEF EndFirstState
    <3>3. lock' \in BOOLEAN /\ bus \subseteq bus' /\ bus' \subseteq 1 .. MaxPts
      BY <3>2 DEF IInv, TypeOK, TaskTypes, PositionTypes
    <3> QED
      BY <1>1, <3>1, <3>2, <3>3, EndTurnKeeps
  <2>4. CASE UseDifference(t)
    BY <1>1, <2>4, UseDifferenceKeeps
  <2>5. CASE UseState(t)
    BY <1>1, <2>5, UseStateKeeps
  <2> QED
    BY <2>1, <2>2, <2>3, <2>4, <2>5 DEF Run
<1>3. TaskTypes'
  BY <1>1, <1>2 DEF GoodTurn, Slots, TaskTypes
<1>4. ServerTypes' /\ TransportTypes' /\ PositionTypes'
  BY <1>2 DEF GoodTurn, Run, server, IInv, TypeOK, ServerTypes, TransportTypes, PositionTypes
<1>5. RepliesFollow'
  BY <1>2 DEF GoodTurn, Run, IInv, RepliesFollow, Follows
<1>6. FileBehind' /\ SkippedForCause'
  BY <1>2 DEF GoodTurn, Run, IInv, FileBehind, SkippedForCause
<1> QED
  BY <1>2, <1>3, <1>4, <1>5, <1>6 DEF GoodTurn, IInv, TypeOK

-----------------------------------------------------------------------------
(* Steps that leave the cursor and what was received alone *)

LEMMA WakeUpKeeps == ASSUME IInv, NEW t \in Tasks, WakeUp(t) PROVE IInv'
<1>1. TaskTypes'
  BY AppendProperties DEF WakeUp, IInv, TypeOK, TaskTypes
<1>2. ServerTypes' /\ TransportTypes' /\ PositionTypes'
  BY DEF WakeUp, server, IInv, TypeOK, ServerTypes, TransportTypes, PositionTypes
<1>3. AskersKnow'
  BY DEF WakeUp, IInv, TypeOK, TaskTypes, AskersKnow, Locked
<1>4. RequestsBehind' /\ RepliesFollow' /\ GotTaken' /\ FileBehind' /\ SkippedForCause'
  BY DEF WakeUp, IInv, RequestsBehind, RepliesFollow, Follows, GotTaken, FileBehind, SkippedForCause
<1> QED
  BY <1>1, <1>2, <1>3, <1>4 DEF IInv, TypeOK

\* There is no position below -1.
LEMMA CursorBound == ASSUME IInv PROVE cursor \in Int /\ -1 <= cursor
  BY BoundsAssumption DEF IInv, TypeOK, PositionTypes, Positions, Max2

LEMMA FileBound == ASSUME IInv PROVE saved \in Int /\ -1 <= saved
  BY BoundsAssumption DEF IInv, TypeOK, PositionTypes, Positions, Max2

LEMMA RequestFailsKeeps == ASSUME IInv, NEW t \in Tasks, RequestFails(t) PROVE IInv'
<1>1. TaskTypes'
  BY AppendProperties, PlainResults DEF RequestFails, IInv, TypeOK, TaskTypes
<1>2. ServerTypes' /\ TransportTypes' /\ PositionTypes'
  BY DEF RequestFails, server, IInv, TypeOK, ServerTypes, TransportTypes, PositionTypes
<1>3. GotTaken'
  BY PlainResults, CursorBound DEF RequestFails, IInv, TypeOK, TaskTypes, GotTaken
<1>4. RequestsBehind' /\ RepliesFollow' /\ AskersKnow' /\ FileBehind' /\ SkippedForCause'
  BY DEF RequestFails, IInv, RequestsBehind, RepliesFollow, Follows, AskersKnow, FileBehind, SkippedForCause
<1> QED
  BY <1>1, <1>2, <1>3, <1>4 DEF IInv, TypeOK

LEMMA DispatchKeeps == ASSUME IInv, Dispatch PROVE IInv'
<1>1. ServerTypes' /\ TransportTypes' /\ TaskTypes'
  BY DEF Dispatch, server, client, IInv, TypeOK, ServerTypes, TransportTypes, TaskTypes
<1>2. PositionTypes'
  BY DEF Dispatch, client, IInv, TypeOK, PositionTypes
<1>3. FileBehind' /\ SkippedForCause'
  BY DEF Dispatch, IInv, FileBehind, SkippedForCause
<1>4. RequestsBehind' /\ RepliesFollow' /\ GotTaken' /\ AskersKnow'
  BY DEF Dispatch, client, IInv, RequestsBehind, RepliesFollow, Follows, GotTaken, AskersKnow
<1> QED
  BY <1>1, <1>2, <1>3, <1>4 DEF IInv, TypeOK

LEMMA ConnectionLostKeeps == ASSUME IInv, ConnectionLost PROVE IInv'
<1> DEFINE failed == {t \in Tasks : Awaits(t)}
<1>1. Cardinality(failed) \in Nat
  BY BoundsAssumption, FS_Subset, FS_CardinalityType
<1>2. ready' \in Seq(Tasks)
  <2>0. \E order \in [1 .. Cardinality(failed) -> failed] : ready' = ready \o order
    BY Zenon DEF ConnectionLost
  <2>1. PICK order \in [1 .. Cardinality(failed) -> failed] : ready' = ready \o order
    BY <2>0
  <2>2. order \in Seq(Tasks)
    <3>1. order \in [1 .. Cardinality(failed) -> Tasks]
      BY <2>1
    <3> HIDE DEF failed
    <3> QED
      BY <1>1, <3>1, SeqDef
  <2>3. ready \in Seq(Tasks)
    BY DEF IInv, TypeOK, TaskTypes
  <2>4. ready \o order \in Seq(Tasks)
    BY <2>2, <2>3, ConcatProperties
  <2> QED
    BY <2>1, <2>4
<1>3. got' \in [Tasks -> Results] /\ \A t \in Tasks : got'[t] \in {got[t], Failure}
  BY PlainResults DEF ConnectionLost, IInv, TypeOK, TaskTypes
<1>4. TaskTypes'
  BY <1>2, <1>3 DEF ConnectionLost, IInv, TypeOK, TaskTypes
<1>5. ServerTypes'
  <2>1. faults' \in 0 .. MaxFaults
    BY BoundsAssumption DEF ConnectionLost, IInv, TypeOK, ServerTypes
  <2>2. up' \in BOOLEAN
    BY DEF ConnectionLost
  <2>3. srv' = srv /\ chan' = chan
    BY DEF ConnectionLost
  <2> QED
    BY <2>1, <2>2, <2>3 DEF IInv, TypeOK, ServerTypes
<1>6. TransportTypes' /\ RequestsBehind' /\ RepliesFollow'
  BY DEF ConnectionLost, TransportTypes, RequestsBehind, RepliesFollow
<1>7. GotTaken'
  BY <1>3, PlainResults, CursorBound DEF ConnectionLost, IInv, GotTaken
<1>8. PositionTypes' /\ AskersKnow' /\ FileBehind' /\ SkippedForCause'
  BY DEF ConnectionLost, IInv, TypeOK, PositionTypes, AskersKnow, FileBehind, SkippedForCause
<1> QED
  BY <1>4, <1>5, <1>6, <1>7, <1>8 DEF IInv, TypeOK

\* A new task asks nothing yet.
LEMMA CreateKeeps ==
  ASSUME IInv, NEW t \in Tasks, NEW pc \in {"new", "sleep"}, Create(t, pc), cursor' = cursor
  PROVE  Slots' /\ lock' \in BOOLEAN /\ GotTaken' /\ AskersKnow'
<1>1. Slots' /\ lock' \in BOOLEAN
  BY DEF Create, IInv, TypeOK, TaskTypes, Slots
<1>2. GotTaken' /\ AskersKnow'
  BY DEF Create, IInv, TypeOK, TaskTypes, GotTaken, AskersKnow, Locked
<1> QED
  BY <1>1, <1>2

LEMMA ReaderReconnectsKeeps == ASSUME IInv, ReaderReconnects PROVE IInv'
<1>1. PICK t \in Tasks : Create(t, "sleep")
  BY DEF ReaderReconnects
<1>2. Slots' /\ lock' \in BOOLEAN /\ GotTaken' /\ AskersKnow'
  BY <1>1, CreateKeeps DEF ReaderReconnects
<1>3. TaskTypes'
  BY <1>2 DEF Slots, ReaderReconnects, IInv, TypeOK, TaskTypes
<1>4. ServerTypes' /\ TransportTypes' /\ PositionTypes'
  BY DEF ReaderReconnects, IInv, TypeOK, ServerTypes, TransportTypes, PositionTypes
<1>5. RequestsBehind' /\ RepliesFollow' /\ FileBehind' /\ SkippedForCause'
  BY DEF ReaderReconnects, IInv, RequestsBehind, RepliesFollow, Follows, FileBehind, SkippedForCause
<1> QED
  BY <1>2, <1>3, <1>4, <1>5 DEF IInv, TypeOK

LEMMA RequestReconnectsKeeps == ASSUME IInv, RequestReconnects PROVE IInv'
<1>1. TypeOK'
  BY DEF RequestReconnects, client, IInv, TypeOK, ServerTypes, TransportTypes, TaskTypes, PositionTypes
<1>2. RequestsBehind' /\ RepliesFollow' /\ GotTaken' /\ AskersKnow' /\ FileBehind' /\ SkippedForCause'
  BY DEF RequestReconnects, client, IInv, RequestsBehind, RepliesFollow, Follows, GotTaken,
         AskersKnow, FileBehind, SkippedForCause
<1> QED
  BY <1>1, <1>2 DEF IInv

LEMMA CrashKeeps == ASSUME IInv, Crash PROVE IInv'
<1>1. TaskTypes'
  <2>1. 0 \in 0 .. MaxTries
    BY BoundsAssumption
  <2>2. tries' \in [Tasks -> 0 .. MaxTries]
    BY <2>1 DEF Crash
  <2>3. got' \in [Tasks -> Results]
    BY PlainResults DEF Crash
  <2>4. task' \in [Tasks -> {"none", "sleep", "post", "new"} \cup Waiting]
    BY DEF Crash
  <2>5. lock' \in BOOLEAN
    BY DEF Crash
  <2>6. ready' \in Seq(Tasks)
    BY DEF Crash
  <2> QED
    BY <2>2, <2>3, <2>4, <2>5, <2>6 DEF TaskTypes
<1>2. ServerTypes'
  BY BoundsAssumption DEF Crash, IInv, TypeOK, ServerTypes
<1>3. TransportTypes' /\ RequestsBehind' /\ RepliesFollow'
  BY DEF Crash, TransportTypes, RequestsBehind, RepliesFollow
<1>4. PositionTypes'
  <2>1. bus \subseteq Positions /\ 0 \in 0 .. MaxPts
    BY PositionFacts, BoundsAssumption DEF IInv, TypeOK, PositionTypes
  <2> QED
    BY <2>1 DEF Crash, IInv, TypeOK, PositionTypes
<1>5. GotTaken'
  BY PlainResults, FileBound DEF Crash, GotTaken
<1>6. AskersKnow'
  BY DEF Crash, AskersKnow, Locked
<1>7. FileBehind' /\ SkippedForCause'
  BY FileBound DEF Crash, IInv, FileBehind, SkippedForCause
<1> QED
  BY <1>1, <1>2, <1>3, <1>4, <1>5, <1>6, <1>7 DEF IInv, TypeOK

-----------------------------------------------------------------------------
(* The reader *)

\* What the handling of a message that takes a position, or fails to, owes to
\* the invariant: every update up to the new cursor is accounted for, and so
\* is every one up to the position of the file.
LEMMA TakenPosition ==
  ASSUME IInv, NEW new \in SUBSET (1 .. MaxPts), NEW pts \in Positions,
         NEW jumped \in SUBSET Positions, UNCHANGED handled,
         Take(pts, jumped, new) \/ TakeFails(pts, jumped, new),
         \A u \in 1 .. pts : u <= cursor \/ u \in jumped \cup new
  PROVE  /\ cursor' \in Positions /\ cursor <= cursor' /\ pts <= cursor'
         /\ bus' \subseteq 1 .. MaxPts
         /\ saved' \in Positions /\ dropped' \subseteq Positions /\ passed' \subseteq Positions
         /\ FileBehind' /\ SkippedForCause'
<1>1. /\ cursor' \in Positions /\ cursor <= cursor' /\ pts <= cursor'
      /\ (cursor' = cursor \/ cursor' = pts)
  BY CursorGrows DEF Take, TakeFails
<1>2. /\ cursor \in Int /\ pts \in Int /\ saved \in Int /\ cursor' \in Int
      /\ saved <= cursor
  BY <1>1, CursorBound, FileBound, PositionFacts DEF IInv, FileBehind
<1>3. /\ bus \subseteq 1 .. MaxPts /\ saved \in Positions /\ 1 .. MaxPts \subseteq Positions
      /\ dropped \subseteq Positions /\ passed \subseteq Positions
  <2>1. 1 .. MaxPts \subseteq 0 .. MaxPts
    BY BoundsAssumption
  <2> QED
    BY <2>1, PositionFacts DEF IInv, TypeOK, PositionTypes
<1>4. ASSUME NEW u \in 1 .. cursor'
      PROVE  u \in bus \cup handled \cup passed \cup dropped \cup jumped \cup new
  <2>1. CASE u <= cursor
    <3>1. u \in 1 .. cursor
      BY <1>2, <2>1
    <3> QED
      BY <3>1 DEF IInv, SkippedForCause
  <2>2. CASE ~(u <= cursor)
    <3>1. u \in 1 .. pts
      BY <1>1, <1>2, <2>2
    <3> QED
      BY <2>2, <3>1
  <2> QED
    BY <2>1, <2>2
<1>5. \A u \in 1 .. saved : u \in bus \cup handled \cup passed
  BY DEF IInv, SkippedForCause
<1>6. CASE Push(new) /\ pts <= cursor /\ UpdateCursor(pts) /\ UNCHANGED <<saved, dropped, passed>>
  <2>1. cursor' = cursor
    BY <1>2, <1>6 DEF UpdateCursor, Max2
  <2>2. SkippedForCause'
    BY <1>6, <2>1 DEF Push, IInv, SkippedForCause
  <2> QED
    BY <1>1, <1>2, <1>3, <1>6, <2>1, <2>2 DEF Push, FileBehind
<1>7. CASE Push(new) /\ Save(jumped, new)
  <2>1. /\ bus' = bus \cup new /\ saved' = cursor' /\ dropped' = {}
        /\ passed' = passed \cup ((jumped \cup dropped) \ (bus \cup handled \cup new))
    BY <1>7 DEF Push, Save
  <2>2. \A u \in 1 .. cursor' : u \in bus' \cup handled' \cup passed'
    BY <1>4, <2>1
  <2>3. SkippedForCause'
    BY <2>1, <2>2 DEF SkippedForCause
  <2> QED
    BY <1>1, <1>2, <1>3, <2>1, <2>3 DEF FileBehind
<1>8. CASE TakeFails(pts, jumped, new)
  <2>1. /\ UNCHANGED <<bus, saved, passed>>
        /\ dropped' = dropped \cup ((jumped \cup new) \ (bus \cup handled))
    BY <1>8 DEF TakeFails
  <2>2. \A u \in 1 .. cursor' : u \in bus' \cup handled' \cup passed' \cup dropped'
    BY <1>4, <2>1
  <2>3. SkippedForCause'
    BY <1>5, <2>1, <2>2 DEF SkippedForCause
  <2>4. dropped' \subseteq Positions
    BY <1>3, <2>1
  <2> QED
    BY <1>1, <1>2, <1>3, <2>1, <2>3, <2>4 DEF FileBehind
<1> QED
  BY <1>6, <1>7, <1>8 DEF Take

\* What jumps is a set of positions that closes the gap of a result without
\* a place to follow; one with a place closes it with its messages.
LEMMA JumpedCovers ==
  ASSUME IInv, NEW m \in Messages, m.kind = "reply", Follows(m)
  PROVE  /\ Jumped(m.result.pts, m.from) \in SUBSET Positions
         /\ \A u \in 1 .. m.result.pts :
              u <= cursor \/ u \in Jumped(m.result.pts, m.from) \cup m.result.new
<1>1. m.from \in Int /\ m.result.pts \in Positions /\ m.result.pts \in Int
  <2>1. m.from \in Positions /\ m.result \in Results
    BY DEF Messages
  <2> QED
    BY <2>1, PositionFacts DEF Results
<1>2. 1 .. m.result.pts \subseteq Positions
  BY <1>1, PositionFacts
<1>3. ASSUME NEW u \in 1 .. m.result.pts, ~(u <= cursor), m.from # -1
      PROVE  u \in m.result.new
  <2>1. m.from <= cursor /\ (m.from + 1) .. m.result.pts \subseteq m.result.new
    BY <1>3 DEF Follows
  <2>2. u \in (m.from + 1) .. m.result.pts
    BY <1>1, <1>3, <2>1, CursorBound
  <2> QED
    BY <2>1, <2>2
<1> QED
  BY <1>2, <1>3 DEF Jumped

\* The first message is one, and its removal leaves the others.
LEMMA FirstMessage ==
  ASSUME IInv, Handle
  PROVE  /\ Head(wire) \in Messages /\ Follows(Head(wire))
         /\ wire' \in Seq(Messages) /\ wire # <<>> /\ wire' = Tail(wire)
         /\ ServerTypes' /\ TransportTypes'
<1>1. wire \in Seq(Messages) /\ wire # <<>> /\ wire' = Tail(wire) /\ asked' = asked
  BY DEF Handle, IInv, TypeOK, TransportTypes
<1>2. Head(wire) \in Messages /\ Tail(wire) \in Seq(Messages)
  BY <1>1, HeadTailProperties
<1>3. Head(wire) = wire[1] /\ 1 \in 1 .. Len(wire)
  BY <1>1
<1>4. ServerTypes' /\ TransportTypes'
  BY <1>1, <1>2 DEF Handle, server, IInv, TypeOK, ServerTypes, TransportTypes
<1> QED
  BY <1>1, <1>2, <1>3, <1>4 DEF IInv, RepliesFollow

LEMMA HandleReplyKeeps ==
  ASSUME IInv, Handle, HandleReply(Head(wire)) PROVE IInv'
<1> DEFINE m == Head(wire)
<1>1. m \in Messages /\ Follows(m) /\ ServerTypes' /\ TransportTypes' /\ wire # <<>>
      /\ wire' = Tail(wire) /\ UNCHANGED <<asked, handled>>
  BY FirstMessage DEF Handle
<1>2. m.kind = "reply" /\ m.task \in Tasks /\ m.result \in Results /\ m.from \in Positions
  BY <1>1 DEF HandleReply, Messages
<1>3. m.result.new \subseteq 1 .. MaxPts /\ m.result.pts \in Positions /\ m.from \in Int
  BY <1>2, PositionFacts DEF Results
<1>4. CASE UNCHANGED <<bus, passed, client>>
  <2>1. cursor' \in Positions /\ cursor <= cursor'
    BY <1>4, CursorBound DEF client, IInv, TypeOK, PositionTypes
  <2>2. RequestsBehind' /\ RepliesFollow'
    BY <1>1, <2>1, StayBehind
  <2>3. TaskTypes' /\ PositionTypes' /\ GotTaken' /\ AskersKnow' /\ FileBehind' /\ SkippedForCause'
    BY <1>1, <1>4 DEF client, IInv, TypeOK, TaskTypes, PositionTypes, GotTaken, AskersKnow,
                      FileBehind, SkippedForCause
  <2> QED
    BY <1>1, <2>2, <2>3 DEF IInv, TypeOK
<1>5. ASSUME \/ /\ Take(m.result.pts, Jumped(m.result.pts, m.from), m.result.new)
                /\ got' = [got EXCEPT ![m.task] = m.result]
             \/ /\ TakeFails(m.result.pts, Jumped(m.result.pts, m.from), m.result.new)
                /\ got' = [got EXCEPT ![m.task] = Failure],
             ready' = Append(ready, m.task),
             UNCHANGED <<task, tries, lock, noticed>>
      PROVE  IInv'
  <2>1. /\ Jumped(m.result.pts, m.from) \in SUBSET Positions
        /\ \A u \in 1 .. m.result.pts :
             u <= cursor \/ u \in Jumped(m.result.pts, m.from) \cup m.result.new
    BY <1>1, <1>2, JumpedCovers
  <2>2. Take(m.result.pts, Jumped(m.result.pts, m.from), m.result.new)
        \/ TakeFails(m.result.pts, Jumped(m.result.pts, m.from), m.result.new)
    BY <1>5
  <2>3. /\ cursor' \in Positions /\ cursor <= cursor' /\ m.result.pts <= cursor'
        /\ bus' \subseteq 1 .. MaxPts
        /\ saved' \in Positions /\ dropped' \subseteq Positions /\ passed' \subseteq Positions
        /\ FileBehind' /\ SkippedForCause'
    BY <1>1, <1>3, <2>1, <2>2, TakenPosition
  <2>4. RequestsBehind' /\ RepliesFollow'
    BY <1>1, <2>3, StayBehind
  <2>5. PositionTypes'
    BY <1>1, <1>5, <2>3 DEF IInv, TypeOK, PositionTypes
  <2>6. PICK r \in {m.result, Failure} : got' = [got EXCEPT ![m.task] = r]
    BY <1>5
  <2>7. r \in Results /\ r.pts <= cursor'
    <3>1. -1 <= cursor'
      BY <2>3, BoundsAssumption, PositionFacts DEF Positions, Max2
    <3> QED
      BY <1>2, <2>3, <2>6, <3>1, PlainResults
  <2>8. TaskTypes'
    BY <1>2, <1>5, <2>6, <2>7, AppendProperties DEF IInv, TypeOK, TaskTypes
  <2>9. GotTaken'
    <3>1. ASSUME NEW t \in Tasks PROVE got'[t].pts <= cursor'
      <4>1. CASE t = m.task
        BY <1>2, <2>6, <2>7, <4>1 DEF IInv, TypeOK, TaskTypes
      <4>2. CASE t # m.task
        <5>1. got'[t] = got[t] /\ got[t].pts <= cursor /\ got[t].pts \in Int
          BY <2>6, <4>2, PositionFacts DEF IInv, TypeOK, TaskTypes, GotTaken, Results
        <5> QED
          BY <2>3, <5>1, CursorBound, PositionFacts
      <4> QED
        BY <4>1, <4>2
    <3> QED
      BY <3>1 DEF GotTaken
  <2>10. AskersKnow'
    BY <1>5, <2>3, CursorBound, PositionFacts DEF IInv, AskersKnow
  <2> QED
    BY <1>1, <2>3, <2>4, <2>5, <2>8, <2>9, <2>10 DEF IInv, TypeOK
<1> QED
  BY <1>4, <1>5 DEF HandleReply

LEMMA HandleLiveKeeps ==
  ASSUME IInv, Handle, HandleLive(Head(wire)) PROVE IInv'
<1> DEFINE m == Head(wire)
<1>1. m \in Messages /\ ServerTypes' /\ TransportTypes' /\ wire # <<>>
      /\ wire' = Tail(wire) /\ UNCHANGED <<asked, handled>>
  BY FirstMessage DEF Handle
<1>2. /\ m.at \in 1 .. MaxPts /\ bus' = bus \cup {m.at}
      /\ UNCHANGED <<cursor, task, tries, got, lock, ready, noticed>>
  BY <1>1 DEF HandleLive, Messages, Push
<1>3. cursor' \in Positions /\ cursor <= cursor'
  BY <1>2, CursorBound DEF IInv, TypeOK, PositionTypes
<1>4. RequestsBehind' /\ RepliesFollow'
  BY <1>1, <1>3, StayBehind
<1>5. TaskTypes' /\ GotTaken' /\ AskersKnow'
  BY <1>2 DEF IInv, TypeOK, TaskTypes, GotTaken, AskersKnow
<1>6. CASE UNCHANGED <<saved, dropped, passed>>
  <2>1. PositionTypes' /\ FileBehind' /\ SkippedForCause'
    BY <1>1, <1>2, <1>6 DEF IInv, TypeOK, PositionTypes, FileBehind, SkippedForCause
  <2> QED
    BY <1>1, <1>4, <1>5, <2>1 DEF IInv, TypeOK
<1>7. CASE Save({}, {m.at})
  <2>1. PositionTypes'
    BY <1>1, <1>2, <1>3, <1>7 DEF Save, IInv, TypeOK, PositionTypes
  <2>2. FileBehind'
    BY <1>2, <1>7, CursorBound DEF Save, FileBehind
  <2>3. SkippedForCause'
    BY <1>1, <1>2, <1>7 DEF Save, IInv, SkippedForCause
  <2> QED
    BY <1>1, <1>4, <1>5, <2>1, <2>2, <2>3 DEF IInv, TypeOK
<1> QED
  BY <1>6, <1>7 DEF HandleLive

LEMMA HandleTooLongKeeps ==
  ASSUME IInv, Handle, HandleTooLong(Head(wire)) PROVE IInv'
<1> DEFINE m == Head(wire)
<1>1. m \in Messages /\ ServerTypes' /\ TransportTypes' /\ wire # <<>>
      /\ wire' = Tail(wire) /\ UNCHANGED <<asked, handled>>
  BY FirstMessage DEF Handle
<1>2. PICK t \in Tasks : Create(t, "new") /\ ready' = Append(ready, t)
  BY DEF HandleTooLong
<1>3. UNCHANGED <<position, bus, passed>>
  BY DEF HandleTooLong
<1>4. Slots' /\ lock' \in BOOLEAN /\ GotTaken' /\ AskersKnow'
  BY <1>2, <1>3, CreateKeeps
<1>5. ready' \in Seq(Tasks)
  BY <1>2, AppendProperties DEF IInv, TypeOK, TaskTypes
<1>6. TaskTypes'
  BY <1>4, <1>5 DEF Slots, TaskTypes
<1>7. noticed' \in 0 .. MaxPts
  BY <1>1, BoundsAssumption DEF HandleTooLong, Messages, Max2, IInv, TypeOK, PositionTypes
<1>8. RequestsBehind' /\ RepliesFollow'
  <2>1. cursor' \in Positions /\ cursor <= cursor'
    BY <1>3, CursorBound DEF IInv, TypeOK, PositionTypes
  <2> QED
    BY <1>1, <2>1, StayBehind
<1>9. PositionTypes' /\ FileBehind' /\ SkippedForCause'
  BY <1>1, <1>3, <1>7 DEF IInv, TypeOK, PositionTypes, FileBehind, SkippedForCause
<1> QED
  BY <1>1, <1>4, <1>6, <1>8, <1>9 DEF IInv, TypeOK

LEMMA HandleCallKeeps ==
  ASSUME IInv, Handle, HandleCall(Head(wire)) PROVE IInv'
<1> DEFINE m == Head(wire)
<1>1. m \in Messages /\ ServerTypes' /\ TransportTypes' /\ wire # <<>>
      /\ wire' = Tail(wire) /\ UNCHANGED <<asked, handled>>
  BY FirstMessage DEF Handle
<1>2. m.new \subseteq 1 .. MaxPts /\ m.pts \in Positions
  BY <1>1 DEF HandleCall, Messages
<1>3. /\ cursor' \in Positions /\ cursor <= cursor'
      /\ bus' \subseteq 1 .. MaxPts
      /\ saved' \in Positions /\ dropped' \subseteq Positions /\ passed' \subseteq Positions
      /\ FileBehind' /\ SkippedForCause'
  <2> DEFINE pts == m.pts  new == m.new  jumped == 1 .. pts
  <2>1. pts \in Positions /\ new \in SUBSET (1 .. MaxPts) /\ jumped \in SUBSET Positions
    BY <1>2, PositionFacts
  <2>2. Take(pts, jumped, new) \/ TakeFails(pts, jumped, new)
    BY DEF HandleCall
  <2>3. \A u \in 1 .. pts : u <= cursor \/ u \in jumped \cup new
    OBVIOUS
  <2> HIDE DEF m, pts, new, jumped
  <2> QED
    BY <1>1, <2>1, <2>2, <2>3, TakenPosition
<1>4. RequestsBehind' /\ RepliesFollow'
  BY <1>1, <1>3, StayBehind
<1>6. TaskTypes' /\ AskersKnow'
  BY <1>3, CursorBound, PositionFacts DEF HandleCall, IInv, TypeOK, TaskTypes, AskersKnow
<1>7. PositionTypes'
  BY <1>1, <1>3 DEF HandleCall, IInv, TypeOK, PositionTypes
<1>8. GotTaken'
  <2>1. ASSUME NEW t \in Tasks PROVE got'[t].pts <= cursor'
    <3>1. got'[t] = got[t] /\ got[t].pts <= cursor /\ got[t].pts \in Int
      BY PositionFacts DEF HandleCall, IInv, TypeOK, TaskTypes, GotTaken, Results
    <3> QED
      BY <1>3, <3>1, CursorBound, PositionFacts
  <2> QED
    BY <2>1 DEF GotTaken
<1> QED
  BY <1>1, <1>3, <1>4, <1>6, <1>7, <1>8 DEF IInv, TypeOK

-----------------------------------------------------------------------------
(* The server *)

\* A step of the server that sends nothing, or a message that follows.
LEMMA ServerStepKeeps ==
  ASSUME IInv, ServerTypes', asked' \subseteq asked,
         UNCHANGED <<client, bus, handled, passed>>,
         \/ UNCHANGED wire
         \/ \E m \in Messages : Follows(m) /\ wire' = Append(wire, m)
  PROVE  IInv'
<1>1. TaskTypes' /\ PositionTypes' /\ GotTaken' /\ AskersKnow' /\ FileBehind' /\ SkippedForCause'
  BY DEF client, IInv, TypeOK, TaskTypes, PositionTypes, GotTaken, AskersKnow, FileBehind, SkippedForCause
<1>2. RequestsBehind'
  BY DEF client, IInv, RequestsBehind
<1>3. ASSUME UNCHANGED wire PROVE TransportTypes' /\ RepliesFollow'
  <2>1. TransportTypes'
    BY <1>3 DEF IInv, TypeOK, TransportTypes
  <2>2. wire' = wire /\ cursor' = cursor
    BY <1>3 DEF client
  <2> QED
    BY <2>1, <2>2 DEF IInv, RepliesFollow, Follows
<1>4. ASSUME NEW m \in Messages, Follows(m), wire' = Append(wire, m)
      PROVE  TransportTypes' /\ RepliesFollow'
  <2>1. wire \in Seq(Messages) /\ asked' \subseteq Requests
    BY DEF IInv, TypeOK, TransportTypes
  <2>2. /\ wire' \in Seq(Messages) /\ Len(wire') = Len(wire) + 1
        /\ \A i \in 1 .. Len(wire) : wire'[i] = wire[i]
        /\ wire'[Len(wire) + 1] = m
    BY <1>4, <2>1, AppendProperties
  <2>3. ASSUME NEW i \in 1 .. Len(wire') PROVE Follows(wire[i])'
    <3>1. wire'[i] = m \/ (i \in 1 .. Len(wire) /\ wire'[i] = wire[i])
      BY <2>1, <2>2
    <3>2. cursor' = cursor
      BY DEF client
    <3> QED
      BY <1>4, <3>1, <3>2 DEF IInv, RepliesFollow, Follows
  <2> QED
    BY <2>1, <2>2, <2>3 DEF TransportTypes, RepliesFollow
<1>5. TransportTypes' /\ RepliesFollow'
  BY <1>3, <1>4
<1> QED
  BY <1>1, <1>2, <1>5 DEF IInv, TypeOK

LEMMA ServerUpdatesKeeps == ASSUME IInv, ServerUpdates PROVE IInv'
<1>1. srv + 1 \in 1 .. MaxPts /\ ServerTypes'
  BY BoundsAssumption DEF ServerUpdates, IInv, TypeOK, ServerTypes
<1>2. ASSUME NEW kind \in {"live", "tooLong"}
      PROVE  [kind |-> kind, at |-> srv + 1] \in Messages
             /\ Follows([kind |-> kind, at |-> srv + 1])
  <2> DEFINE m == [kind |-> kind, at |-> srv + 1]
  <2>1. m \in [kind : {"live", "tooLong"}, at : 1 .. MaxPts]
    BY <1>1
  <2>2. m \in Messages
    BY <2>1 DEF Messages
  <2>3. m.kind # "reply"
    OBVIOUS
  <2> QED
    BY <2>2, <2>3 DEF Follows
<1>3. \/ UNCHANGED wire
      \/ \E m \in Messages : Follows(m) /\ wire' = Append(wire, m)
  BY <1>2 DEF ServerUpdates, Send
<1> QED
  BY <1>1, <1>3, ServerStepKeeps DEF ServerUpdates

LEMMA ServerSendsKeeps == ASSUME IInv, ServerSends PROVE IInv'
<1> DEFINE m == [kind |-> "call", new |-> {srv + 1}, pts |-> srv + 1]
<1>1. srv + 1 \in 1 .. MaxPts /\ ServerTypes'
  BY BoundsAssumption DEF ServerSends, IInv, TypeOK, ServerTypes
<1>2. srv + 1 \in Positions
  BY <1>1, PositionFacts
<1>3. m \in Messages /\ Follows(m)
  BY <1>1, <1>2 DEF Messages, Follows
<1> QED
  BY <1>1, <1>3, ServerStepKeeps DEF ServerSends, Send

LEMMA ServerReadsChannelKeeps == ASSUME IInv, ServerReadsChannel PROVE IInv'
<1>1. PICK pts \in chan + 1 .. MaxChan :
        chan' = pts /\ Send([kind |-> "call", new |-> {}, pts |-> pts])
  BY DEF ServerReadsChannel
<1> DEFINE m == [kind |-> "call", new |-> {}, pts |-> pts]
<1>2. pts \in 0 .. MaxChan
  BY <1>1, BoundsAssumption DEF IInv, TypeOK, ServerTypes
<1>3. ServerTypes' /\ pts \in Positions
  BY <1>1, <1>2, PositionFacts DEF ServerReadsChannel, IInv, TypeOK, ServerTypes
<1>4. m \in Messages /\ Follows(m)
  BY <1>3 DEF Messages, Follows
<1> QED
  BY <1>1, <1>3, <1>4, ServerStepKeeps DEF ServerReadsChannel, Send

\* Every answer follows the position of its request, or names one itself.
LEMMA ServerAnswersKeeps == ASSUME IInv, ServerAnswers PROVE IInv'
<1>1. PICK r \in asked :
        /\ asked' = asked \ {r}
        /\ AnswerState(r) \/ AnswerDifference(r) \/ AnswerTooLong(r) \/ AnswerPersistent(r)
  BY DEF ServerAnswers
<1>2. r.task \in Tasks /\ r.pts \in Positions /\ (r.kind = "diff" => r.pts \in 0 .. cursor)
  BY DEF IInv, TypeOK, TransportTypes, Requests, RequestsBehind
<1>3. srv \in 0 .. MaxPts /\ srv \in Positions /\ cursor \in Int
  BY PositionFacts, CursorBound DEF IInv, TypeOK, ServerTypes
<1>4. ASSUME NEW result \in Results, NEW from \in Positions, Reply(r, result, from),
             from # -1 => from <= cursor /\ (from + 1) .. result.pts \subseteq result.new
      PROVE  \E m \in Messages : Follows(m) /\ wire' = Append(wire, m)
  <2> DEFINE m == [kind |-> "reply", task |-> r.task, result |-> result, from |-> from]
  <2>1. m \in Messages /\ Follows(m)
    BY <1>2, <1>4 DEF Messages, Follows
  <2> QED
    BY <1>4, <2>1 DEF Reply, Send
<1>5. \E m \in Messages : Follows(m) /\ wire' = Append(wire, m)
  <2>1. CASE AnswerState(r)
    <3>1. Result("state", {}, srv) \in Results
      BY <1>3 DEF Result, Results, ResultKinds
    <3> QED
      BY <1>4, <2>1, <3>1, PositionFacts DEF AnswerState
  <2>2. CASE AnswerDifference(r)
    <3> DEFINE to == Min2(r.pts + SliceSize, srv)
               new == (r.pts + 1) .. to
    <3>1. r.pts \in 0 .. cursor /\ r.pts # -1 /\ r.pts <= cursor
      BY <1>2, <1>3, <2>2 DEF AnswerDifference
    <3>2. to \in Int /\ to <= srv
      BY <1>3, <3>1, BoundsAssumption DEF Min2
    <3>3. new \subseteq 1 .. MaxPts
      <4>1. r.pts \in Int /\ 0 <= r.pts
        BY <1>3, <3>1
      <4>2. MaxPts \in Int /\ srv \in Int /\ srv <= MaxPts
        BY <1>3, BoundsAssumption
      <4> HIDE DEF to
      <4> QED
        BY <3>2, <4>1, <4>2
    <3> HIDE DEF to, new
    <3>4. Result("done", new, srv) \in Results /\ Result("slice", new, -1) \in Results
      BY <1>3, <3>3, PositionFacts DEF Result, Results, ResultKinds
    <3> USE DEF to, new
    <3>5. CASE to = srv
      <4>1. Reply(r, Result("done", new, srv), r.pts)
        BY <2>2, <3>5 DEF AnswerDifference
      <4>2. (r.pts + 1) .. Result("done", new, srv).pts \subseteq Result("done", new, srv).new
        BY <3>5 DEF Result
      <4> QED
        BY <1>2, <1>4, <3>1, <3>4, <4>1, <4>2
    <3>6. CASE to # srv
      <4>1. Reply(r, Result("slice", new, -1), r.pts)
        BY <2>2, <3>6 DEF AnswerDifference
      <4>2. (r.pts + 1) .. Result("slice", new, -1).pts \subseteq Result("slice", new, -1).new
        <5>1. (r.pts + 1) .. -1 = {}
          BY <3>1, <1>3
        <5> QED
          BY <5>1 DEF Result
      <4> QED
        BY <1>2, <1>4, <3>1, <3>4, <4>1, <4>2
    <3> QED
      BY <3>5, <3>6
  <2>3. CASE AnswerTooLong(r)
    <3>1. Result("done", {}, srv) \in Results
      BY <1>3 DEF Result, Results, ResultKinds
    <3> QED
      BY <1>4, <2>3, <3>1, PositionFacts DEF AnswerTooLong
  <2>4. CASE AnswerPersistent(r)
    <3>1. Result("persistent", {}, -1) \in Results
      BY PositionFacts DEF Result, Results, ResultKinds
    <3>2. r.pts \in 0 .. cursor
      BY <1>2, <2>4 DEF AnswerPersistent
    <3>3. (r.pts + 1) .. Result("persistent", {}, -1).pts
            \subseteq Result("persistent", {}, -1).new
      <4>1. (r.pts + 1) .. -1 = {}
        BY <3>2, <1>3
      <4> QED
        BY <4>1 DEF Result
    <3>4. r.pts <= cursor /\ Reply(r, Result("persistent", {}, -1), r.pts)
      BY <1>3, <2>4, <3>2 DEF AnswerPersistent
    <3> QED
      BY <1>2, <1>4, <3>1, <3>3, <3>4
  <2> QED
    BY <1>1, <2>1, <2>2, <2>3, <2>4
<1>6. ServerTypes' /\ asked' \subseteq asked
  BY <1>1 DEF ServerAnswers, server, IInv, TypeOK, ServerTypes
<1> QED
  BY <1>5, <1>6, ServerStepKeeps DEF ServerAnswers

-----------------------------------------------------------------------------
(* The theorems *)

\* A step that changes nothing keeps the invariant.
LEMMA StutterKeeps == ASSUME IInv, UNCHANGED vars PROVE IInv'
<1>1. TypeOK'
  BY DEF vars, server, client, IInv, TypeOK, ServerTypes, TransportTypes, TaskTypes, PositionTypes
<1>2. RequestsBehind' /\ RepliesFollow' /\ GotTaken' /\ AskersKnow' /\ FileBehind' /\ SkippedForCause'
  BY DEF vars, server, client, IInv, RequestsBehind, RepliesFollow, Follows, GotTaken, AskersKnow,
         FileBehind, SkippedForCause
<1> QED
  BY <1>1, <1>2 DEF IInv

\* Every step keeps the invariant.
LEMMA NextKeeps == ASSUME IInv, Next PROVE IInv'
<1>1. CASE Run
  BY <1>1, RunKeeps
<1>2. ASSUME NEW t \in Tasks, WakeUp(t) \/ RequestFails(t) PROVE IInv'
  BY <1>2, WakeUpKeeps, RequestFailsKeeps
<1>3. CASE Handle
  <2>1. \/ HandleReply(Head(wire)) \/ HandleLive(Head(wire))
        \/ HandleTooLong(Head(wire)) \/ HandleCall(Head(wire))
    BY <1>3 DEF Handle
  <2> QED
    BY <1>3, <2>1, HandleReplyKeeps, HandleLiveKeeps, HandleTooLongKeeps, HandleCallKeeps
<1>4. CASE Dispatch
  BY <1>4, DispatchKeeps
<1>5. CASE ConnectionLost \/ ReaderReconnects \/ RequestReconnects \/ Crash
  BY <1>5, ConnectionLostKeeps, ReaderReconnectsKeeps, RequestReconnectsKeeps, CrashKeeps
<1>6. CASE ServerUpdates \/ ServerSends \/ ServerReadsChannel \/ ServerAnswers
  BY <1>6, ServerUpdatesKeeps, ServerSendsKeeps, ServerReadsChannelKeeps, ServerAnswersKeeps
<1> QED
  BY <1>1, <1>2, <1>3, <1>4, <1>5, <1>6 DEF Next

\* The invariant holds in every reachable state: the positions in requests,
\* answers and results agree with the cursor, through losses and crashes.
THEOREM PositionsAgree == Spec => []IInv
<1>1. Init => IInv
  BY InitIInv
<1>2. IInv /\ [Next]_vars => IInv'
  BY NextKeeps, StutterKeeps
<1> QED
  BY <1>1, <1>2, PTL DEF Spec

\* The state has its types.
THEOREM UpdatesTypeCorrect == Spec => []TypeOK
<1>1. IInv => TypeOK
  BY DEF IInv
<1> QED
  BY <1>1, PositionsAgree, PTL

\* Whatever the interleaving of recoveries, answers of other calls, losses,
\* crashes and failed writes: neither the cursor of mtproto.py 423-448 nor its
\* file passes an update that did not reach the bus, except for a cause: a
\* result that names only a position, a crash with updates on the bus, or a
\* write that failed; and a failed write alone does not move the file.
THEOREM SkipsHaveCause == Spec => []SkippedForCause
<1>1. IInv => SkippedForCause
  BY DEF IInv
<1> QED
  BY <1>1, PositionsAgree, PTL

-----------------------------------------------------------------------------
(***************************************************************************)
(* No gap is forgotten.  The recovery that finds the lock held returns     *)
(* and counts on the holder; the holder counts on its answer.  Three       *)
(* orders make this right: the answers of the server come in the order in  *)
(* which it gave them, a task that was created later has its turn later,   *)
(* and the lock is held only by a task that is at work.                    *)
(***************************************************************************)

\* A task that can run, and is in the event loop's queue because of it.
Runnable(t) ==
  task[t] \in {"new", "post"} \/ (task[t] \in Waiting /\ got[t].kind # "none")

Queue ==
  /\ \A i, j \in 1 .. Len(ready) : ready[i] = ready[j] => i = j
  /\ \A t \in Tasks : Runnable(t) <=> \E i \in 1 .. Len(ready) : ready[i] = t

GotWaits == \A t \in Tasks : got[t].kind # "none" => task[t] \in Waiting

HolderWorks == lock => \E t \in Tasks : task[t] \in Locked

\* What the client knows, or is being told, the server has made; and every
\* answer is one.
Told ==
  /\ noticed <= srv
  /\ \A i \in 1 .. Len(wire) : wire[i].kind = "reply" => wire[i].result.kind # "none"
  /\ \A i \in 1 .. Len(wire) : wire[i].kind = "tooLong" => wire[i].at <= srv

DownQuiet == ~up => wire = <<>>

\* Results after which a recovery ends as a success: they name a position.
Final == {"done", "state"}

\* Such an answer covers what was noticed and what is noticed before it.
RepliesCover ==
  \A i \in 1 .. Len(wire) :
    wire[i].kind = "reply" /\ wire[i].result.kind \in Final =>
      /\ noticed <= wire[i].result.pts
      /\ \A j \in 1 .. i : wire[j].kind = "tooLong" => wire[j].at <= wire[i].result.pts

\* A task that will have its turn after t.
Follower(t) ==
  \E o \in Tasks :
    \/ task[o] = "sleep"
    \/ /\ task[o] \in {"new", "post"}
       /\ \E i, j \in 1 .. Len(ready) : i < j /\ ready[i] = t /\ ready[j] = o

\* Once the answer is taken, a later notice has brought a task of its own.
ResultsCover ==
  \A t \in Tasks : got[t].kind \in Final => noticed <= got[t].pts \/ Follower(t)

GapInv ==
  /\ Queue /\ GotWaits /\ HolderWorks
  /\ Told /\ DownQuiet
  /\ RepliesCover /\ ResultsCover
  /\ NoticesServed

LEMMA InitGap == Init => GapInv
<1> SUFFICES ASSUME Init PROVE GapInv
  OBVIOUS
<1>1. \A t \in Tasks : got[t].kind = "none" /\ task[t] = "none"
  BY DEF Init, NoResult, Result
<1>2. Len(ready) = 0 /\ Len(wire) = 0
  BY DEF Init
<1>3. Queue
  BY <1>1, <1>2 DEF Queue, Runnable, Waiting
<1>4. GotWaits /\ HolderWorks /\ ResultsCover
  BY <1>1 DEF Init, GotWaits, HolderWorks, ResultsCover, Final
<1>5. Told /\ RepliesCover /\ DownQuiet
  BY <1>2 DEF Init, Told, RepliesCover, DownQuiet
<1>6. NoticesServed
  BY DEF Init, NoticesServed, Max2
<1> QED
  BY <1>3, <1>4, <1>5, <1>6 DEF GapInv

-----------------------------------------------------------------------------
(* The queue of the event loop *)

\* The queue, and who is behind whom, when nobody's state changes.
LEMMA SameTasks ==
  ASSUME GapInv, UNCHANGED <<task, got, ready>>
  PROVE  Queue' /\ GotWaits' /\ \A t \in Tasks : Follower(t) => Follower(t)'
  BY DEF GapInv, Queue, Runnable, GotWaits, Follower

\* A task that becomes able to run is put at the end.
LEMMA Appended ==
  ASSUME IInv, GapInv, NEW t \in Tasks, ~Runnable(t), Runnable(t)',
         ready' = Append(ready, t), got'[t].kind # "none" => task'[t] \in Waiting,
         task[t] = "sleep" => task'[t] = "post",
         \A o \in Tasks \ {t} : task'[o] = task[o] /\ got'[o] = got[o]
  PROVE  /\ Queue' /\ GotWaits'
         /\ \A o \in Tasks \ {t} : got[o].kind \in Final /\ Follower(o) => Follower(o)'
         /\ \A o \in Tasks \ {t} : got[o].kind \in Final /\ task'[t] \in {"new", "post"}
               => Follower(o)'
<1>1. /\ ready \in Seq(Tasks) /\ Len(ready) \in Nat /\ Len(ready') = Len(ready) + 1
      /\ \A i \in 1 .. Len(ready) : ready'[i] = ready[i]
      /\ ready'[Len(ready) + 1] = t
  BY AppendProperties DEF IInv, TypeOK, TaskTypes
<1>2. \A i \in 1 .. Len(ready) : ready[i] # t
  BY DEF GapInv, Queue
<1>3. \A i, j \in 1 .. Len(ready') : ready'[i] = ready'[j] => i = j
  BY <1>1, <1>2 DEF GapInv, Queue
<1>4. ASSUME NEW o \in Tasks
      PROVE  Runnable(o)' <=> \E i \in 1 .. Len(ready') : ready'[i] = o
  <2>1. CASE o = t
    <3>1. Len(ready) + 1 \in 1 .. Len(ready')
      BY <1>1
    <3> QED
      BY <1>1, <2>1, <3>1
  <2>2. CASE o # t
    <3>1. Runnable(o)' <=> Runnable(o)
      BY <2>2 DEF Runnable
    <3>2. Runnable(o) <=> \E i \in 1 .. Len(ready) : ready[i] = o
      BY DEF GapInv, Queue
    <3>3. (\E i \in 1 .. Len(ready') : ready'[i] = o) <=> \E i \in 1 .. Len(ready) : ready[i] = o
      BY <1>1, <2>2
    <3> QED
      BY <3>1, <3>2, <3>3
  <2> QED
    BY <2>1, <2>2
<1>5. Queue'
  BY <1>3, <1>4 DEF Queue
<1>6. GotWaits'
  BY DEF GapInv, GotWaits
<1>7. ASSUME NEW o \in Tasks \ {t}, got[o].kind \in Final, task'[t] \in {"new", "post"}
      PROVE  Follower(o)'
  <2>1. Runnable(o)
    BY <1>7 DEF GapInv, GotWaits, Final, Runnable
  <2>2. PICK i \in 1 .. Len(ready) : ready[i] = o
    BY <2>1 DEF GapInv, Queue
  <2>3. i \in 1 .. Len(ready') /\ Len(ready) + 1 \in 1 .. Len(ready') /\ i < Len(ready) + 1
        /\ ready'[i] = o
    BY <1>1, <2>2
  <2> QED
    BY <1>1, <1>7, <2>3 DEF Follower
<1>8. ASSUME NEW o \in Tasks \ {t}, got[o].kind \in Final, Follower(o)
      PROVE  Follower(o)'
  <2>1. PICK f \in Tasks :
          \/ task[f] = "sleep"
          \/ /\ task[f] \in {"new", "post"}
             /\ \E i, j \in 1 .. Len(ready) : i < j /\ ready[i] = o /\ ready[j] = f
    BY <1>8 DEF Follower
  <2>2. CASE task[f] = "sleep"
    <3>1. CASE f = t
      <4>1. task'[t] \in {"new", "post"}
        BY <2>2, <3>1
      <4> QED
        BY <1>7, <1>8, <4>1
    <3>2. CASE f # t
      BY <2>2, <3>2 DEF Follower
    <3> QED
      BY <3>1, <3>2
  <2>3. CASE task[f] \in {"new", "post"} 
             /\ \E i, j \in 1 .. Len(ready) : i < j /\ ready[i] = o /\ ready[j] = f
    <3>1. f # t
      BY <2>3 DEF Runnable
    <3>2. PICK i, j \in 1 .. Len(ready) : i < j /\ ready[i] = o /\ ready[j] = f
      BY <2>3
    <3>3. i \in 1 .. Len(ready') /\ j \in 1 .. Len(ready') /\ ready'[i] = o /\ ready'[j] = f
      BY <1>1, <3>2
    <3> QED
      BY <2>3, <3>1, <3>2, <3>3 DEF Follower
  <2> QED
    BY <2>1, <2>2, <2>3
<1> QED
  BY <1>5, <1>6, <1>7, <1>8

-----------------------------------------------------------------------------
(* Turns of the tasks *)

\* What a turn of the task t changes, as far as gaps are concerned.
Turned(t) ==
  /\ \A o \in Tasks \ {t} : task'[o] = task[o] /\ got'[o] = got[o]
  /\ got'[t].kind = "none" /\ task'[t] \in {"none"} \cup Waiting
  /\ noticed' = noticed \/ (noticed' = 0 /\ \A o \in Tasks \ {t} : task[o] = "none")
  /\ HolderWorks'
  /\ NoticesServed'

\* A task that asks goes on, and so is there to serve what was noticed.
LEMMA AskTurns ==
  ASSUME IInv, NEW t \in Tasks, NEW kind \in Waiting, NEW pts, Ask(t, kind, pts),
         noticed' = noticed, lock' => kind \in Locked
  PROVE  Turned(t)
<1>1. task' = [task EXCEPT ![t] = kind] /\ got' = [got EXCEPT ![t] = NoResult]
      /\ t \in DOMAIN task /\ t \in DOMAIN got
  BY DEF Ask, IInv, TypeOK, TaskTypes
<1>2. task'[t] = kind /\ got'[t].kind = "none"
  BY <1>1 DEF NoResult, Result
<1>3. \A o \in Tasks \ {t} : task'[o] = task[o] /\ got'[o] = got[o]
  BY <1>1
<1>4. HolderWorks'
  BY <1>2 DEF HolderWorks
<1>5. NoticesServed'
  BY <1>2 DEF NoticesServed, Waiting
<1> QED
  BY <1>2, <1>3, <1>4, <1>5 DEF Turned

\* A task that ends as a success leaves another one, or nothing to be done.
LEMMA EndTurns ==
  ASSUME IInv, GapInv, NEW t \in Tasks, NEW success \in BOOLEAN, End(t, success),
         cursor' = cursor,
         \/ ~lock'
         \/ lock' = lock /\ task[t] \notin Locked,
         success => \/ noticed <= cursor
                    \/ \E o \in Tasks \ {t} : task[o] # "none"
  PROVE  Turned(t)
<1>1. task' = [task EXCEPT ![t] = "none"] /\ got' = [got EXCEPT ![t] = NoResult]
      /\ t \in DOMAIN task /\ t \in DOMAIN got
  BY DEF End, IInv, TypeOK, TaskTypes
<1>2. task'[t] = "none" /\ got'[t].kind = "none"
  BY <1>1 DEF NoResult, Result
<1>3. \A o \in Tasks \ {t} : task'[o] = task[o] /\ got'[o] = got[o]
  BY <1>1
<1>4. HolderWorks'
  BY <1>3 DEF GapInv, HolderWorks
<1>5. cursor \in Int /\ noticed \in Int
  BY CursorBound DEF IInv, TypeOK, PositionTypes
<1>6. CASE \E o \in Tasks \ {t} : task[o] # "none"
  <2>1. noticed' = noticed /\ \E o \in Tasks : task'[o] # "none"
    BY <1>3, <1>6 DEF End
  <2> QED
    BY <1>2, <1>3, <1>4, <2>1 DEF Turned, NoticesServed
<1>7. CASE ~\E o \in Tasks \ {t} : task[o] # "none"
  <2>1. \/ noticed' = 0
        \/ noticed' = noticed /\ noticed <= cursor
    BY <1>7 DEF End
  <2>2. NoticesServed'
    BY <1>5, <2>1 DEF NoticesServed, Max2
  <2> QED
    BY <1>2, <1>3, <1>4, <1>7, <2>1, <2>2 DEF Turned
<1> QED
  BY <1>6, <1>7

\* When the first task of the queue has taken an answer that names a
\* position, the cursor covers what was noticed, or a task comes after it.
LEMMA FinalCovers ==
  ASSUME IInv, GapInv, NEW t \in Tasks, got[t].kind \in Final
  PROVE  noticed <= cursor \/ \E o \in Tasks \ {t} : task[o] # "none"
<1>1. task[t] \in Waiting
  BY DEF GapInv, GotWaits, Final
<1>2. got[t].pts <= cursor /\ got[t].pts \in Int /\ cursor \in Int /\ noticed \in Int
  BY CursorBound, PositionFacts DEF IInv, GotTaken, TypeOK, TaskTypes, PositionTypes, Results
<1>3. CASE noticed <= got[t].pts
  BY <1>2, <1>3
<1>4. CASE Follower(t)
  BY <1>1, <1>4 DEF Follower, Waiting
<1> QED
  BY <1>3, <1>4 DEF GapInv, ResultsCover

LEMMA RecoverTurns ==
  ASSUME IInv, GapInv, NEW t \in Tasks, task[t] \in {"new", "post"}, RecoverDifference(t),
         cursor' = cursor
  PROVE  Turned(t)
<1>0. task[t] \notin Locked
  BY DEF Locked
<1>1. CASE lock /\ End(t, TRUE) /\ UNCHANGED lock
  <2>1. PICK o \in Tasks : task[o] \in Locked
    BY <1>1 DEF GapInv, HolderWorks
  <2>2. o \in Tasks \ {t} /\ task[o] # "none"
    BY <2>1, <1>0 DEF Locked
  <2> QED
    BY <1>0, <1>1, <2>2, EndTurns
<1>2. CASE End(t, FALSE) /\ UNCHANGED lock
  BY <1>0, <1>2, EndTurns
<1>3. CASE Ask(t, "diff", cursor) /\ UNCHANGED noticed
  BY <1>3, AskTurns DEF Waiting, Locked
<1> QED
  BY <1>1, <1>2, <1>3 DEF RecoverDifference

LEMMA RunTurns ==
  ASSUME IInv, GapInv, Run
  PROVE  /\ Head(ready) \in Tasks /\ Turned(Head(ready))
         /\ ready # <<>> /\ ready' = Tail(ready) /\ UNCHANGED <<server, wire>>
<1>0. Head(ready) \in Tasks /\ ready # <<>> /\ ready' = Tail(ready) /\ UNCHANGED <<server, wire>>
  BY HeadTailProperties DEF Run, IInv, TypeOK, TaskTypes
<1>1. PICK t \in Tasks : t = Head(ready)
  BY <1>0
<1>2. ASSUME StartRecovery(t) PROVE Turned(t)
  BY <1>1, <1>2, RecoverTurns DEF StartRecovery
<1>3. ASSUME StartPostReconnect(t) PROVE Turned(t)
  <2>1. CASE RecoverDifference(t)
    BY <1>1, <1>3, <2>1, RecoverTurns DEF StartPostReconnect
  <2>2. CASE ~lock /\ Ask(t, "first", -1) /\ UNCHANGED <<tries, lock, noticed>>
    BY <1>1, <2>2, AskTurns DEF Waiting
  <2> QED
    BY <1>3, <2>1, <2>2 DEF StartPostReconnect
<1>4. ASSUME EndFirstState(t) PROVE Turned(t)
  <2>1. task[t] \notin Locked /\ lock' = lock /\ cursor' = cursor
        /\ End(t, got[t].kind = "state") /\ (got[t].kind = "state") \in BOOLEAN
    BY <1>4 DEF EndFirstState, Locked
  <2>2. got[t].kind = "state" =>
          noticed <= cursor \/ \E o \in Tasks \ {t} : task[o] # "none"
    BY <1>1, FinalCovers DEF Final
  <2> QED
    BY <1>1, <2>1, <2>2, EndTurns
<1>5. ASSUME UseDifference(t) PROVE Turned(t)
  <2>1. cursor' = cursor
    BY <1>1, <1>5, UseDifferenceKeeps DEF GoodTurn
  <2>2. CASE LeaveLock(t, got[t].kind = "done")
    <3>1. (got[t].kind = "done") \in BOOLEAN /\ ~lock' /\ End(t, got[t].kind = "done")
      BY <2>2 DEF LeaveLock
    <3>2. got[t].kind = "done" =>
            noticed <= cursor \/ \E o \in Tasks \ {t} : task[o] # "none"
      BY <1>1, FinalCovers DEF Final
    <3> QED
      BY <1>1, <2>1, <3>1, <3>2, EndTurns
  <2>3. CASE Ask(t, "state", -1) /\ UNCHANGED noticed
    BY <1>1, <2>3, AskTurns DEF Waiting, Locked
  <2>4. CASE LeaveLock(t, FALSE)
    BY <1>1, <2>1, <2>4, EndTurns DEF LeaveLock
  <2> QED
    BY <1>5, <2>2, <2>3, <2>4 DEF UseDifference
<1>6. ASSUME UseState(t) PROVE Turned(t)
  <2>1. cursor' = cursor
    BY <1>6 DEF UseState
  <2>2. CASE got[t].kind = "state" /\ LeaveLock(t, TRUE)
    <3>1. noticed <= cursor \/ \E o \in Tasks \ {t} : task[o] # "none"
      BY <1>1, <2>2, FinalCovers DEF Final
    <3> QED
      BY <1>1, <2>1, <2>2, <3>1, EndTurns DEF LeaveLock
  <2>3. CASE Ask(t, "diff", cursor) /\ UNCHANGED noticed
    BY <1>1, <2>3, AskTurns DEF Waiting, Locked
  <2>4. CASE LeaveLock(t, FALSE)
    BY <1>1, <2>1, <2>4, EndTurns DEF LeaveLock
  <2> QED
    BY <1>6, <2>2, <2>3, <2>4 DEF UseState
<1>7. Turned(t)
  <2>1. \/ StartRecovery(t) \/ StartPostReconnect(t) \/ EndFirstState(t)
        \/ UseDifference(t) \/ UseState(t)
    BY <1>1 DEF Run
  <2> QED
    BY <1>2, <1>3, <1>4, <1>5, <1>6, <2>1
<1> QED
  BY <1>0, <1>1, <1>7

\* The task at the head leaves the queue; nobody else changes place.
LEMMA HeadLeaves ==
  ASSUME IInv, GapInv, Run
  PROVE  /\ Queue' /\ GotWaits'
         /\ \A o \in Tasks \ {Head(ready)} :
              got[o].kind \in Final /\ Follower(o) => Follower(o)'
<1>0. PICK t \in Tasks : t = Head(ready)
  BY RunTurns
<1>1. /\ t \in Tasks /\ Turned(t) /\ ready # <<>> /\ ready' = Tail(ready)
      /\ ready \in Seq(Tasks) /\ Len(ready) \in Nat /\ Len(ready) >= 1
      /\ t = ready[1]
  BY <1>0, RunTurns DEF IInv, TypeOK, TaskTypes
<1>2. Len(ready') = Len(ready) - 1 /\ \A i \in 1 .. Len(ready') : ready'[i] = ready[i + 1]
  BY <1>1, HeadTailProperties
<1>3. \A i, j \in 1 .. Len(ready) : ready[i] = ready[j] => i = j
  BY DEF GapInv, Queue
<1>4. \A i, j \in 1 .. Len(ready') : ready'[i] = ready'[j] => i = j
  <2>1. ASSUME NEW i \in 1 .. Len(ready'), NEW j \in 1 .. Len(ready'), ready'[i] = ready'[j]
        PROVE  i = j
    <3>1. i + 1 \in 1 .. Len(ready) /\ j + 1 \in 1 .. Len(ready)
      BY <1>1, <1>2
    <3>2. ready[i + 1] = ready[j + 1]
      BY <1>2, <2>1
    <3>3. i + 1 = j + 1
      BY <1>3, <3>1, <3>2
    <3> QED
      BY <3>3
  <2> QED
    BY <2>1
<1>5. \A i \in 2 .. Len(ready) : ready[i] # t
  BY <1>1, <1>3
<1>6. ASSUME NEW o \in Tasks
      PROVE  Runnable(o)' <=> \E i \in 1 .. Len(ready') : ready'[i] = o
  <2>1. CASE o = t
    <3>1. ~Runnable(t)'
      BY <1>1 DEF Turned, Runnable, Waiting
    <3>2. \A i \in 1 .. Len(ready') : ready'[i] # t
      <4>1. ASSUME NEW i \in 1 .. Len(ready') PROVE ready'[i] # t
        <5>1. i + 1 \in 2 .. Len(ready) /\ ready'[i] = ready[i + 1]
          BY <1>1, <1>2
        <5> QED
          BY <1>5, <5>1
      <4> QED
        BY <4>1
    <3> QED
      BY <2>1, <3>1, <3>2
  <2>2. CASE o # t
    <3>1. Runnable(o)' <=> Runnable(o)
      BY <1>1, <2>2 DEF Turned, Runnable
    <3>2. Runnable(o) <=> \E i \in 1 .. Len(ready) : ready[i] = o
      BY DEF GapInv, Queue
    <3>3. ASSUME NEW i \in 1 .. Len(ready), ready[i] = o
          PROVE  \E j \in 1 .. Len(ready') : ready'[j] = o
      <4>1. i - 1 \in 1 .. Len(ready') /\ (i - 1) + 1 = i
        BY <1>1, <1>2, <2>2, <3>3
      <4>2. ready'[i - 1] = o
        BY <1>2, <3>3, <4>1
      <4> QED
        BY <4>1, <4>2
    <3>4. ASSUME NEW j \in 1 .. Len(ready'), ready'[j] = o
          PROVE  \E i \in 1 .. Len(ready) : ready[i] = o
      <4>1. j + 1 \in 1 .. Len(ready) /\ ready[j + 1] = o
        BY <1>1, <1>2, <3>4
      <4> QED
        BY <4>1
    <3> QED
      BY <3>1, <3>2, <3>3, <3>4
  <2> QED
    BY <2>1, <2>2
<1>7. Queue'
  BY <1>4, <1>6 DEF Queue
<1>8. GotWaits'
  BY <1>1 DEF Turned, GapInv, GotWaits
<1>9. ASSUME NEW o \in Tasks \ {t}, got[o].kind \in Final, Follower(o)
      PROVE  Follower(o)'
  <2>0. Runnable(t)
    <3>1. 1 \in 1 .. Len(ready)
      BY <1>1
    <3> QED
      BY <1>1, <3>1 DEF GapInv, Queue
  <2>1. PICK f \in Tasks :
          \/ task[f] = "sleep"
          \/ /\ task[f] \in {"new", "post"}
             /\ \E i, j \in 1 .. Len(ready) : i < j /\ ready[i] = o /\ ready[j] = f
    BY <1>9 DEF Follower
  <2>2. CASE task[f] = "sleep"
    <3>1. f # t
      BY <2>0, <2>2 DEF Runnable, Waiting
    <3> QED
      BY <1>1, <2>2, <3>1 DEF Follower, Turned
  <2>3. CASE /\ task[f] \in {"new", "post"}
             /\ \E i, j \in 1 .. Len(ready) : i < j /\ ready[i] = o /\ ready[j] = f
    <3>1. PICK i, j \in 1 .. Len(ready) : i < j /\ ready[i] = o /\ ready[j] = f
      BY <2>3
    <3>2. i - 1 \in 1 .. Len(ready') /\ j - 1 \in 1 .. Len(ready') /\ i - 1 < j - 1
          /\ (i - 1) + 1 = i /\ (j - 1) + 1 = j
      BY <1>1, <1>2, <1>9, <3>1
    <3>3. ready'[i - 1] = o /\ ready'[j - 1] = f
      BY <1>2, <3>1, <3>2
    <3>4. f # t
      BY <1>5, <1>1, <1>2, <3>1, <3>2
    <3>5. task'[f] \in {"new", "post"}
      BY <1>1, <2>3, <3>4 DEF Turned
    <3> QED
      BY <3>2, <3>3, <3>5 DEF Follower
  <2> QED
    BY <2>1, <2>2, <2>3
<1> QED
  BY <1>0, <1>7, <1>8, <1>9

LEMMA RunKeepsGap == ASSUME IInv, GapInv, Run PROVE GapInv'
<1>0. PICK t \in Tasks : t = Head(ready)
  BY RunTurns
<1>1. t \in Tasks /\ Turned(t) /\ UNCHANGED <<server, wire>>
  BY <1>0, RunTurns
<1>2. /\ Queue' /\ GotWaits'
      /\ \A o \in Tasks \ {t} : got[o].kind \in Final /\ Follower(o) => Follower(o)'
  BY <1>0, HeadLeaves
<1>3. HolderWorks' /\ NoticesServed'
  BY <1>1 DEF Turned
<1>4. noticed \in Nat /\ noticed' \in Nat /\ noticed' <= noticed /\ srv \in Nat
  BY <1>1 DEF Turned, IInv, TypeOK, ServerTypes, PositionTypes
<1>5. Told' /\ DownQuiet'
  BY <1>1, <1>4 DEF GapInv, Told, DownQuiet, server
<1>6. RepliesCover'
  <2>1. ASSUME NEW i \in 1 .. Len(wire), wire[i].kind = "reply", wire[i].result.kind \in Final
        PROVE  noticed' <= wire[i].result.pts
               /\ \A j \in 1 .. i : wire[j].kind = "tooLong" => wire[j].at <= wire[i].result.pts
    <3>1. wire[i] \in Messages
      BY DEF IInv, TypeOK, TransportTypes
    <3>2. wire[i].result.pts \in Int
      BY <2>1, <3>1, PositionFacts DEF Messages, Results
    <3> QED
      BY <1>4, <2>1, <3>2 DEF GapInv, RepliesCover
  <2> QED
    BY <1>1, <2>1 DEF RepliesCover
<1>7. ResultsCover'
  <2>1. ASSUME NEW o \in Tasks, got'[o].kind \in Final
        PROVE  noticed' <= got'[o].pts \/ Follower(o)'
    <3>1. o # t
      BY <1>1, <2>1 DEF Turned, Final
    <3>2. got'[o] = got[o] /\ task[o] # "none" /\ noticed' = noticed
      BY <1>1, <2>1, <3>1 DEF Turned, GapInv, GotWaits, Waiting, Final
    <3> QED
      BY <1>2, <2>1, <3>1, <3>2 DEF GapInv, ResultsCover
  <2> QED
    BY <2>1 DEF ResultsCover
<1> QED
  BY <1>2, <1>3, <1>5, <1>6, <1>7 DEF GapInv

-----------------------------------------------------------------------------
(* Steps of the client that handle no message *)

\* A step that changes neither the tasks nor what was noticed.
LEMMA TasksSame ==
  ASSUME IInv, GapInv, UNCHANGED <<task, got, ready, lock, noticed>>, cursor <= cursor',
         cursor' \in Int
  PROVE  Queue' /\ GotWaits' /\ HolderWorks' /\ ResultsCover' /\ NoticesServed'
<1>1. Queue' /\ GotWaits' /\ \A t \in Tasks : Follower(t) => Follower(t)'
  BY SameTasks
<1>2. HolderWorks'
  BY DEF GapInv, HolderWorks
<1>3. ResultsCover'
  BY <1>1 DEF GapInv, ResultsCover
<1>4. cursor \in Int /\ noticed \in Int
  BY CursorBound DEF IInv, TypeOK, PositionTypes
<1>5. NoticesServed'
  BY <1>4 DEF GapInv, NoticesServed, Max2
<1> QED
  BY <1>1, <1>2, <1>3, <1>5

\* A step that changes neither the server nor what it has sent, nor what
\* was noticed.
LEMMA WireSame ==
  ASSUME GapInv, UNCHANGED <<srv, up, wire, noticed>>
  PROVE  Told' /\ DownQuiet' /\ RepliesCover'
  BY DEF GapInv, Told, DownQuiet, RepliesCover

LEMMA DispatchKeepsGap == ASSUME IInv, GapInv, Dispatch PROVE GapInv'
<1>1. UNCHANGED <<task, got, ready, lock, noticed, srv, up, wire, cursor>>
  BY DEF Dispatch, client, server
<1>2. cursor <= cursor' /\ cursor' \in Int
  BY <1>1, CursorBound
<1> QED
  BY <1>1, <1>2, TasksSame, WireSame DEF GapInv

\* The other tasks are as they were, and this one is there.
LEMMA TaskRuns ==
  ASSUME IInv, GapInv, NEW t \in Tasks, ~Runnable(t), Runnable(t)',
         ready' = Append(ready, t), got'[t].kind # "none" => task'[t] \in Waiting,
         task[t] = "sleep" => task'[t] = "post",
         \A o \in Tasks \ {t} : task'[o] = task[o] /\ got'[o] = got[o],
         got'[t].kind \notin Final, noticed' = noticed, lock' = lock,
         task[t] \in Locked => task'[t] = task[t]
  PROVE  Queue' /\ GotWaits' /\ HolderWorks' /\ ResultsCover' /\ NoticesServed'
<1>1. /\ Queue' /\ GotWaits'
      /\ \A o \in Tasks \ {t} : got[o].kind \in Final /\ Follower(o) => Follower(o)'
  BY Appended
<1>2. HolderWorks'
  BY DEF GapInv, HolderWorks
<1>3. ResultsCover'
  <2>1. ASSUME NEW o \in Tasks, got'[o].kind \in Final
        PROVE  noticed' <= got'[o].pts \/ Follower(o)'
    <3>1. o \in Tasks \ {t} /\ got'[o] = got[o]
      BY <2>1
    <3> QED
      BY <1>1, <2>1, <3>1 DEF GapInv, ResultsCover
  <2> QED
    BY <2>1 DEF ResultsCover
<1>4. task'[t] # "none"
  BY DEF Runnable, Waiting
<1>5. NoticesServed'
  BY <1>4 DEF NoticesServed
<1> QED
  BY <1>1, <1>2, <1>3, <1>5

LEMMA WakeUpKeepsGap ==
  ASSUME IInv, GapInv, NEW t \in Tasks, WakeUp(t) PROVE GapInv'
<1>1. /\ task[t] = "sleep" /\ task'[t] = "post" /\ got'[t] = got[t]
      /\ \A o \in Tasks \ {t} : task'[o] = task[o] /\ got'[o] = got[o]
  BY DEF WakeUp, IInv, TypeOK, TaskTypes
<1>2. got[t].kind = "none"
  BY <1>1 DEF GapInv, GotWaits, Waiting
<1>3. ~Runnable(t) /\ Runnable(t)'
  BY <1>1 DEF Runnable, Waiting
<1>4. UNCHANGED <<srv, up, wire, noticed, lock>> /\ ready' = Append(ready, t)
  BY DEF WakeUp, server
<1>5. Queue' /\ GotWaits' /\ HolderWorks' /\ ResultsCover' /\ NoticesServed'
  <2>1. task[t] \notin Locked /\ got'[t].kind \notin Final
    BY <1>1, <1>2 DEF Locked, Final
  <2> QED
    BY <1>1, <1>2, <1>3, <1>4, <2>1, TaskRuns
<1> QED
  BY <1>4, <1>5, WireSame DEF GapInv

LEMMA RequestFailsKeepsGap ==
  ASSUME IInv, GapInv, NEW t \in Tasks, RequestFails(t) PROVE GapInv'
<1>1. /\ task[t] \in Waiting /\ got[t].kind = "none" /\ task' = task /\ got'[t] = Failure
      /\ \A o \in Tasks \ {t} : task'[o] = task[o] /\ got'[o] = got[o]
  BY DEF RequestFails, Awaits, IInv, TypeOK, TaskTypes
<1>2. got'[t].kind = "error"
  BY <1>1 DEF Failure, Result
<1>3. ~Runnable(t) /\ Runnable(t)'
  BY <1>1, <1>2 DEF Runnable, Waiting
<1>4. UNCHANGED <<srv, up, wire, noticed, lock>> /\ ready' = Append(ready, t)
  BY DEF RequestFails, server
<1>5. Queue' /\ GotWaits' /\ HolderWorks' /\ ResultsCover' /\ NoticesServed'
  <2>1. got'[t].kind \notin Final /\ task[t] # "sleep"
    BY <1>1, <1>2 DEF Final, Waiting
  <2> QED
    BY <1>1, <1>2, <1>3, <1>4, <2>1, TaskRuns
<1> QED
  BY <1>4, <1>5, WireSame DEF GapInv

\* Nothing is under way: there is nothing that could be wrong with it.
LEMMA NothingSent ==
  ASSUME IInv, GapInv, wire' = <<>>, srv' = srv, noticed' = noticed \/ noticed' = srv \/ noticed' = 0
  PROVE  Told' /\ DownQuiet' /\ RepliesCover'
<1>1. Len(wire') = 0
  OBVIOUS
<1>2. noticed <= srv /\ srv \in Nat
  BY DEF GapInv, Told, IInv, TypeOK, ServerTypes
<1> QED
  BY <1>1, <1>2 DEF Told, DownQuiet, RepliesCover

\* The failures of all the pending requests are queued in some order.
LEMMA FailuresQueued ==
  ASSUME IInv, GapInv, ConnectionLost
  PROVE  Queue' /\ \A t \in Tasks : got[t].kind \in Final /\ Follower(t) => Follower(t)'
<1> DEFINE failed == {t \in Tasks : Awaits(t)}
           n == Cardinality(failed)
<1>1. IsFiniteSet(failed) /\ n \in Nat
  BY BoundsAssumption, FS_Subset, FS_CardinalityType
<1>2. PICK order \in [1 .. n -> failed] :
        failed = {order[i] : i \in DOMAIN order} /\ ready' = ready \o order
  BY Zenon DEF ConnectionLost
<1>3. /\ \A t \in Tasks : got'[t] = IF t \in failed THEN Failure ELSE got[t]
      /\ task' = task
  BY DEF ConnectionLost
<1>4. Failure.kind = "error"
  BY DEF Failure, Result
<1>5. \A t \in Tasks : t \in failed <=> task[t] \in Waiting /\ got[t].kind = "none"
  BY DEF Awaits
<1>6. failed \subseteq Tasks
  OBVIOUS
<1>7. \A i, j \in 1 .. n : order[i] = order[j] => i = j
  <2> HIDE DEF failed
  <2>1. IsFiniteSet(1 .. n) /\ Cardinality(1 .. n) = n
    BY <1>1, FS_Interval
  <2>2. order \in Surjection(1 .. n, failed)
    BY <1>2 DEF Surjection
  <2>3. order \in Injection(1 .. n, failed)
    BY <2>1, <2>2, FS_SurjSameCardinalityImpliesInj
  <2> QED
    BY <2>3 DEF Injection, IsInjective
<1> HIDE DEF failed, n
<1>8. /\ ready \in Seq(Tasks) /\ Len(ready) \in Nat
      /\ order \in Seq(Tasks) /\ Len(order) = n
  <2>1. order \in [1 .. n -> Tasks]
    BY <1>2, <1>6
  <2> QED
    BY <1>1, <2>1, SeqDef DEF IInv, TypeOK, TaskTypes
<1>9. /\ Len(ready') = Len(ready) + n
      /\ \A i \in 1 .. Len(ready) : ready'[i] = ready[i]
      /\ \A i \in 1 .. n : ready'[Len(ready) + i] = order[i]
      /\ \A i \in Len(ready) + 1 .. Len(ready) + n : ready'[i] = order[i - Len(ready)]
  <2>1. /\ Len(ready') = Len(ready) + n
        /\ \A i \in 1 .. Len(ready) + n :
             ready'[i] = IF i <= Len(ready) THEN ready[i] ELSE order[i - Len(ready)]
    BY <1>2, <1>8, ConcatProperties
  <2> QED
    BY <1>1, <1>8, <2>1
<1>10. \A i \in 1 .. Len(ready) : ready[i] \in Tasks /\ Runnable(ready[i])
  BY <1>8 DEF GapInv, Queue
<1>11. \A i \in 1 .. n : order[i] \in failed /\ ~Runnable(order[i])
  BY <1>2, <1>5, <1>6 DEF Runnable, Waiting
<1>12. \A i, j \in 1 .. Len(ready') : ready'[i] = ready'[j] => i = j
  <2>1. ASSUME NEW i \in 1 .. Len(ready'), NEW j \in 1 .. Len(ready'), ready'[i] = ready'[j]
        PROVE  i = j
    <3>1. CASE i <= Len(ready) /\ j <= Len(ready)
      BY <1>8, <1>9, <2>1, <3>1 DEF GapInv, Queue
    <3>2. CASE i > Len(ready) /\ j > Len(ready)
      <4>1. i - Len(ready) \in 1 .. n /\ j - Len(ready) \in 1 .. n
            /\ i \in Len(ready) + 1 .. Len(ready) + n /\ j \in Len(ready) + 1 .. Len(ready) + n
        BY <1>1, <1>8, <1>9, <3>2
      <4>2. order[i - Len(ready)] = order[j - Len(ready)]
        BY <1>9, <2>1, <4>1
      <4>3. i - Len(ready) = j - Len(ready)
        BY <1>7, <4>1, <4>2
      <4> QED
        BY <1>8, <4>3
    <3>3. ASSUME NEW a \in 1 .. Len(ready), NEW b \in Len(ready) + 1 .. Len(ready) + n
          PROVE  ready'[a] # ready'[b]
      <4>1. b - Len(ready) \in 1 .. n
        BY <1>1, <1>8
      <4> QED
        BY <1>9, <1>10, <1>11, <4>1
    <3> QED
      BY <1>1, <1>8, <1>9, <2>1, <3>1, <3>2, <3>3
  <2> QED
    BY <2>1
<1>13. ASSUME NEW t \in Tasks
       PROVE  Runnable(t)' <=> \E i \in 1 .. Len(ready') : ready'[i] = t
  <2>1. Runnable(t)' <=> Runnable(t) \/ t \in failed
    BY <1>3, <1>4, <1>5 DEF Runnable, Waiting
  <2>2. Runnable(t) <=> \E i \in 1 .. Len(ready) : ready[i] = t
    BY DEF GapInv, Queue
  <2>3. t \in failed <=> \E i \in 1 .. n : order[i] = t
    BY <1>2
  <2>4. ASSUME NEW i \in 1 .. Len(ready), ready[i] = t
        PROVE  \E j \in 1 .. Len(ready') : ready'[j] = t
    <3>1. i \in 1 .. Len(ready') /\ ready'[i] = t
      BY <1>1, <1>8, <1>9, <2>4
    <3> QED
      BY <3>1
  <2>5. ASSUME NEW i \in 1 .. n, order[i] = t
        PROVE  \E j \in 1 .. Len(ready') : ready'[j] = t
    <3>1. Len(ready) + i \in 1 .. Len(ready') /\ ready'[Len(ready) + i] = t
      BY <1>1, <1>8, <1>9, <2>5
    <3> QED
      BY <3>1
  <2>6. ASSUME NEW j \in 1 .. Len(ready'), ready'[j] = t
        PROVE  (\E i \in 1 .. Len(ready) : ready[i] = t) \/ \E i \in 1 .. n : order[i] = t
    <3>1. CASE j <= Len(ready)
      BY <1>8, <1>9, <2>6, <3>1
    <3>2. CASE j > Len(ready)
      <4>1. j - Len(ready) \in 1 .. n /\ j \in Len(ready) + 1 .. Len(ready) + n
        BY <1>1, <1>8, <1>9, <3>2
      <4> QED
        BY <1>9, <2>6, <4>1
    <3> QED
      BY <1>8, <1>9, <3>1, <3>2
  <2> QED
    BY <2>1, <2>2, <2>3, <2>4, <2>5, <2>6
<1>14. Queue'
  BY <1>12, <1>13 DEF Queue
<1>15. ASSUME NEW t \in Tasks, Follower(t) PROVE Follower(t)'
  <2>1. \A i \in 1 .. Len(ready) : i \in 1 .. Len(ready') /\ ready'[i] = ready[i]
    BY <1>1, <1>8, <1>9
  <2> QED
    BY <1>3, <1>15, <2>1 DEF Follower
<1> QED
  BY <1>14, <1>15

LEMMA ConnectionLostKeepsGap == ASSUME IInv, GapInv, ConnectionLost PROVE GapInv'
<1>1. Queue' /\ \A t \in Tasks : got[t].kind \in Final /\ Follower(t) => Follower(t)'
  BY FailuresQueued
<1>2. /\ task' = task /\ lock' = lock /\ noticed' = noticed /\ cursor' = cursor
      /\ wire' = <<>> /\ srv' = srv
      /\ \A t \in Tasks : got'[t] = got[t] \/ (Awaits(t) /\ got'[t] = Failure)
  BY DEF ConnectionLost
<1>3. Failure.kind = "error"
  BY DEF Failure, Result
<1>4. GotWaits' /\ HolderWorks'
  BY <1>2 DEF GapInv, GotWaits, HolderWorks, Awaits
<1>5. ResultsCover'
  <2>1. ASSUME NEW t \in Tasks, got'[t].kind \in Final
        PROVE  noticed' <= got'[t].pts \/ Follower(t)'
    <3>1. got'[t] = got[t]
      BY <1>2, <1>3, <2>1 DEF Final
    <3> QED
      BY <1>1, <1>2, <2>1, <3>1 DEF GapInv, ResultsCover
  <2> QED
    BY <2>1 DEF ResultsCover
<1>6. NoticesServed'
  BY <1>2 DEF GapInv, NoticesServed
<1>7. Told' /\ DownQuiet' /\ RepliesCover'
  BY <1>2, NothingSent
<1> QED
  BY <1>1, <1>4, <1>5, <1>6, <1>7 DEF GapInv

\* The task of a reconnect is behind everything that is queued.
LEMMA ReaderReconnectsKeepsGap == ASSUME IInv, GapInv, ReaderReconnects PROVE GapInv'
<1>1. PICK t \in Tasks : Create(t, "sleep")
  BY DEF ReaderReconnects
<1>2. /\ task[t] = "none" /\ task' = [task EXCEPT ![t] = "sleep"] /\ task'[t] = "sleep"
      /\ \A o \in Tasks \ {t} : task'[o] = task[o]
      /\ UNCHANGED <<got, lock, ready, wire, srv>> /\ noticed' = srv /\ ~up
  BY <1>1 DEF Create, IsFree, ReaderReconnects, IInv, TypeOK, TaskTypes
<1>3. \A o \in Tasks : Runnable(o)' <=> Runnable(o)
  BY <1>2 DEF Runnable, Waiting
<1>4. Queue'
  BY <1>2, <1>3 DEF GapInv, Queue
<1>5. GotWaits' /\ HolderWorks'
  BY <1>2 DEF GapInv, GotWaits, HolderWorks, Waiting, Locked
<1>6. ResultsCover' /\ NoticesServed'
  BY <1>2 DEF ResultsCover, Follower, NoticesServed
<1>7. Told' /\ DownQuiet' /\ RepliesCover'
  BY <1>2, NothingSent DEF GapInv, DownQuiet
<1> QED
  BY <1>4, <1>5, <1>6, <1>7 DEF GapInv

LEMMA RequestReconnectsKeepsGap == ASSUME IInv, GapInv, RequestReconnects PROVE GapInv'
<1>1. UNCHANGED <<task, got, ready, lock, noticed, srv, wire, cursor>> /\ up' = TRUE
  BY DEF RequestReconnects, client
<1>2. cursor <= cursor' /\ cursor' \in Int
  BY <1>1, CursorBound
<1>3. Told' /\ DownQuiet' /\ RepliesCover'
  BY <1>1 DEF GapInv, Told, DownQuiet, RepliesCover
<1> QED
  BY <1>1, <1>2, <1>3, TasksSame DEF GapInv

LEMMA CrashKeepsGap == ASSUME IInv, GapInv, Crash PROVE GapInv'
<1>1. /\ \A t \in Tasks : task'[t] = "none" /\ got'[t].kind = "none"
      /\ lock' = FALSE /\ ready' = <<>> /\ wire' = <<>> /\ srv' = srv /\ noticed' = 0
  BY DEF Crash, NoResult, Result
<1>2. Queue' /\ GotWaits' /\ HolderWorks' /\ ResultsCover'
  BY <1>1 DEF Queue, Runnable, Waiting, GotWaits, HolderWorks, ResultsCover, Final
<1>3. cursor' \in Int
  BY FileBound DEF Crash
<1>4. NoticesServed'
  BY <1>1, <1>3 DEF NoticesServed, Max2
<1> QED
  BY <1>1, <1>2, <1>4, NothingSent DEF GapInv

-----------------------------------------------------------------------------
(* The reader *)

\* The first message leaves; what comes after it covers what it announced.
LEMMA FirstLeaves ==
  ASSUME IInv, GapInv, Handle,
         \/ noticed' = noticed
         \/ Head(wire).kind = "tooLong" /\ noticed' = Max2(noticed, Head(wire).at)
  PROVE  Told' /\ DownQuiet' /\ RepliesCover'
<1>1. /\ wire \in Seq(Messages) /\ wire # <<>> /\ wire' = Tail(wire)
      /\ srv' = srv /\ up' = up /\ Len(wire) \in Nat
  BY DEF Handle, server, IInv, TypeOK, TransportTypes
<1>2. /\ Len(wire') = Len(wire) - 1 /\ Len(wire) >= 1
      /\ \A i \in 1 .. Len(wire') : wire'[i] = wire[i + 1]
      /\ Head(wire) = wire[1]
  BY <1>1, HeadTailProperties
<1>3. \A i \in 1 .. Len(wire') : i + 1 \in 1 .. Len(wire)
  BY <1>1, <1>2
<1>4. noticed \in Int /\ srv \in Int
  BY DEF IInv, TypeOK, PositionTypes, ServerTypes
<1>5. wire[1].kind = "tooLong" => wire[1].at \in Int /\ wire[1].at <= srv
  <2>1. 1 \in 1 .. Len(wire)
    BY <1>1, <1>2
  <2>2. wire[1] \in Messages
    BY <1>1, <2>1
  <2> QED
    BY <2>1, <2>2 DEF Messages, GapInv, Told
<1>6. noticed' <= srv
  BY <1>2, <1>4, <1>5 DEF GapInv, Told, Max2
<1>7. Told'
  BY <1>1, <1>2, <1>3, <1>6 DEF GapInv, Told
<1>8. DownQuiet'
  BY <1>1 DEF GapInv, DownQuiet
<1>9. ASSUME NEW i \in 1 .. Len(wire'), wire'[i].kind = "reply", wire'[i].result.kind \in Final
      PROVE  /\ noticed' <= wire'[i].result.pts
             /\ \A j \in 1 .. i : wire'[j].kind = "tooLong" => wire'[j].at <= wire'[i].result.pts
  <2>1. /\ noticed <= wire[i + 1].result.pts
        /\ \A j \in 1 .. i + 1 : wire[j].kind = "tooLong" => wire[j].at <= wire[i + 1].result.pts
    BY <1>2, <1>3, <1>9 DEF GapInv, RepliesCover
  <2>2. 1 \in 1 .. i + 1 /\ \A j \in 1 .. i : j + 1 \in 1 .. i + 1 /\ j \in 1 .. Len(wire')
    BY <1>1, <1>2
  <2>3. noticed' <= wire[i + 1].result.pts
    BY <1>2, <2>1, <2>2 DEF Max2
  <2> QED
    BY <1>2, <2>1, <2>2, <2>3
<1>10. RepliesCover'
  BY <1>9 DEF RepliesCover
<1> QED
  BY <1>7, <1>8, <1>10

\* The answer is taken when it arrives; the task that waits has its turn.
LEMMA HandleReplyKeepsGap ==
  ASSUME IInv, GapInv, Handle, HandleReply(Head(wire)) PROVE GapInv'
<1>1. Head(wire) \in Messages /\ wire # <<>> /\ IInv'
  BY FirstMessage, HandleReplyKeeps
<1>2. PICK m \in Messages : m = Head(wire)
  BY <1>1
<1>3. 1 \in 1 .. Len(wire) /\ wire[1] = m
  BY <1>1, <1>2, HeadTailProperties DEF IInv, TypeOK, TransportTypes
<1>4. m.kind = "reply" /\ m.task \in Tasks /\ m.result \in Results /\ m.result.kind # "none"
  BY <1>2, <1>3 DEF HandleReply, Messages, GapInv, Told
<1>5. CASE UNCHANGED <<bus, passed, client>>
  <2>1. UNCHANGED <<task, got, ready, lock, noticed, cursor>>
    BY <1>5 DEF client
  <2>2. cursor <= cursor' /\ cursor' \in Int
    BY <2>1, CursorBound
  <2> QED
    BY <2>1, <2>2, TasksSame, FirstLeaves DEF GapInv
<1>6. ASSUME Awaits(m.task),
             NEW r \in {m.result, Failure}, got' = [got EXCEPT ![m.task] = r],
             ready' = Append(ready, m.task),
             UNCHANGED <<task, tries, lock, noticed>>
      PROVE  GapInv'
  <2>0. r.kind # "none" /\ (r.kind \in Final => r = m.result)
    BY <1>4 DEF Failure, Result, Final
  <2>1. PICK t \in Tasks : t = m.task
    BY <1>4
  <2>2. /\ got'[t] = r /\ task' = task
        /\ \A o \in Tasks \ {t} : task'[o] = task[o] /\ got'[o] = got[o]
        /\ task[t] \in Waiting /\ got[t].kind = "none"
    BY <1>6, <2>1 DEF Awaits, IInv, TypeOK, TaskTypes
  <2>3. ~Runnable(t) /\ Runnable(t)'
    BY <2>2, <2>0 DEF Runnable, Waiting
  <2>4. task[t] # "sleep" /\ task[t] # "none"
    BY <2>2 DEF Waiting
  <2>5. /\ Queue' /\ GotWaits'
        /\ \A o \in Tasks \ {t} : got[o].kind \in Final /\ Follower(o) => Follower(o)'
    BY <1>6, <2>1, <2>2, <2>3, <2>4, Appended
  <2>6. HolderWorks' /\ NoticesServed'
    BY <1>6, <2>2, <2>4 DEF GapInv, HolderWorks, NoticesServed
  <2>7. ResultsCover'
    <3>1. ASSUME NEW o \in Tasks, got'[o].kind \in Final
          PROVE  noticed' <= got'[o].pts \/ Follower(o)'
      <4>1. CASE o = t
        <5>1. noticed <= m.result.pts
          BY <1>3, <1>4, <2>2, <2>0, <3>1, <4>1 DEF GapInv, RepliesCover
        <5> QED
          BY <1>6, <2>2, <2>0, <3>1, <4>1, <5>1
      <4>2. CASE o # t
        <5>1. o \in Tasks \ {t} /\ got'[o] = got[o]
          BY <2>2, <4>2
        <5> QED
          BY <1>6, <2>5, <3>1, <5>1 DEF GapInv, ResultsCover
      <4> QED
        BY <4>1, <4>2
    <3> QED
      BY <3>1 DEF ResultsCover
  <2> QED
    BY <1>6, <2>5, <2>6, <2>7, FirstLeaves DEF GapInv
<1> QED
  BY <1>2, <1>5, <1>6 DEF HandleReply

LEMMA HandleLiveKeepsGap ==
  ASSUME IInv, GapInv, Handle, HandleLive(Head(wire)) PROVE GapInv'
<1>1. UNCHANGED <<task, got, ready, lock, noticed, cursor>>
  BY DEF HandleLive, client
<1>2. cursor <= cursor' /\ cursor' \in Int
  BY <1>1, CursorBound
<1> QED
  BY <1>1, <1>2, TasksSame, FirstLeaves DEF GapInv

\* The notice brings a task that comes after every answer taken before it.
LEMMA HandleTooLongKeepsGap ==
  ASSUME IInv, GapInv, Handle, HandleTooLong(Head(wire)) PROVE GapInv'
<1>1. PICK t \in Tasks : Create(t, "new") /\ ready' = Append(ready, t)
  BY DEF HandleTooLong
<1>2. /\ task[t] = "none" /\ task'[t] = "new" /\ UNCHANGED <<got, lock>>
      /\ \A o \in Tasks \ {t} : task'[o] = task[o] /\ got'[o] = got[o]
  BY <1>1 DEF Create, IsFree, IInv, TypeOK, TaskTypes
<1>3. got'[t].kind = "none"
  BY <1>2 DEF GapInv, GotWaits, Waiting
<1>4. ~Runnable(t) /\ Runnable(t)'
  BY <1>2 DEF Runnable, Waiting
<1>5. /\ Queue' /\ GotWaits'
      /\ \A o \in Tasks \ {t} : got[o].kind \in Final => Follower(o)'
  BY <1>1, <1>2, <1>3, <1>4, Appended
<1>6. HolderWorks' /\ NoticesServed'
  BY <1>2 DEF GapInv, HolderWorks, NoticesServed, Locked
<1>7. ResultsCover'
  BY <1>2, <1>3, <1>5 DEF ResultsCover, Final
<1>8. Told' /\ DownQuiet' /\ RepliesCover'
  BY FirstLeaves DEF HandleTooLong
<1> QED
  BY <1>5, <1>6, <1>7, <1>8 DEF GapInv

LEMMA HandleCallKeepsGap ==
  ASSUME IInv, GapInv, Handle, HandleCall(Head(wire)) PROVE GapInv'
<1>1. UNCHANGED <<task, got, ready, lock, noticed>> /\ UpdateCursor(Head(wire).pts)
  BY DEF HandleCall, Take, TakeFails
<1>2. Head(wire).pts \in Positions
  <2>1. Head(wire) \in Messages /\ Head(wire).kind = "call"
    BY FirstMessage DEF HandleCall
  <2> QED
    BY <2>1 DEF Messages
<1>3. cursor <= cursor' /\ cursor' \in Int
  BY <1>1, <1>2, CursorGrows, PositionFacts
<1> QED
  BY <1>1, <1>3, TasksSame, FirstLeaves DEF GapInv

-----------------------------------------------------------------------------
(* The server *)

\* What the server sends comes after what it sent before, and tells of
\* nothing it has not made; an answer that names a position names its last.
LEMMA ServerStepKeepsGap ==
  ASSUME IInv, GapInv, srv' \in Int, srv <= srv', up' = up, UNCHANGED client,
         \/ UNCHANGED wire
         \/ /\ up
            /\ \E m \in Messages :
                 /\ wire' = Append(wire, m)
                 /\ m.kind = "tooLong" => m.at <= srv'
                 /\ m.kind = "reply" =>
                      /\ m.result.kind # "none"
                      /\ m.result.kind \in Final => m.result.pts = srv
  PROVE  GapInv'
<1>1. UNCHANGED <<task, got, ready, lock, noticed, cursor>>
  BY DEF client
<1>2. cursor <= cursor' /\ cursor' \in Int /\ noticed \in Int /\ srv \in Int
  BY <1>1, CursorBound DEF IInv, TypeOK, PositionTypes, ServerTypes
<1>3. wire \in Seq(Messages) /\ Len(wire) \in Nat
  BY DEF IInv, TypeOK, TransportTypes
<1>4. \A i \in 1 .. Len(wire) : wire[i].kind = "tooLong" => wire[i].at \in Int
  <2>1. \A i \in 1 .. Len(wire) : wire[i] \in Messages
    BY <1>3
  <2> QED
    BY <2>1 DEF Messages
<1>5. noticed <= srv' /\ \A i \in 1 .. Len(wire) : wire[i].kind = "tooLong" => wire[i].at <= srv'
  BY <1>2, <1>4 DEF GapInv, Told
<1>6. ASSUME up, NEW m \in Messages, wire' = Append(wire, m),
             m.kind = "tooLong" => m.at <= srv',
             m.kind = "reply" =>
               m.result.kind # "none" /\ (m.result.kind \in Final => m.result.pts = srv)
      PROVE  Told' /\ DownQuiet' /\ RepliesCover'
  <2>1. /\ Len(wire') = Len(wire) + 1 /\ wire'[Len(wire) + 1] = m
        /\ \A i \in 1 .. Len(wire) : wire'[i] = wire[i]
    BY <1>3, <1>6, AppendProperties
  <2>2. \A i \in 1 .. Len(wire') : i \in 1 .. Len(wire) \/ i = Len(wire) + 1
    BY <1>3, <2>1
  <2>3. Told'
    BY <1>1, <1>5, <1>6, <2>1, <2>2 DEF GapInv, Told
  <2>4. DownQuiet'
    BY <1>6 DEF DownQuiet
  <2>5. ASSUME NEW i \in 1 .. Len(wire'), wire'[i].kind = "reply", wire'[i].result.kind \in Final
        PROVE  /\ noticed' <= wire'[i].result.pts
               /\ \A j \in 1 .. i : wire'[j].kind = "tooLong" => wire'[j].at <= wire'[i].result.pts
    <3>1. CASE i \in 1 .. Len(wire)
      <4>1. \A j \in 1 .. i : j \in 1 .. Len(wire)
        BY <1>3, <3>1
      <4> QED
        BY <1>1, <2>1, <2>5, <3>1, <4>1 DEF GapInv, RepliesCover
    <3>2. CASE i = Len(wire) + 1
      <4>1. wire'[i] = m /\ m.result.pts = srv
        BY <1>6, <2>1, <2>5, <3>2
      <4>2. ASSUME NEW j \in 1 .. i, wire'[j].kind = "tooLong" PROVE wire'[j].at <= srv
        <5>1. j # i
          BY <2>5, <4>2
        <5>2. j \in 1 .. Len(wire)
          BY <1>3, <3>2, <5>1
        <5> QED
          BY <2>1, <4>2, <5>2 DEF GapInv, Told
      <4> QED
        BY <1>1, <4>1, <4>2 DEF GapInv, Told
    <3> QED
      BY <2>2, <3>1, <3>2
  <2>6. RepliesCover'
    BY <2>5 DEF RepliesCover
  <2> QED
    BY <2>3, <2>4, <2>6
<1>7. Told' /\ DownQuiet' /\ RepliesCover'
  <2>1. CASE UNCHANGED wire
    BY <1>1, <1>5, <2>1 DEF GapInv, Told, DownQuiet, RepliesCover
  <2> QED
    BY <1>6, <2>1
<1> QED
  BY <1>1, <1>2, <1>7, TasksSame DEF GapInv

LEMMA ServerUpdatesKeepsGap == ASSUME IInv, GapInv, ServerUpdates PROVE GapInv'
<1>1. /\ srv \in Int /\ srv' = srv + 1 /\ srv + 1 \in 1 .. MaxPts /\ up' = up
      /\ UNCHANGED client
  BY BoundsAssumption DEF ServerUpdates, IInv, TypeOK, ServerTypes
<1>2. CASE UNCHANGED wire
  BY <1>1, <1>2, ServerStepKeepsGap
<1>3. ASSUME up, NEW kind \in {"live", "tooLong"}, Send([kind |-> kind, at |-> srv + 1])
      PROVE  GapInv'
  <2> DEFINE m == [kind |-> kind, at |-> srv + 1]
  <2>1. m \in [kind : {"live", "tooLong"}, at : 1 .. MaxPts]
    BY <1>1
  <2>2. m \in Messages /\ m.kind # "reply" /\ m.at = srv'
    BY <1>1, <2>1 DEF Messages
  <2>3. wire' = Append(wire, m)
    BY <1>3 DEF Send
  <2> HIDE DEF m
  <2> QED
    BY <1>1, <1>3, <2>2, <2>3, ServerStepKeepsGap
<1> QED
  BY <1>2, <1>3 DEF ServerUpdates

LEMMA ServerSendsKeepsGap == ASSUME IInv, GapInv, ServerSends PROVE GapInv'
<1> DEFINE m == [kind |-> "call", new |-> {srv + 1}, pts |-> srv + 1]
<1>1. /\ srv \in Int /\ srv' = srv + 1 /\ srv + 1 \in 1 .. MaxPts /\ up' = up /\ up
      /\ UNCHANGED client
  BY BoundsAssumption DEF ServerSends, IInv, TypeOK, ServerTypes
<1>2. srv + 1 \in Positions
  BY <1>1, PositionFacts
<1>3. m \in Messages /\ m.kind = "call"
  BY <1>1, <1>2 DEF Messages
<1>4. wire' = Append(wire, m)
  BY DEF ServerSends, Send
<1> HIDE DEF m
<1> QED
  BY <1>1, <1>3, <1>4, ServerStepKeepsGap

LEMMA ServerReadsChannelKeepsGap ==
  ASSUME IInv, GapInv, ServerReadsChannel PROVE GapInv'
<1>1. PICK pts \in chan + 1 .. MaxChan :
        chan' = pts /\ Send([kind |-> "call", new |-> {}, pts |-> pts])
  BY DEF ServerReadsChannel
<1> DEFINE m == [kind |-> "call", new |-> {}, pts |-> pts]
<1>2. pts \in 0 .. MaxChan /\ srv \in Int
  BY <1>1, BoundsAssumption DEF IInv, TypeOK, ServerTypes
<1>3. pts \in Positions /\ srv' = srv /\ up' = up /\ up /\ UNCHANGED client
  BY <1>2, PositionFacts DEF ServerReadsChannel
<1>4. m \in Messages /\ m.kind = "call" /\ wire' = Append(wire, m)
  BY <1>1, <1>3 DEF Messages, Send
<1> HIDE DEF m
<1> QED
  BY <1>2, <1>3, <1>4, ServerStepKeepsGap

LEMMA ServerAnswersKeepsGap == ASSUME IInv, GapInv, ServerAnswers PROVE GapInv'
<1>1. PICK r \in asked :
        AnswerState(r) \/ AnswerDifference(r) \/ AnswerTooLong(r) \/ AnswerPersistent(r)
  BY DEF ServerAnswers
<1>2. /\ srv \in Int /\ srv' = srv /\ up' = up /\ up /\ UNCHANGED client
      /\ wire \in Seq(Messages) /\ wire' \in Seq(Messages)
  <2>1. IInv'
    BY ServerAnswersKeeps
  <2> QED
    BY <2>1 DEF ServerAnswers, server, IInv, TypeOK, ServerTypes, TransportTypes
<1>3. ASSUME NEW result, NEW from, Reply(r, result, from), result.kind # "none",
             result.kind \in Final => result.pts = srv
      PROVE  GapInv'
  <2> DEFINE m == [kind |-> "reply", task |-> r.task, result |-> result, from |-> from]
  <2>1. wire' = Append(wire, m)
    BY <1>3 DEF Reply, Send
  <2>2. m.kind = "reply" /\ m.result = result
    OBVIOUS
  <2> HIDE DEF m
  <2>3. wire'[Len(wire) + 1] = m /\ Len(wire) + 1 \in 1 .. Len(wire')
    BY <1>2, <2>1
  <2>4. m \in Messages
    BY <1>2, <2>3
  <2> QED
    BY <1>2, <1>3, <2>1, <2>2, <2>4, ServerStepKeepsGap
<1>4. CASE AnswerState(r)
  BY <1>3, <1>4 DEF AnswerState, Result
<1>5. CASE AnswerDifference(r)
  <2> DEFINE to == Min2(r.pts + SliceSize, srv)
  <2>1. CASE to = srv
    BY <1>3, <1>5, <2>1 DEF AnswerDifference, Result
  <2>2. CASE to # srv
    BY <1>3, <1>5, <2>2 DEF AnswerDifference, Result, Final
  <2> QED
    BY <2>1, <2>2
<1>6. CASE AnswerTooLong(r)
  BY <1>3, <1>6 DEF AnswerTooLong, Result
<1>7. CASE AnswerPersistent(r)
  BY <1>3, <1>7 DEF AnswerPersistent, Result, Final
<1> QED
  BY <1>1, <1>4, <1>5, <1>6, <1>7

-----------------------------------------------------------------------------
LEMMA NextKeepsGap == ASSUME IInv, GapInv, Next PROVE GapInv'
<1>1. CASE Run
  BY <1>1, RunKeepsGap
<1>2. ASSUME NEW t \in Tasks, WakeUp(t) \/ RequestFails(t) PROVE GapInv'
  BY <1>2, WakeUpKeepsGap, RequestFailsKeepsGap
<1>3. CASE Handle
  <2>1. \/ HandleReply(Head(wire)) \/ HandleLive(Head(wire))
        \/ HandleTooLong(Head(wire)) \/ HandleCall(Head(wire))
    BY <1>3 DEF Handle
  <2> QED
    BY <1>3, <2>1, HandleReplyKeepsGap, HandleLiveKeepsGap, HandleTooLongKeepsGap,
       HandleCallKeepsGap
<1>4. CASE Dispatch
  BY <1>4, DispatchKeepsGap
<1>5. CASE ConnectionLost \/ ReaderReconnects \/ RequestReconnects \/ Crash
  BY <1>5, ConnectionLostKeepsGap, ReaderReconnectsKeepsGap, RequestReconnectsKeepsGap,
     CrashKeepsGap
<1>6. CASE ServerUpdates \/ ServerSends \/ ServerReadsChannel \/ ServerAnswers
  BY <1>6, ServerUpdatesKeepsGap, ServerSendsKeepsGap, ServerReadsChannelKeepsGap,
     ServerAnswersKeepsGap
<1> QED
  BY <1>1, <1>2, <1>3, <1>4, <1>5, <1>6 DEF Next

LEMMA StutterKeepsGap == ASSUME IInv, GapInv, UNCHANGED vars PROVE GapInv'
<1>1. UNCHANGED <<task, got, ready, lock, noticed, srv, up, wire, cursor>>
  BY DEF vars, client, server
<1>2. cursor <= cursor' /\ cursor' \in Int
  BY <1>1, CursorBound
<1> QED
  BY <1>1, <1>2, TasksSame, WireSame DEF GapInv

\* A gap of which the client knows is closed or still worked on (1069, 1087-
\* 1171): a recovery that returns because another one holds the lock, and
\* one that ends as a success, leave nothing behind, in whatever order
\* notices, answers, timeouts, reconnects and crashes come.
THEOREM GapsAreFollowedUp == Spec => []NoticesServed
<1>1. Init => GapInv
  BY InitGap
<1>2. IInv /\ GapInv /\ [Next]_vars => GapInv'
  BY NextKeepsGap, StutterKeepsGap
<1>3. GapInv => NoticesServed
  BY DEF GapInv
<1> QED
  BY <1>1, <1>2, <1>3, PositionsAgree, PTL DEF Spec
=============================================================================
