-------------------------- MODULE ConnectionProofs --------------------------
(***************************************************************************)
(* Proofs about the connection, for every set of requests, any number of   *)
(* readers, losses and failed attempts.                                    *)
(***************************************************************************)
EXTENDS Connection, TLAPS

-----------------------------------------------------------------------------
(* The places of a task and the queue of the lock, as functions of what the *)
(* actions change.                                                         *)

ReaderPlaces == Ended \cup Connecting \cup {"starting", "reading", "backoff", "nap"}
PingPlaces == Ended \cup Connecting \cup {"sleep", "waiting"}
CallPlaces == Ended \cup Connecting \cup {"waiting"}
CloserPlaces == Ended \cup {"closePing", "closeReader", "failed"}

Fits(t, v) ==
    /\ t \in Readers => v \in ReaderPlaces
    /\ t \in Pings => v \in PingPlaces
    /\ t \in Calls => v \in CallPlaces
    /\ t = Closer => v \in CloserPlaces

Typed(p) == DOMAIN p = Tasks /\ \A t \in Tasks : Fits(t, p[t])

Queued(lock, t) == \E i \in 1 .. Len(lock) : lock[i] = t

\* Who is in ensure_auth_key is in the queue, once, and who is past the lock is
\* the first.
Queueing(p, lock) == \A t \in Tasks : p[t] \in Connecting <=> Queued(lock, t)
OnceEach(lock) ==
    \A i, j \in 1 .. Len(lock) : lock[i] = lock[j] => i = j
FirstConnects(p, lock) ==
    \A t \in Tasks : p[t] \in Connecting \ {"lock"} =>
        lock # << >> /\ Head(lock) = t

\* The keepalive of a reader that has not run yet has not run either.
StartsAlone(p) ==
    \A n \in Slots : p[Reader(n)] = "starting" => p[Ping(n)] \in Ended

Orderly(p, lock) ==
    /\ Typed(p)
    /\ lock \in Seq(Tasks)
    /\ Queueing(p, lock)
    /\ OnceEach(lock)
    /\ FirstConnects(p, lock)
    /\ StartsAlone(p)

\* The types of the other variables.
Rest ==
    /\ sock \in {"none", "open", "reset", "timeout"}
    /\ authReady \in BOOLEAN
    /\ stopEv \in BOOLEAN
    /\ readerTask \in 0 .. MaxReaders
    /\ pingTask \in 0 .. MaxReaders
    /\ local \in [Tasks -> [reader : 0 .. MaxReaders, ping : 0 .. MaxReaders]]
    /\ cancelled \subseteq Tasks
    /\ losses \in 0 .. MaxLosses
    /\ failures \in 0 .. MaxFailures

IInv == Orderly(pc, authLock) /\ Rest

-----------------------------------------------------------------------------
(* The names of tasks.                                                     *)

LEMMA Names ==
    /\ \A n \in Slots : /\ Reader(n) \in Readers /\ Reader(n) \in Tasks
                        /\ Ping(n) \in Pings /\ Ping(n) \in Tasks
    /\ \A c \in Callers : Call(c) \in Calls /\ Call(c) \in Tasks
    /\ Closer \in Tasks
BY DEF Readers, Pings, Calls, Tasks

LEMMA Distinct ==
    /\ \A m, n \in Slots : Reader(m) # Ping(n)
    /\ \A m, n \in Slots : Reader(m) = Reader(n) => m = n
    /\ \A m, n \in Slots : Ping(m) = Ping(n) => m = n
    /\ Readers \cap Pings = {} /\ Readers \cap Calls = {} /\ Pings \cap Calls = {}
    /\ Closer \notin Readers \cup Pings \cup Calls
BY DEF Reader, Ping, Call, Closer, Readers, Pings, Calls

LEMMA Kinds ==
    Tasks = Readers \cup Pings \cup Calls \cup {Closer}
BY DEF Tasks

LEMMA Strings ==
    /\ Ended \cap Connecting = {}
    /\ "lock" \in Connecting
    /\ \A v \in {"starting", "reading", "backoff", "nap", "sleep", "waiting",
                 "closePing", "closeReader", "failed"} : v \notin Connecting \cup Ended
BY DEF Ended, Connecting

-----------------------------------------------------------------------------
(* Changing the place of one task.                                         *)

LEMMA TypedMove ==
    ASSUME NEW p, Typed(p), NEW t \in Tasks, NEW v, Fits(t, v)
    PROVE  Typed([p EXCEPT ![t] = v])
BY DEF Typed

\* A reader starts when its keepalive has ended; a keepalive starts when its
\* reader runs.
StartFits(p, t, v) ==
    /\ \A n \in Slots : t = Reader(n) /\ v = "starting" => p[Ping(n)] \in Ended
    /\ \A n \in Slots : t = Ping(n) /\ p[t] \in Ended => p[Reader(n)] # "starting"

LEMMA StartsMove ==
    ASSUME NEW p, Typed(p), StartsAlone(p), NEW t \in Tasks, NEW v, StartFits(p, t, v)
    PROVE  StartsAlone([p EXCEPT ![t] = v])
<1> DEFINE q == [p EXCEPT ![t] = v]
<1>1. ASSUME NEW n \in Slots, q[Reader(n)] = "starting" PROVE q[Ping(n)] \in Ended
  <2>1. Reader(n) \in Tasks /\ Ping(n) \in Tasks /\ Reader(n) # Ping(n)
    BY Names, Distinct
  <2>2. \A u \in Tasks : q[u] = IF u = t THEN v ELSE p[u]
    BY DEF Typed
  <2> HIDE DEF q
  <2>3. CASE t = Reader(n)
    BY <1>1, <2>1, <2>2, <2>3 DEF StartFits
  <2>4. CASE t = Ping(n)
    <3>1. p[Reader(n)] = "starting"
      BY <1>1, <2>1, <2>2, <2>4
    <3> QED
      BY <2>4, <3>1 DEF StartFits, StartsAlone
  <2>5. CASE t # Reader(n) /\ t # Ping(n)
    BY <1>1, <2>1, <2>2, <2>5 DEF StartsAlone
  <2> QED
    BY <2>3, <2>4, <2>5
<1> QED
  BY <1>1 DEF StartsAlone

\* A task outside the lock stays outside.
LEMMA Outside ==
    ASSUME NEW p, NEW lock, Orderly(p, lock), NEW t \in Tasks, NEW v, Fits(t, v),
           StartFits(p, t, v), p[t] \notin Connecting, v \notin Connecting
    PROVE  Orderly([p EXCEPT ![t] = v], lock)
<1> DEFINE q == [p EXCEPT ![t] = v]
<1>1. Typed(q) /\ StartsAlone(q)
  BY TypedMove, StartsMove DEF Orderly
<1>2. \A u \in Tasks : q[u] = IF u = t THEN v ELSE p[u]
  BY DEF Orderly, Typed
<1> HIDE DEF q
<1>3. Queueing(q, lock)
  BY <1>2 DEF Orderly, Queueing
<1>4. FirstConnects(q, lock)
  BY <1>2 DEF Orderly, FirstConnects
<1>5. Orderly(q, lock)
  BY <1>1, <1>3, <1>4 DEF Orderly
<1> QED
  BY <1>5 DEF q

\* A task joins the queue; it goes on at once if it is the first.
LEMMA Joins ==
    ASSUME NEW p, NEW lock, Orderly(p, lock), NEW t \in Tasks, NEW v, Fits(t, v),
           StartFits(p, t, v), p[t] \notin Connecting, v \in Connecting,
           v = "lock" \/ lock = << >>
    PROVE  Orderly([p EXCEPT ![t] = v], Append(lock, t))
<1> DEFINE q == [p EXCEPT ![t] = v]
           longer == Append(lock, t)
<1>1. Typed(q) /\ StartsAlone(q)
  BY TypedMove, StartsMove DEF Orderly
<1>2. \A u \in Tasks : q[u] = IF u = t THEN v ELSE p[u]
  BY DEF Orderly, Typed
<1>3. lock \in Seq(Tasks) /\ Len(lock) \in Nat
  BY DEF Orderly
<1>4. /\ longer \in Seq(Tasks) /\ Len(longer) = Len(lock) + 1
      /\ longer[Len(lock) + 1] = t
      /\ \A i \in 1 .. Len(lock) : longer[i] = lock[i]
  BY <1>3
<1>5. longer # << >> /\ (lock # << >> => Head(longer) = Head(lock))
      /\ (lock = << >> => Head(longer) = t)
  <2>1. longer # << >> /\ Head(longer) = longer[1]
    <3> HIDE DEF longer
    <3> QED
      BY <1>3, <1>4
  <2>2. CASE lock = << >>
    BY <1>4, <2>1, <2>2
  <2>3. CASE lock # << >>
    <3>1. Head(lock) = lock[1] /\ 1 \in 1 .. Len(lock)
      BY <1>3, <2>3
    <3> QED
      BY <1>4, <2>1, <2>3, <3>1
  <2> QED
    BY <2>1, <2>2, <2>3
<1> HIDE DEF q, longer
<1>6. \A u \in Tasks : Queued(longer, u) <=> Queued(lock, u) \/ u = t
  BY <1>3, <1>4 DEF Queued
<1>7. Queueing(q, longer)
  BY <1>2, <1>6 DEF Orderly, Queueing
<1>8. OnceEach(longer)
  <2>1. \A i \in 1 .. Len(lock) : lock[i] # t
    BY DEF Orderly, Queueing, Queued
  <2>2. OnceEach(lock)
    BY DEF Orderly
  <2>3. ASSUME NEW i \in 1 .. Len(longer), NEW j \in 1 .. Len(longer),
               longer[i] = longer[j]
        PROVE  i = j
    <3>1. i \in 1 .. Len(lock) \/ i = Len(lock) + 1
      BY <1>3, <1>4
    <3>2. j \in 1 .. Len(lock) \/ j = Len(lock) + 1
      BY <1>3, <1>4
    <3> QED
      BY <1>4, <2>1, <2>2, <2>3, <3>1, <3>2 DEF OnceEach
  <2> QED
    BY <2>3 DEF OnceEach
<1>9. FirstConnects(q, longer)
  <2>1. ASSUME NEW u \in Tasks, q[u] \in Connecting \ {"lock"}
        PROVE  longer # << >> /\ Head(longer) = u
    <3>1. CASE u = t
      <4>1. lock = << >>
        BY <1>2, <2>1, <3>1
      <4> QED
        BY <1>5, <3>1, <4>1
    <3>2. CASE u # t
      <4>1. p[u] \in Connecting \ {"lock"}
        BY <1>2, <2>1, <3>2
      <4> QED
        BY <1>5, <4>1 DEF Orderly, FirstConnects
    <3> QED
      BY <3>1, <3>2
  <2> QED
    BY <2>1 DEF FirstConnects
<1>10. Orderly(q, longer)
  BY <1>1, <1>4, <1>7, <1>8, <1>9 DEF Orderly
<1> QED
  BY <1>10 DEF q, longer

\* The first goes on inside the lock.
LEMMA Advances ==
    ASSUME NEW p, NEW lock, Orderly(p, lock), NEW t \in Tasks, NEW v, Fits(t, v),
           p[t] \in Connecting, v \in Connecting, v = "lock" \/ (lock # << >> /\ Head(lock) = t)
    PROVE  Orderly([p EXCEPT ![t] = v], lock)
<1> DEFINE q == [p EXCEPT ![t] = v]
<1>1. StartFits(p, t, v)
  BY Strings DEF StartFits
<1>2. Typed(q) /\ StartsAlone(q)
  BY <1>1, TypedMove, StartsMove DEF Orderly
<1>3. \A u \in Tasks : q[u] = IF u = t THEN v ELSE p[u]
  BY DEF Orderly, Typed
<1> HIDE DEF q
<1>4. Queueing(q, lock)
  BY <1>3 DEF Orderly, Queueing
<1>5. FirstConnects(q, lock)
  BY <1>3 DEF Orderly, FirstConnects
<1>6. Orderly(q, lock)
  BY <1>2, <1>4, <1>5 DEF Orderly
<1> QED
  BY <1>6 DEF q

\* A task leaves the queue, which keeps its order otherwise.
LEMMA Leaves ==
    ASSUME NEW p, NEW lock, Orderly(p, lock), NEW t \in Tasks, NEW v, Fits(t, v),
           StartFits(p, t, v), v \notin Connecting,
           NEW rest, rest \in Seq(Tasks), OnceEach(rest),
           \A u \in Tasks : Queued(rest, u) <=> Queued(lock, u) /\ u # t,
           lock # << >> /\ Head(lock) # t => rest # << >> /\ Head(rest) = Head(lock)
    PROVE  Orderly([p EXCEPT ![t] = v], rest)
<1> DEFINE q == [p EXCEPT ![t] = v]
<1>1. Typed(q) /\ StartsAlone(q)
  BY TypedMove, StartsMove DEF Orderly
<1>2. \A u \in Tasks : q[u] = IF u = t THEN v ELSE p[u]
  BY DEF Orderly, Typed
<1> HIDE DEF q
<1>3. Queueing(q, rest)
  BY <1>2 DEF Orderly, Queueing
<1>4. FirstConnects(q, rest)
  BY <1>2 DEF Orderly, FirstConnects
<1>5. Orderly(q, rest)
  BY <1>1, <1>3, <1>4 DEF Orderly
<1> QED
  BY <1>5 DEF q

\* What is left when the first leaves.
LEMMA TailLeaves ==
    ASSUME NEW lock \in Seq(Tasks), OnceEach(lock), lock # << >>
    PROVE  /\ Tail(lock) \in Seq(Tasks) /\ OnceEach(Tail(lock))
           /\ \A u \in Tasks : Queued(Tail(lock), u) <=> Queued(lock, u) /\ u # Head(lock)
<1> DEFINE rest == Tail(lock)
<1>1. Len(lock) \in Nat /\ Len(lock) > 0 /\ Head(lock) = lock[1]
  OBVIOUS
<1>2. /\ rest \in Seq(Tasks) /\ Len(rest) = Len(lock) - 1
      /\ \A i \in 1 .. Len(rest) : rest[i] = lock[i + 1]
  OBVIOUS
<1> HIDE DEF rest
<1>3. OnceEach(rest)
  <2>1. ASSUME NEW i \in 1 .. Len(rest), NEW j \in 1 .. Len(rest), rest[i] = rest[j]
        PROVE  i = j
    <3>1. i + 1 \in 1 .. Len(lock) /\ j + 1 \in 1 .. Len(lock)
      BY <1>1, <1>2
    <3>2. lock[i + 1] = lock[j + 1]
      BY <1>2, <2>1
    <3>3. i + 1 = j + 1
      BY <3>1, <3>2 DEF OnceEach
    <3> QED
      BY <3>3
  <2> QED
    BY <2>1 DEF OnceEach
<1>4. ASSUME NEW u \in Tasks, Queued(rest, u) PROVE Queued(lock, u) /\ u # Head(lock)
  <2>1. PICK i \in 1 .. Len(rest) : rest[i] = u
    BY <1>4 DEF Queued
  <2>2. i + 1 \in 1 .. Len(lock) /\ 1 \in 1 .. Len(lock) /\ lock[i + 1] = u /\ i + 1 # 1
    BY <1>1, <1>2, <2>1
  <2> QED
    BY <1>1, <2>2 DEF Queued, OnceEach
<1>5. ASSUME NEW u \in Tasks, Queued(lock, u), u # Head(lock) PROVE Queued(rest, u)
  <2>1. PICK i \in 1 .. Len(lock) : lock[i] = u
    BY <1>5 DEF Queued
  <2>2. i - 1 \in 1 .. Len(rest) /\ rest[i - 1] = u
    BY <1>1, <1>2, <1>5, <2>1
  <2> QED
    BY <2>2 DEF Queued
<1>6. \A u \in Tasks : Queued(rest, u) <=> Queued(lock, u) /\ u # Head(lock)
  BY <1>4, <1>5
<1> QED
  BY <1>2, <1>3, <1>6 DEF rest

\* The first releases the lock.
LEMMA Releases ==
    ASSUME NEW p, NEW lock, Orderly(p, lock), NEW t \in Tasks, NEW v, Fits(t, v),
           StartFits(p, t, v), v \notin Connecting, lock # << >>, Head(lock) = t
    PROVE  Orderly([p EXCEPT ![t] = v], Tail(lock))
<1> DEFINE rest == Tail(lock)
<1>1. /\ rest \in Seq(Tasks) /\ OnceEach(rest)
      /\ \A u \in Tasks : Queued(rest, u) <=> Queued(lock, u) /\ u # t
  BY TailLeaves DEF Orderly
<1> HIDE DEF rest
<1>2. lock # << >> /\ Head(lock) # t => rest # << >> /\ Head(rest) = Head(lock)
  OBVIOUS
<1>3. Orderly([p EXCEPT ![t] = v], rest)
  BY <1>1, <1>2, Leaves
<1> QED
  BY <1>3 DEF rest

\* What is left when a task that is cancelled leaves, wherever it is.
LEMMA WithoutLeaves ==
    ASSUME authLock \in Seq(Tasks), OnceEach(authLock), NEW t \in Tasks
    PROVE  /\ Without(t) \in Seq(Tasks) /\ OnceEach(Without(t))
           /\ \A u \in Tasks : Queued(Without(t), u) <=> Queued(authLock, u) /\ u # t
           /\ (authLock # << >> /\ Head(authLock) # t
                 => Without(t) # << >> /\ Head(Without(t)) = Head(authLock))
<1>1. Len(authLock) \in Nat /\ DOMAIN authLock = 1 .. Len(authLock)
  OBVIOUS
<1>2. CASE Places(t) = {}
  <2>1. Without(t) = authLock /\ ~ Queued(authLock, t)
    BY <1>1, <1>2 DEF Without, Places, Queued
  <2> QED
    BY <2>1
<1>3. CASE Places(t) # {}
  <2> DEFINE i == CHOOSE i \in Places(t) : TRUE
             n == Len(authLock) - 1
             rest == [j \in 1 .. n |-> authLock[IF j < i THEN j ELSE j + 1]]
  <2>1. i \in 1 .. Len(authLock) /\ authLock[i] = t
    BY <1>1, <1>3 DEF Places
  <2>2. Without(t) = rest
    BY <1>3 DEF Without
  <2> HIDE DEF i
  <2>3. n \in Nat /\ Len(authLock) = n + 1
    BY <1>1, <2>1
  <2> HIDE DEF n
  <2>4. ASSUME NEW j \in 1 .. n
        PROVE  (IF j < i THEN j ELSE j + 1) \in 1 .. Len(authLock)
    BY <2>1, <2>3
  <2>5. rest \in Seq(Tasks) /\ Len(rest) = n
    <3>1. \A j \in 1 .. n : rest[j] \in Tasks
      BY <1>1, <2>4
    <3>2. rest \in [1 .. n -> Tasks]
      BY <3>1
    <3> QED
      BY <2>3, <3>2
  <2>6. \A j \in 1 .. n : rest[j] = authLock[IF j < i THEN j ELSE j + 1]
    OBVIOUS
  <2> HIDE DEF rest
  <2>7. OnceEach(rest)
    <3>1. ASSUME NEW j \in 1 .. Len(rest), NEW k \in 1 .. Len(rest), rest[j] = rest[k]
          PROVE  j = k
      <4>1. j \in 1 .. n /\ k \in 1 .. n
        BY <2>5
      <4>2. (IF j < i THEN j ELSE j + 1) = (IF k < i THEN k ELSE k + 1)
        BY <2>4, <2>6, <3>1, <4>1 DEF OnceEach
      <4> QED
        BY <2>1, <2>3, <4>1, <4>2
    <3> QED
      BY <3>1 DEF OnceEach
  <2>8. ASSUME NEW u \in Tasks, Queued(rest, u) PROVE Queued(authLock, u) /\ u # t
    <3>1. PICK j \in 1 .. n : rest[j] = u
      BY <2>5, <2>8 DEF Queued
    <3> DEFINE k == IF j < i THEN j ELSE j + 1
    <3>2. k \in 1 .. Len(authLock) /\ authLock[k] = u
      BY <2>4, <2>6, <3>1
    <3>3. k # i
      BY <2>1, <2>3, <3>1
    <3> HIDE DEF k
    <3> QED
      BY <2>1, <3>2, <3>3 DEF Queued, OnceEach
  <2>9. ASSUME NEW u \in Tasks, Queued(authLock, u), u # t PROVE Queued(rest, u)
    <3>1. PICK k \in 1 .. Len(authLock) : authLock[k] = u
      BY <2>9 DEF Queued
    <3>2. k # i
      BY <2>1, <2>9, <3>1
    <3>3. CASE k < i
      <4>1. k \in 1 .. n /\ rest[k] = u
        BY <2>1, <2>3, <2>6, <3>1, <3>3
      <4> QED
        BY <2>5, <4>1 DEF Queued
    <3>4. CASE k > i
      <4>1. k - 1 \in 1 .. n /\ ~ (k - 1 < i) /\ (k - 1) + 1 = k
        BY <2>1, <2>3, <3>1, <3>4
      <4>2. rest[k - 1] = u
        BY <2>6, <3>1, <4>1
      <4> QED
        BY <2>5, <4>1, <4>2 DEF Queued
    <3> QED
      BY <2>1, <3>1, <3>2, <3>3, <3>4
  <2>10. ASSUME authLock # << >>, Head(authLock) # t
         PROVE  rest # << >> /\ Head(rest) = Head(authLock)
    <3>1. Head(authLock) = authLock[1]
      BY <2>10
    <3>2. i # 1
      BY <2>1, <2>10, <3>1
    <3>3. 1 < i /\ 1 \in 1 .. n
      BY <2>1, <2>3, <3>2
    <3>4. rest[1] = authLock[1]
      BY <2>6, <3>3
    <3>5. rest # << >>
      BY <2>5, <3>3
    <3>6. Head(rest) = rest[1]
      BY <2>5, <3>5
    <3> QED
      BY <3>1, <3>4, <3>5, <3>6
  <2>11. \A u \in Tasks : Queued(rest, u) <=> Queued(authLock, u) /\ u # t
    BY <2>8, <2>9
  <2> QED
    BY <2>2, <2>5, <2>7, <2>10, <2>11
<1> QED
  BY <1>2, <1>3
-----------------------------------------------------------------------------
(* The pieces of the actions.                                              *)

\* A reader is started in a slot in which nothing runs.
LEMMA SpawnKeeps ==
    ASSUME NEW p, NEW lock, Orderly(p, lock), NEW rt \in 0 .. MaxReaders, Room(p, rt)
    PROVE  /\ Orderly(Spawned(p, rt), lock)
           /\ ReaderFor(p, rt) \in 0 .. MaxReaders
           /\ \A t \in Tasks : p[t] \notin Ended \/ t \notin Readers
                                 => Spawned(p, rt)[t] = p[t]
<1>1. CASE ~ NeedsReader(p, rt)
  BY <1>1 DEF Spawned, ReaderFor
<1>2. CASE NeedsReader(p, rt)
  <2> DEFINE n == FreeSlot(p)
  <2>1. n \in Slots /\ Free(p, n)
    BY <1>2 DEF Room, FreeSlot
  <2>2. Spawned(p, rt) = [p EXCEPT ![Reader(n)] = "starting"] /\ ReaderFor(p, rt) = n
    BY <1>2 DEF Spawned, ReaderFor
  <2> HIDE DEF n
  <2>3. Reader(n) \in Tasks /\ Reader(n) \in Readers /\ Ping(n) \in Tasks
    BY <2>1, Names
  <2>4. p[Reader(n)] \in Ended /\ p[Ping(n)] \in Ended
    BY <2>1, <2>3 DEF Free, Alive
  <2>5. Fits(Reader(n), "starting")
    BY <2>3, Distinct DEF Fits, ReaderPlaces
  <2>6. StartFits(p, Reader(n), "starting")
    BY <2>1, <2>4, Distinct DEF StartFits
  <2>7. p[Reader(n)] \notin Connecting /\ "starting" \notin Connecting
    BY <2>4, Strings
  <2>8. Orderly(Spawned(p, rt), lock)
    <3>1. Orderly([p EXCEPT ![Reader(n)] = "starting"], lock)
      BY <2>3, <2>5, <2>6, <2>7, Outside
    <3> QED
      BY <2>2, <3>1
  <2>9. n \in 0 .. MaxReaders
    BY <2>1, ConnectionAssumption DEF Slots
  <2>10. \A t \in Tasks : t # Reader(n) => Spawned(p, rt)[t] = p[t]
    BY <2>2 DEF Orderly, Typed
  <2> QED
    BY <2>2, <2>3, <2>4, <2>8, <2>9, <2>10
<1> QED
  BY <1>1, <1>2

LEMMA FitsConnecting ==
    ASSUME NEW t \in Tasks \ {Closer}, NEW v \in Connecting PROVE Fits(t, v)
BY DEF Fits, ReaderPlaces, PingPlaces, CallPlaces

LEMMA FitsAfter ==
    /\ \A t \in Readers : Fits(t, AfterConnect)
    /\ \A t \in Pings \cup Calls : Fits(t, AfterRequest(t)) /\ Fits(t, "waiting")
    /\ \A t \in Tasks : t # Closer => Fits(t, "done")
    /\ AfterConnect \in {"done", "backoff", "reading"}
    /\ \A t \in Tasks : AfterRequest(t) \in {"sleep", "done"}
<1>1. AfterConnect \in {"done", "backoff", "reading"}
  BY DEF AfterConnect
<1>2. \A t \in Tasks : AfterRequest(t) \in {"sleep", "done"}
                       /\ (t \notin Pings => AfterRequest(t) = "done")
  BY DEF AfterRequest
<1>3. Readers \cup Pings \cup Calls \subseteq Tasks
  BY Kinds
<1> QED
  BY <1>1, <1>2, <1>3, Distinct
     DEF Fits, ReaderPlaces, PingPlaces, CallPlaces, Ended, Connecting

\* The places outside of ensure_auth_key that an action goes to.
LEMMA Apart ==
    /\ {"done", "backoff", "reading", "nap", "starting", "sleep", "waiting",
        "closePing", "closeReader", "failed"} \cap Connecting = {}
    /\ "starting" \notin {"done", "backoff", "reading", "nap", "sleep", "waiting"} \cup Connecting
    /\ Ended \cap (Connecting \cup {"sleep", "waiting", "reading", "backoff", "nap",
                                    "starting"}) = {}
BY DEF Ended, Connecting

\* A task that has not ended, or is no keepalive, and does not become a reader
\* that starts.
LEMMA StartFitsPlain ==
    ASSUME NEW p, NEW t \in Tasks, NEW v, v # "starting", p[t] \notin Ended \/ t \notin Pings
    PROVE  StartFits(p, t, v)
BY Names DEF StartFits

LEMMA PauseTypes ==
    ASSUME Rest, NEW t \in Tasks, NEW p, NEW rt \in 0 .. MaxReaders, PauseReader(t, p, rt)
    PROVE  /\ \E v \in Connecting \ {"lock"} : pc' = [p EXCEPT ![t] = v]
           /\ readerTask' \in 0 .. MaxReaders
           /\ local' \in [Tasks -> [reader : 0 .. MaxReaders, ping : 0 .. MaxReaders]]
           /\ cancelled' \subseteq Tasks
<1>1. {"stuck", "pausePing", "pauseReader", "boot"} \subseteq Connecting \ {"lock"}
  BY DEF Connecting
<1>2. 0 \in 0 .. MaxReaders
  BY ConnectionAssumption
<1>3. CASE NothingToPause(t, p, rt)
  BY <1>1, <1>3 DEF NothingToPause, Rest
<1>4. ASSUME ToPause(t, p, rt)
      PROVE  /\ readerTask' \in 0 .. MaxReaders
             /\ local' \in [Tasks -> [reader : 0 .. MaxReaders, ping : 0 .. MaxReaders]]
  <2>1. readerTask' = 0 /\ local' = [local EXCEPT ![t] = [reader |-> rt, ping |-> pingTask]]
    BY <1>4 DEF ToPause
  <2>2. [reader |-> rt, ping |-> pingTask] \in [reader : 0 .. MaxReaders, ping : 0 .. MaxReaders]
    BY DEF Rest
  <2> QED
    BY <1>2, <2>1, <2>2 DEF Rest
<1>5. CASE PauseReaderOnly(t, p, rt)
  <2>1. Reader(rt) \in Tasks
    <3>1. rt \in Slots
      BY <1>5, ConnectionAssumption DEF PauseReaderOnly, ToPause, Pausable, Slots
    <3> QED
      BY <3>1, Names
  <2> QED
    BY <1>1, <1>4, <1>5, <2>1 DEF PauseReaderOnly, Rest
<1>6. CASE PausePing(t, p, rt)
  <2>1. cancelled' \subseteq Tasks
    BY <1>6 DEF PausePing, Rest, Alive
  <2>2. \E v \in {"stuck", "pausePing"} : pc' = [p EXCEPT ![t] = v]
    BY <1>6 DEF PausePing
  <2> QED
    BY <1>1, <1>4, <1>6, <2>1, <2>2 DEF PausePing
<1> QED
  BY <1>3, <1>5, <1>6 DEF PauseReader

\* The slow path.
LEMMA EnterKeeps ==
    ASSUME Rest, NEW p, Orderly(p, authLock), NEW t \in Tasks \ {Closer},
           p[t] \notin Connecting, p[t] \notin Ended \/ t \notin Pings,
           NEW rt \in 0 .. MaxReaders, EnterLock(t, p, rt)
    PROVE  /\ Orderly(pc', authLock')
           /\ readerTask' \in 0 .. MaxReaders
           /\ local' \in [Tasks -> [reader : 0 .. MaxReaders, ping : 0 .. MaxReaders]]
           /\ cancelled' \subseteq Tasks
<1>1. \A v \in Connecting : Fits(t, v) /\ StartFits(p, t, v)
  BY FitsConnecting, StartFitsPlain, Apart
<1>2. authLock' = Append(authLock, t)
  BY DEF EnterLock
<1>3. CASE authLock = << >>
  <2>1. PauseReader(t, p, rt)
    BY <1>3 DEF EnterLock
  <2>2. PICK v \in Connecting \ {"lock"} : pc' = [p EXCEPT ![t] = v]
    BY <2>1, PauseTypes
  <2>3. Orderly([p EXCEPT ![t] = v], Append(authLock, t))
    BY <1>1, <1>3, Joins
  <2> QED
    BY <1>2, <2>1, <2>2, <2>3, PauseTypes
<1>4. CASE authLock # << >>
  <2>1. pc' = [p EXCEPT ![t] = "lock"] /\ readerTask' = rt /\ UNCHANGED <<local, cancelled>>
    BY <1>4 DEF EnterLock
  <2>2. Orderly([p EXCEPT ![t] = "lock"], Append(authLock, t))
    BY <1>1, Strings, Joins
  <2> QED
    BY <1>2, <2>1, <2>2 DEF Rest
<1> QED
  BY <1>3, <1>4

LEMMA RequestKeeps ==
    ASSUME IInv, NEW t \in Pings \cup Calls, pc[t] = "sleep" \/ (t \in Calls /\ pc[t] = "none"),
           Request(t)
    PROVE  IInv'
<1> DEFINE p == Spawned(pc, readerTask)
           rt == ReaderFor(pc, readerTask)
<1>1. /\ Room(pc, readerTask)
      /\ stopEv' = StopAfter(pc, readerTask)
      /\ UNCHANGED <<sock, authReady, pingTask, losses, failures>>
      /\ \/ /\ authReady
            /\ Write(t, p)
            /\ readerTask' = rt
            /\ UNCHANGED <<authLock, local, cancelled>>
         \/ /\ ~ authReady
            /\ EnterLock(t, p, rt)
  BY DEF Request, faultVars
<1>2. t \in Tasks \ {Closer} /\ t \notin Readers
  BY Kinds, Distinct
<1>3. Orderly(p, authLock) /\ rt \in 0 .. MaxReaders /\ p[t] = pc[t]
  BY <1>1, <1>2, SpawnKeeps DEF IInv, Rest
<1>4. p[t] \notin Connecting /\ (p[t] \notin Ended \/ t \notin Pings)
  BY <1>3, Apart, Distinct DEF Connecting, Ended
<1>5. stopEv' \in BOOLEAN
  BY <1>1 DEF StopAfter, IInv, Rest
<1> HIDE DEF p, rt
<1>6. CASE /\ Write(t, p)
           /\ readerTask' = rt
           /\ UNCHANGED <<authLock, local, cancelled>>
  <2>1. PICK v \in {"sleep", "done", "waiting"} : pc' = [p EXCEPT ![t] = v] /\ Fits(t, v)
    <3>1. AfterRequest(t) \in {"sleep", "done"} /\ Fits(t, AfterRequest(t)) /\ Fits(t, "waiting")
      BY <1>2, FitsAfter
    <3> QED
      BY <1>6, <3>1 DEF Write
  <2>2. StartFits(p, t, v) /\ v \notin Connecting
    BY <1>2, <1>4, StartFitsPlain, Apart
  <2>3. Orderly(pc', authLock')
    BY <1>2, <1>3, <1>4, <1>6, <2>1, <2>2, Outside
  <2>4. Rest'
    BY <1>1, <1>3, <1>5, <1>6 DEF IInv, Rest
  <2> QED
    BY <2>3, <2>4 DEF IInv
<1>7. CASE EnterLock(t, p, rt)
  <2>1. /\ Orderly(pc', authLock')
        /\ readerTask' \in 0 .. MaxReaders
        /\ local' \in [Tasks -> [reader : 0 .. MaxReaders, ping : 0 .. MaxReaders]]
        /\ cancelled' \subseteq Tasks
    BY <1>2, <1>3, <1>4, <1>7, EnterKeeps DEF IInv
  <2>2. Rest'
    BY <1>1, <1>5, <2>1 DEF IInv, Rest
  <2> QED
    BY <2>1, <2>2 DEF IInv
<1> QED
  BY <1>1, <1>6, <1>7

\* The finally block, after the task has left the lock.
LEMMA ResumeKeeps ==
    ASSUME Rest, NEW t \in Tasks, NEW q, NEW lock, Orderly(q, lock), Resume(t, q)
    PROVE  /\ Orderly(pc', lock)
           /\ readerTask' \in 0 .. MaxReaders
           /\ stopEv' \in BOOLEAN
<1>1. readerTask \in 0 .. MaxReaders /\ stopEv \in BOOLEAN
  BY DEF Rest
<1>2. CASE local[t].reader = 0
  BY <1>1, <1>2 DEF Resume
<1>3. CASE local[t].reader # 0
  <2>1. /\ Room(q, readerTask)
        /\ stopEv' = StopAfter(pc, readerTask)
        /\ readerTask' = ReaderFor(q, readerTask)
        /\ pc' = Spawned(q, readerTask)
    BY <1>3 DEF Resume
  <2>2. StopAfter(pc, readerTask) \in BOOLEAN
    BY <1>1 DEF StopAfter
  <2> QED
    BY <1>1, <2>1, <2>2, SpawnKeeps
<1> QED
  BY <1>2, <1>3

LEMMA ForgetTypes ==
    ASSUME Rest, NEW t \in Tasks, Forget(t)
    PROVE  local' \in [Tasks -> [reader : 0 .. MaxReaders, ping : 0 .. MaxReaders]]
<1>1. Nobody \in [reader : 0 .. MaxReaders, ping : 0 .. MaxReaders]
  BY ConnectionAssumption DEF Nobody
<1> QED
  BY <1>1 DEF Rest, Forget

-----------------------------------------------------------------------------
(* The actions.                                                            *)

LEMMA LockGrantedKeeps ==
    ASSUME IInv, NEW t \in Tasks \ {Closer}, LockGranted(t) PROVE IInv'
<1>1. /\ pc[t] = "lock" /\ Head(authLock) = t
      /\ UNCHANGED <<sock, authReady, stopEv, pingTask, losses, failures>>
  BY DEF LockGranted, Granted, faultVars
<1>2. authLock # << >>
  <2>1. Queued(authLock, t) /\ authLock \in Seq(Tasks)
    BY <1>1, Strings DEF IInv, Orderly, Queueing
  <2> QED
    BY <2>1 DEF Queued
<1>3. pc[t] \in Connecting /\ pc[t] \notin Ended
  BY <1>1, Strings
<1>4. CASE /\ authReady
           /\ authLock' = Tail(authLock)
           /\ (IF t \in Readers THEN pc' = [pc EXCEPT ![t] = AfterConnect] ELSE Write(t, pc))
           /\ UNCHANGED <<readerTask, local, cancelled>>
  <2>1. PICK v \in {"done", "backoff", "reading", "sleep", "waiting"} :
            pc' = [pc EXCEPT ![t] = v] /\ Fits(t, v)
    <3>1. CASE t \in Readers
      BY <1>4, <3>1, FitsAfter
    <3>2. CASE t \notin Readers
      <4>1. t \in Pings \cup Calls
        BY <3>2, Kinds
      <4>2. pc' = [pc EXCEPT ![t] = IF sock' = "none" THEN AfterRequest(t) ELSE "waiting"]
        BY <1>4, <3>2 DEF Write
      <4>3. AfterRequest(t) \in {"sleep", "done"} /\ Fits(t, AfterRequest(t)) /\ Fits(t, "waiting")
        BY <4>1, FitsAfter
      <4> QED
        BY <4>2, <4>3
    <3> QED
      BY <3>1, <3>2
  <2>2. StartFits(pc, t, v) /\ v \notin Connecting
    BY <1>3, StartFitsPlain, Apart
  <2>3. Orderly(pc', authLock')
    BY <1>1, <1>2, <1>4, <2>1, <2>2, Releases DEF IInv
  <2>4. Rest'
    BY <1>1, <1>4 DEF IInv, Rest
  <2> QED
    BY <2>3, <2>4 DEF IInv
<1>5. CASE authLock' = authLock /\ PauseReader(t, pc, readerTask)
  <2>1. /\ readerTask' \in 0 .. MaxReaders
        /\ local' \in [Tasks -> [reader : 0 .. MaxReaders, ping : 0 .. MaxReaders]]
        /\ cancelled' \subseteq Tasks
    BY <1>5, PauseTypes DEF IInv, Rest
  <2>2. PICK v \in Connecting \ {"lock"} : pc' = [pc EXCEPT ![t] = v]
    BY <1>5, PauseTypes DEF IInv, Rest
  <2>3. Orderly(pc', authLock')
    BY <1>1, <1>2, <1>3, <1>5, <2>2, FitsConnecting, Advances DEF IInv
  <2>4. Rest'
    BY <1>1, <2>1 DEF IInv, Rest
  <2> QED
    BY <2>3, <2>4 DEF IInv
<1> QED
  BY <1>4, <1>5 DEF LockGranted

\* Who is past the lock has it.
LEMMA HasLock ==
    ASSUME IInv, NEW t \in Tasks, pc[t] \in {"pausePing", "pauseReader", "boot", "stuck"}
    PROVE  authLock # << >> /\ Head(authLock) = t /\ pc[t] \in Connecting /\ pc[t] \notin Ended
BY Strings DEF IInv, Orderly, FirstConnects, Connecting

LEMMA PauseStepKeeps ==
    ASSUME IInv, NEW t \in Tasks \ {Closer}, PingEnded(t) \/ ReaderEnded(t) PROVE IInv'
<1>1. pc[t] \in {"pausePing", "pauseReader"}
  BY DEF PingEnded, ReaderEnded
<1>2. authLock # << >> /\ Head(authLock) = t /\ pc[t] \in Connecting
  BY <1>1, HasLock
<1>3. PICK v \in {"pauseReader", "boot"} : pc' = [pc EXCEPT ![t] = v]
  BY DEF PingEnded, ReaderEnded
<1>4. authLock' = authLock /\ v \in Connecting
  BY DEF PingEnded, ReaderEnded, Connecting
<1>5. Orderly(pc', authLock')
  BY <1>2, <1>3, <1>4, FitsConnecting, Advances DEF IInv
<1>6. Rest'
  BY ConnectionAssumption DEF PingEnded, ReaderEnded, IInv, Rest, Alive, faultVars
<1> QED
  BY <1>5, <1>6 DEF IInv

\* Leaving boot, with or without a connection.
LEMMA BootEnds ==
    ASSUME IInv, NEW t \in Tasks \ {Closer}, pc[t] = "boot", NEW v, Fits(t, v),
           v \in {"done", "backoff", "reading", "sleep", "waiting"},
           Resume(t, [pc EXCEPT ![t] = v]), authLock' = Tail(authLock), Forget(t)
    PROVE  /\ Orderly(pc', authLock')
           /\ readerTask' \in 0 .. MaxReaders
           /\ stopEv' \in BOOLEAN
           /\ local' \in [Tasks -> [reader : 0 .. MaxReaders, ping : 0 .. MaxReaders]]
<1>1. authLock # << >> /\ Head(authLock) = t /\ pc[t] \notin Ended
  BY HasLock
<1>2. StartFits(pc, t, v) /\ v \notin Connecting
  BY <1>1, StartFitsPlain, Apart
<1> DEFINE q == [pc EXCEPT ![t] = v]
<1>3. Orderly(q, authLock')
  BY <1>1, <1>2, Releases DEF IInv
<1>4. Resume(t, q)
  OBVIOUS
<1> HIDE DEF q
<1> QED
  BY <1>3, <1>4, ResumeKeeps, ForgetTypes DEF IInv

LEMMA BootDoneKeeps ==
    ASSUME IInv, NEW t \in Tasks \ {Closer}, BootDone(t) PROVE IInv'
<1>1. /\ pc[t] = "boot" /\ authReady' = TRUE /\ authLock' = Tail(authLock) /\ Forget(t)
      /\ sock' \in {"none", "open", "reset", "timeout"}
      /\ UNCHANGED <<pingTask, cancelled, losses, failures>>
  BY DEF BootDone, faultVars, IInv, Rest
<1> DEFINE v == IF t \in Readers THEN AfterConnect ELSE "waiting"
<1>2. Resume(t, [pc EXCEPT ![t] = v])
  BY DEF BootDone
<1>3. Fits(t, v) /\ v \in {"done", "backoff", "reading", "sleep", "waiting"}
  BY Kinds, FitsAfter
<1> HIDE DEF v
<1>4. /\ Orderly(pc', authLock')
      /\ readerTask' \in 0 .. MaxReaders
      /\ stopEv' \in BOOLEAN
      /\ local' \in [Tasks -> [reader : 0 .. MaxReaders, ping : 0 .. MaxReaders]]
  BY <1>1, <1>2, <1>3, BootEnds
<1>5. Rest'
  BY <1>1, <1>4 DEF IInv, Rest
<1> QED
  BY <1>4, <1>5 DEF IInv

LEMMA BootFailsKeeps ==
    ASSUME IInv, NEW t \in Tasks \ {Closer}, BootFails(t) PROVE IInv'
<1>1. /\ pc[t] = "boot" /\ sock' = sock /\ authLock' = Tail(authLock) /\ Forget(t)
      /\ failures < MaxFailures /\ failures' = failures + 1
      /\ UNCHANGED <<authReady, pingTask, cancelled, losses>>
  BY DEF BootFails
<1> DEFINE v == IF t \in Readers THEN AfterConnect ELSE AfterRequest(t)
<1>2. Resume(t, [pc EXCEPT ![t] = v])
  BY DEF BootFails
<1>3. Fits(t, v) /\ v \in {"done", "backoff", "reading", "sleep", "waiting"}
  BY Kinds, FitsAfter
<1> HIDE DEF v
<1>4. /\ Orderly(pc', authLock')
      /\ readerTask' \in 0 .. MaxReaders
      /\ stopEv' \in BOOLEAN
      /\ local' \in [Tasks -> [reader : 0 .. MaxReaders, ping : 0 .. MaxReaders]]
  BY <1>1, <1>2, <1>3, BootEnds
<1>5. failures' \in 0 .. MaxFailures
  BY <1>1, ConnectionAssumption DEF IInv, Rest
<1>6. Rest'
  BY <1>1, <1>4, <1>5 DEF IInv, Rest
<1> QED
  BY <1>4, <1>6 DEF IInv

\* A task that is not in ensure_auth_key goes elsewhere outside of it.
LEMMA PlainKeeps ==
    ASSUME IInv, NEW t \in Tasks, pc[t] \notin Connecting, NEW v, v \notin Connecting,
           v # "starting", Fits(t, v), pc[t] \notin Ended \/ t \notin Pings,
           pc' = [pc EXCEPT ![t] = v], authLock' = authLock, Rest'
    PROVE  IInv'
<1>1. StartFits(pc, t, v)
  BY StartFitsPlain
<1> QED
  BY <1>1, Outside DEF IInv

LEMMA RequestReturnsKeeps ==
    ASSUME IInv, NEW t \in Tasks \ {Closer}, RequestReturns(t) PROVE IInv'
<1>1. pc[t] = "waiting" /\ pc' = [pc EXCEPT ![t] = AfterRequest(t)] /\ authLock' = authLock
  BY DEF RequestReturns
<1>2. t \in Pings \cup Calls
  <2>1. "waiting" \notin ReaderPlaces
    BY DEF ReaderPlaces, Ended, Connecting
  <2> QED
    BY <1>1, <2>1, Kinds DEF IInv, Orderly, Typed, Fits
<1>3. AfterRequest(t) \in {"sleep", "done"} /\ Fits(t, AfterRequest(t))
  BY <1>2, FitsAfter
<1>4. Rest'
  BY DEF RequestReturns, IInv, Rest, faultVars
<1> QED
  BY <1>1, <1>3, <1>4, Apart, PlainKeeps

LEMMA ReaderStartsKeeps ==
    ASSUME IInv, NEW n \in Slots, ReaderStarts(n) PROVE IInv'
<1> DEFINE r == Reader(n)
           g == Ping(n)
           v == IF stopEv THEN "done" ELSE "reading"
           w == IF stopEv THEN "done" ELSE "sleep"
           q == [pc EXCEPT ![r] = v]
<1>1. pc[r] = "starting" /\ pingTask' = n /\ authLock' = authLock
      /\ pc' = [pc EXCEPT ![r] = v, ![g] = w]
      /\ UNCHANGED <<sock, authReady, stopEv, readerTask, local, cancelled, losses, failures>>
  BY DEF ReaderStarts, faultVars
<1>2. r \in Tasks /\ r \in Readers /\ g \in Tasks /\ g \in Pings /\ r # g
      /\ r \notin Pings
  BY Names, Distinct
<1>3. pc[g] \in Ended
  BY <1>1 DEF IInv, Orderly, StartsAlone
<1>4. v \in {"done", "reading"} /\ w \in {"done", "sleep"}
  OBVIOUS
<1>5. pc' = [q EXCEPT ![g] = w]
  BY <1>1
<1> HIDE DEF v, w
<1>6. Orderly(q, authLock)
  <2>1. Fits(r, v)
    BY <1>2, <1>4, Distinct DEF Fits, ReaderPlaces, Ended
  <2>2. StartFits(pc, r, v)
    BY <1>2, <1>4, Apart, StartFitsPlain
  <2> HIDE DEF r
  <2> QED
    BY <1>1, <1>2, <1>4, <2>1, <2>2, Apart, Outside DEF IInv
<1>7. q[r] = v /\ q[g] = pc[g]
  BY <1>2 DEF IInv, Orderly, Typed
<1> HIDE DEF q
<1>8. Orderly(pc', authLock')
  <2>1. Fits(g, w)
    BY <1>2, <1>4, Distinct DEF Fits, PingPlaces, Ended
  <2>2. StartFits(q, g, w)
    BY <1>2, <1>4, <1>7, Distinct, Apart DEF StartFits
  <2>3. q[g] \notin Connecting /\ w \notin Connecting
    BY <1>3, <1>4, <1>7, Apart, Strings
  <2> HIDE DEF g
  <2>4. Orderly([q EXCEPT ![g] = w], authLock)
    BY <1>2, <1>6, <2>1, <2>2, <2>3, Outside
  <2> QED
    BY <1>1, <1>5, <2>4
<1>9. Rest'
  BY <1>1, ConnectionAssumption DEF IInv, Rest, Slots
<1> QED
  BY <1>8, <1>9 DEF IInv

LEMMA ReaderMovesKeeps ==
    ASSUME IInv, NEW n \in Slots, ReaderLosesPeer(n) \/ ReaderNaps(n) \/ NapOver(n)
    PROVE  IInv'
<1>1. PICK v \in {"done", "reading", "backoff", "nap"} : pc' = [pc EXCEPT ![Reader(n)] = v]
  BY DEF ReaderLosesPeer, ReaderNaps, NapOver
<1>2. pc[Reader(n)] \in {"reading", "nap"} /\ authLock' = authLock
  BY DEF ReaderLosesPeer, ReaderNaps, NapOver
<1>3. Reader(n) \in Tasks /\ Reader(n) \in Readers
  BY Names
<1>4. Fits(Reader(n), v)
  BY <1>3, Distinct DEF Fits, ReaderPlaces, Ended
<1>5. Rest'
  BY DEF ReaderLosesPeer, ReaderNaps, NapOver, IInv, Rest, faultVars
<1> QED
  BY <1>1, <1>2, <1>3, <1>4, <1>5, Apart, PlainKeeps

LEMMA ReaderReconnectsKeeps ==
    ASSUME IInv, NEW n \in Slots, ReaderReconnects(n) PROVE IInv'
<1> DEFINE r == Reader(n)
<1>1. pc[r] = "backoff" /\ UNCHANGED <<sock, stopEv, pingTask, losses, failures>>
  BY DEF ReaderReconnects, faultVars
<1>2. r \in Tasks /\ r \in Readers /\ r # Closer
  BY Names, Distinct
<1>3. pc[r] \notin Connecting /\ pc[r] \notin Ended
  BY <1>1, Apart
<1>4. CASE /\ pc' = [pc EXCEPT ![r] = "done"]
           /\ UNCHANGED <<authReady, readerTask, authLock, local, cancelled>>
  <2>1. Rest'
    BY <1>1, <1>4 DEF IInv, Rest
  <2> HIDE DEF r
  <2> QED
    BY <1>2, <1>3, <1>4, <2>1, FitsAfter, Apart, PlainKeeps
<1>5. CASE authReady' = FALSE /\ EnterLock(r, pc, readerTask)
  <2> HIDE DEF r
  <2>1. /\ Orderly(pc', authLock')
        /\ readerTask' \in 0 .. MaxReaders
        /\ local' \in [Tasks -> [reader : 0 .. MaxReaders, ping : 0 .. MaxReaders]]
        /\ cancelled' \subseteq Tasks
    BY <1>2, <1>3, <1>5, EnterKeeps DEF IInv, Rest
  <2>2. Rest'
    BY <1>1, <1>5, <2>1 DEF IInv, Rest
  <2> QED
    BY <2>1, <2>2 DEF IInv
<1> QED
  BY <1>4, <1>5 DEF ReaderReconnects

LEMMA PingFiresKeeps ==
    ASSUME IInv, NEW n \in Slots, PingFires(n) PROVE IInv'
<1>1. Ping(n) \in Tasks /\ Ping(n) \in Pings /\ Ping(n) # Closer /\ pc[Ping(n)] = "sleep"
  BY Names, Distinct DEF PingFires
<1>2. CASE Request(Ping(n))
  BY <1>1, <1>2, RequestKeeps
<1>3. CASE /\ pc' = [pc EXCEPT ![Ping(n)] = "done"]
           /\ UNCHANGED <<sock, authReady, stopEv, readerTask, pingTask,
                          authLock, local, cancelled, faultVars>>
  <2>1. Rest'
    BY <1>3 DEF IInv, Rest, faultVars
  <2> QED
    BY <1>1, <1>3, <2>1, FitsAfter, Apart, PlainKeeps
<1> QED
  BY <1>2, <1>3 DEF PingFires

LEMMA CallKeeps ==
    ASSUME IInv, NEW c \in Callers, CallStarts(c) \/ CancelCall(c) PROVE IInv'
<1>1. Call(c) \in Calls /\ Call(c) \in Tasks
  BY Names
<1>2. CASE CallStarts(c)
  BY <1>1, <1>2, RequestKeeps DEF CallStarts
<1>3. CASE CancelCall(c)
  BY <1>1, <1>3 DEF CancelCall, IInv, Rest, faultVars
<1> QED
  BY <1>2, <1>3

LEMMA UnwindKeeps ==
    ASSUME IInv, NEW t \in Tasks \ {Closer}, Unwind(t) PROVE IInv'
<1> DEFINE q == [pc EXCEPT ![t] = "done"]
<1>1. /\ pc[t] \notin Ended /\ authLock' = Without(t) /\ cancelled' = cancelled \ {t}
      /\ Forget(t) /\ UNCHANGED <<sock, authReady, pingTask, losses, failures>>
      /\ (Resume(t, q) \/ (pc' = q /\ UNCHANGED <<readerTask, stopEv>>))
  BY DEF Unwind, Alive, faultVars
<1>2. Orderly(q, authLock')
  <2> DEFINE rest == Without(t)
  <2>1. /\ rest \in Seq(Tasks) /\ OnceEach(rest)
        /\ \A u \in Tasks : Queued(rest, u) <=> Queued(authLock, u) /\ u # t
        /\ (authLock # << >> /\ Head(authLock) # t
              => rest # << >> /\ Head(rest) = Head(authLock))
    BY WithoutLeaves DEF IInv, Orderly
  <2> HIDE DEF rest
  <2>2. Fits(t, "done") /\ StartFits(pc, t, "done") /\ "done" \notin Connecting
    BY <1>1, FitsAfter, StartFitsPlain, Apart
  <2>3. Orderly(q, rest)
    BY <2>1, <2>2, Leaves DEF IInv
  <2> QED
    BY <1>1, <2>3 DEF rest
<1> HIDE DEF q
<1>3. Orderly(pc', authLock') /\ readerTask' \in 0 .. MaxReaders /\ stopEv' \in BOOLEAN
  <2>1. CASE Resume(t, q)
    BY <1>2, <2>1, ResumeKeeps DEF IInv
  <2>2. CASE pc' = q /\ UNCHANGED <<readerTask, stopEv>>
    BY <1>2, <2>2 DEF IInv, Rest
  <2> QED
    BY <1>1, <2>1, <2>2
<1>4. Rest'
  BY <1>1, <1>3, ForgetTypes DEF IInv, Rest
<1> QED
  BY <1>3, <1>4 DEF IInv

\* close, when its keepalive has ended.
LEMMA CloseReaderKeeps ==
    ASSUME IInv, NEW n \in 0 .. MaxReaders, CloseReader(n), authLock' = authLock,
           stopEv' \in BOOLEAN, pingTask' \in 0 .. MaxReaders, UNCHANGED faultVars
    PROVE  IInv'
<1>1. Closer \in Tasks /\ Closer \notin Pings /\ pc[Closer] \notin Connecting
  <2>1. CloserPlaces \cap Connecting = {}
    BY DEF CloserPlaces, Ended, Connecting
  <2> QED
    BY <2>1, Names, Distinct DEF IInv, Orderly, Typed, Fits
<1>2. \A v \in {"closeReader", "done"} : Fits(Closer, v)
  BY Distinct DEF Fits, CloserPlaces, Ended
<1>3. PICK v \in {"closeReader", "done"} : pc' = [pc EXCEPT ![Closer] = v]
  BY DEF CloseReader
<1>4. Rest'
  <2>1. CASE /\ Reader(n) \in Alive(pc)
             /\ cancelled' = cancelled \cup {Reader(n)}
             /\ local' = [local EXCEPT ![Closer] = [reader |-> n, ping |-> 0]]
             /\ UNCHANGED <<sock, authReady, readerTask>>
    <3>1. [reader |-> n, ping |-> 0] \in [reader : 0 .. MaxReaders, ping : 0 .. MaxReaders]
      BY ConnectionAssumption
    <3>2. local' \in [Tasks -> [reader : 0 .. MaxReaders, ping : 0 .. MaxReaders]]
      BY <2>1, <3>1 DEF IInv, Rest
    <3>3. cancelled' \subseteq Tasks
      BY <2>1 DEF IInv, Rest, Alive
    <3> QED
      BY <2>1, <3>2, <3>3 DEF IInv, Rest, faultVars
  <2>2. CASE /\ readerTask' = 0 /\ sock' = "none" /\ authReady' = FALSE
             /\ cancelled' = cancelled /\ Forget(Closer)
    <3>1. local' \in [Tasks -> [reader : 0 .. MaxReaders, ping : 0 .. MaxReaders]]
      BY <1>1, <2>2, ForgetTypes DEF IInv
    <3>2. 0 \in 0 .. MaxReaders
      BY ConnectionAssumption
    <3> QED
      BY <2>2, <3>1, <3>2 DEF IInv, Rest, faultVars
  <2> QED
    BY <2>1, <2>2 DEF CloseReader
<1> QED
  BY <1>1, <1>2, <1>3, <1>4, Apart, PlainKeeps

LEMMA CloseStartsKeeps == ASSUME IInv, CloseStarts PROVE IInv'
<1>1. pc[Closer] = "none" /\ stopEv' = TRUE /\ UNCHANGED <<pingTask, authLock, faultVars>>
  BY DEF CloseStarts
<1>2. readerTask \in 0 .. MaxReaders /\ pingTask \in 0 .. MaxReaders
  BY DEF IInv, Rest
<1>3. CASE CloseReader(readerTask)
  BY <1>1, <1>2, <1>3, CloseReaderKeeps
<1>4. Closer \in Tasks /\ Closer \notin Pings /\ pc[Closer] \notin Connecting
      /\ Fits(Closer, "closePing") /\ Fits(Closer, "failed")
  BY <1>1, Names, Distinct DEF Ended, Connecting, Fits, CloserPlaces
<1>5. CASE /\ cancelled' = cancelled \cup ({Ping(pingTask)} \cap Alive(pc))
           /\ local' = [local EXCEPT ![Closer] = [reader |-> readerTask, ping |-> pingTask]]
           /\ pc' = [pc EXCEPT ![Closer] = "closePing"]
           /\ UNCHANGED <<sock, authReady, readerTask>>
  <2>1. [reader |-> readerTask, ping |-> pingTask] \in [reader : 0 .. MaxReaders, ping : 0 .. MaxReaders]
    BY <1>2
  <2>2. local' \in [Tasks -> [reader : 0 .. MaxReaders, ping : 0 .. MaxReaders]]
    BY <1>5, <2>1 DEF IInv, Rest
  <2>3. cancelled' \subseteq Tasks
    BY <1>5 DEF IInv, Rest, Alive
  <2>4. Rest'
    BY <1>1, <1>5, <2>2, <2>3 DEF IInv, Rest, faultVars
  <2> QED
    BY <1>1, <1>4, <1>5, <2>4, Apart, PlainKeeps
<1>6. CASE /\ pc' = [pc EXCEPT ![Closer] = "failed"]
           /\ UNCHANGED <<sock, authReady, readerTask, local, cancelled>>
  <2>1. Rest'
    BY <1>1, <1>6 DEF IInv, Rest, faultVars
  <2> QED
    BY <1>1, <1>4, <1>6, <2>1, Apart, PlainKeeps
<1> QED
  BY <1>3, <1>5, <1>6 DEF CloseStarts

LEMMA CloseStepKeeps == ASSUME IInv, CloseStep PROVE IInv'
<1>1. 0 \in 0 .. MaxReaders /\ local[Closer].reader \in 0 .. MaxReaders
  BY ConnectionAssumption, Names DEF IInv, Rest
<1>2. stopEv \in BOOLEAN /\ pingTask \in 0 .. MaxReaders
  BY DEF IInv, Rest
<1>3. CASE ClosePingEnded
  BY <1>1, <1>2, <1>3, CloseReaderKeeps DEF ClosePingEnded
<1>4. CASE CloseReaderEnded
  BY <1>1, <1>2, <1>4, CloseReaderKeeps DEF CloseReaderEnded
<1> QED
  BY <1>3, <1>4 DEF CloseStep

LEMMA PeerLostKeeps ==
    ASSUME IInv, NEW kind \in LossKinds, PeerLost(kind) PROVE IInv'
<1>1. losses' \in 0 .. MaxLosses
  BY ConnectionAssumption DEF PeerLost, IInv, Rest
<1>2. sock' \in {"none", "open", "reset", "timeout"}
  BY ConnectionAssumption DEF PeerLost
<1> QED
  BY <1>1, <1>2 DEF PeerLost, IInv, Rest

-----------------------------------------------------------------------------
LEMMA InitConnection == Init => IInv
<1> SUFFICES ASSUME Init PROVE IInv
  OBVIOUS
<1>1. 1 \in Slots /\ 1 \in 0 .. MaxReaders /\ 0 \in 0 .. MaxReaders
  BY ConnectionAssumption DEF Slots
<1>2. Reader(1) \in Tasks /\ Ping(1) \in Tasks /\ Reader(1) # Ping(1)
      /\ Reader(1) \in Readers /\ Ping(1) \in Pings
  BY <1>1, Names, Distinct
<1>3. /\ DOMAIN pc = Tasks
      /\ \A t \in Tasks : pc[t] = IF t = Reader(1) THEN "reading"
                                  ELSE IF t = Ping(1) THEN "sleep" ELSE "none"
  BY <1>2 DEF Init
<1>4. \A t \in Tasks : Fits(t, "none")
  BY Distinct DEF Fits, ReaderPlaces, PingPlaces, CallPlaces, CloserPlaces, Ended
<1>5. Fits(Reader(1), "reading") /\ Fits(Ping(1), "sleep")
  BY <1>2, Distinct DEF Fits, ReaderPlaces, PingPlaces
<1>6. Typed(pc)
  BY <1>3, <1>4, <1>5 DEF Typed
<1>7. \A t \in Tasks : pc[t] \notin Connecting /\ pc[t] # "starting"
  BY <1>3 DEF Connecting
<1>8. authLock = << >> /\ authLock \in Seq(Tasks) /\ Len(authLock) = 0
  BY DEF Init
<1>9. Orderly(pc, authLock)
  <2>1. Queueing(pc, authLock) /\ OnceEach(authLock) /\ FirstConnects(pc, authLock)
    BY <1>7, <1>8 DEF Queueing, Queued, OnceEach, FirstConnects
  <2>2. StartsAlone(pc)
    BY <1>7, Names DEF StartsAlone
  <2> QED
    BY <1>6, <1>8, <2>1, <2>2 DEF Orderly
<1>10. Rest
  <2>1. Nobody \in [reader : 0 .. MaxReaders, ping : 0 .. MaxReaders]
    BY <1>1 DEF Nobody
  <2>2. local \in [Tasks -> [reader : 0 .. MaxReaders, ping : 0 .. MaxReaders]]
    BY <2>1 DEF Init
  <2>3. losses \in 0 .. MaxLosses /\ failures \in 0 .. MaxFailures
    BY ConnectionAssumption DEF Init
  <2> QED
    BY <1>1, <2>2, <2>3 DEF Init, Rest
<1> QED
  BY <1>9, <1>10 DEF IInv

LEMMA NextKeeps == IInv /\ [Next]_vars => IInv'
<1> SUFFICES ASSUME IInv, [Next]_vars PROVE IInv'
  OBVIOUS
<1>1. CASE UNCHANGED vars
  BY <1>1 DEF vars, IInv, Rest
<1>2. ASSUME NEW t \in Tasks \ {Closer}, Connect(t) \/ RequestReturns(t) \/ Unwind(t)
      PROVE  IInv'
  BY <1>2, LockGrantedKeeps, PauseStepKeeps, BootDoneKeeps, BootFailsKeeps,
     RequestReturnsKeeps, UnwindKeeps DEF Connect
<1>3. ASSUME NEW n \in Slots, ReaderStep(n) \/ PingFires(n) PROVE IInv'
  BY <1>3, ReaderStartsKeeps, ReaderMovesKeeps, ReaderReconnectsKeeps, PingFiresKeeps
     DEF ReaderStep
<1>4. ASSUME NEW c \in Callers, CallStarts(c) \/ CancelCall(c) PROVE IInv'
  BY <1>4, CallKeeps
<1>5. ASSUME NEW kind \in LossKinds, PeerLost(kind) PROVE IInv'
  BY <1>5, PeerLostKeeps
<1> QED
  BY <1>1, <1>2, <1>3, <1>4, <1>5, CloseStartsKeeps, CloseStepKeeps DEF Next

\* The inductive invariant: the tasks in ensure_auth_key are those in the queue
\* of its lock, each of them once, and only the first is past the lock; a reader
\* that has not run yet has no keepalive.
THEOREM LockIsOrderly == Spec => []IInv
BY InitConnection, NextKeeps, PTL DEF Spec

\* The state of Connection has its types in every reachable state.
THEOREM ConnectionTypeCorrect == Spec => []TypeOK
<1>1. IInv => TypeOK
  <2> SUFFICES ASSUME IInv PROVE TypeOK
    OBVIOUS
  <2>1. /\ \A t \in Readers : pc[t] \in ReaderPlaces
        /\ \A t \in Pings : pc[t] \in PingPlaces
        /\ \A t \in Calls : pc[t] \in CallPlaces
        /\ pc[Closer] \in CloserPlaces
        /\ DOMAIN pc = Tasks
    BY Kinds DEF IInv, Orderly, Typed, Fits
  <2> QED
    BY <2>1 DEF TypeOK, IInv, Orderly, Rest, ReaderPlaces, PingPlaces, CallPlaces,
                CloserPlaces
<1> QED
  BY <1>1, LockIsOrderly, PTL

\* For any number of requests, readers, losses, failures and cancellations: only
\* the task that holds the lock pauses the reader or opens a connection.
THEOREM OneTaskConnects == Spec => []OneConnects
<1>1. IInv => OneConnects
  BY DEF IInv, Orderly, FirstConnects, OneConnects
<1> QED
  BY <1>1, LockIsOrderly, PTL

-----------------------------------------------------------------------------
(* Who waits for whom.                                                     *)

Unused(n) == n # pingTask /\ \A t \in Tasks : n \notin {local[t].reader, local[t].ping}

\* A slot in which a reader has not run yet is one that no keepalive is known by
\* or awaited in.
SlotsUnmixed ==
    \A n \in Slots : pc[Reader(n)] = "starting" =>
        n # pingTask /\ \A t \in Tasks : n # local[t].ping

WaitInv == SlotsUnmixed /\ WaitsEnd

\* The places in which a task waits for the end of another.
AwaitsPing == {"pausePing", "closePing"}
AwaitsReader == {"pauseReader", "closeReader"}

\* A step moves one task, and may start a reader in a slot that nothing refers to.
Started(u) == pc'[u] = "starting" /\ \E n \in Slots : u = Reader(n) /\ Unused(n)

Moves(t) ==
    /\ pc[t] \notin Ended \/ t \notin Readers \cup Pings
    /\ \A u \in Tasks : pc'[u] = pc[u] \/ Started(u) \/ (u = t /\ pc'[u] # "starting")

\* It keeps what is awaited, or puts the task in a place where it waits for
\* nothing that runs.
Keeps(t) ==
    /\ \A u \in Tasks : u # t => local'[u] = local[u]
    /\ local'[t].ping \in {local[t].ping, pingTask, 0}
    /\ pc'[t] \in AwaitsPing => Ping(local'[t].ping) \notin Alive(pc') \ cancelled'
    /\ pc'[t] \in AwaitsReader => Reader(local'[t].reader) \notin Alive(pc') \ cancelled'
    /\ \A u \in cancelled : u \in cancelled' \/ pc'[u] \in Ended \/ Started(u)
    /\ pingTask' \in {pingTask, 0}

LEMMA NotInSlots == ~ (0 \in Slots) /\ Ping(0) \notin Tasks /\ Reader(0) \notin Tasks
<1>1. 0 \notin Slots
  BY ConnectionAssumption DEF Slots
<1> QED
  BY <1>1 DEF Tasks, Readers, Pings, Calls, Closer, Reader, Ping, Call

LEMMA StepKeepsWaits ==
    ASSUME IInv, IInv', WaitInv, NEW t \in Tasks, Moves(t), Keeps(t)
    PROVE  WaitInv'
<1>1. \A n \in Slots : Reader(n) \in Tasks /\ Ping(n) \in Tasks
  BY Names
<1>2. SlotsUnmixed'
  <2> SUFFICES ASSUME NEW n \in Slots, pc'[Reader(n)] = "starting"
               PROVE  n # pingTask' /\ \A u \in Tasks : n # local'[u].ping
    BY DEF SlotsUnmixed
  <2>1. n # 0
    BY NotInSlots
  <2>2. n # pingTask /\ \A u \in Tasks : n # local[u].ping
    <3>1. CASE pc[Reader(n)] = "starting"
      BY <3>1 DEF WaitInv, SlotsUnmixed
    <3>2. CASE pc[Reader(n)] # "starting"
      <4>1. Started(Reader(n))
        BY <1>1, <3>2 DEF Moves
      <4>2. Unused(n)
        BY <4>1, Distinct DEF Started
      <4> QED
        BY <4>2 DEF Unused
    <3> QED
      BY <3>1, <3>2
  <2> QED
    BY <2>1, <2>2 DEF Keeps
\* Who has ended, or is cancelled, and is awaited stays so.
<1>3. ASSUME NEW u \in Tasks, pc[u] \in AwaitsPing,
             Ping(local[u].ping) \notin Alive(pc) \ cancelled
      PROVE  Ping(local[u].ping) \notin Alive(pc') \ cancelled'
  <2> DEFINE m == local[u].ping
             g == Ping(m)
  <2>1. m \in Slots \/ m = 0
    BY DEF IInv, Rest, Slots
  <2>2. CASE m = 0
    BY <2>2, NotInSlots DEF Alive
  <2>3. CASE m \in Slots
    <3>1. g \in Tasks /\ g \in Pings
      BY <2>3, Names
    <3>2. CASE g \in cancelled
      <4>1. ~ Started(g)
        BY <2>3, Distinct DEF Started
      <4> QED
        BY <3>1, <3>2, <4>1 DEF Keeps, Alive
    <3>3. CASE pc[g] \in Ended
      <4>1. g # t /\ ~ Started(g)
        BY <2>3, <3>1, <3>3, Distinct DEF Moves, Started
      <4> HIDE DEF g
      <4>2. pc'[g] = pc[g]
        BY <3>1, <4>1 DEF Moves
      <4> QED
        BY <3>3, <4>2 DEF Alive, g
    <3> QED
      BY <1>3, <3>1, <3>2, <3>3 DEF Alive
  <2> QED
    BY <2>1, <2>2, <2>3
<1>4. ASSUME NEW u \in Tasks, pc[u] \in AwaitsReader,
             Reader(local[u].reader) \notin Alive(pc) \ cancelled
      PROVE  Reader(local[u].reader) \notin Alive(pc') \ cancelled'
  <2> DEFINE m == local[u].reader
             g == Reader(m)
  <2>1. m \in Slots \/ m = 0
    BY DEF IInv, Rest, Slots
  <2>2. CASE m = 0
    BY <2>2, NotInSlots DEF Alive
  <2>3. CASE m \in Slots
    <3>1. g \in Tasks /\ g \in Readers
      BY <2>3, Names
    <3>2. CASE g \in cancelled
      <4>1. ~ Started(g)
        BY <2>3, Distinct DEF Started, Unused
      <4> QED
        BY <3>1, <3>2, <4>1 DEF Keeps, Alive
    <3>3. CASE pc[g] \in Ended
      <4>1. g # t
        BY <3>1, <3>3 DEF Moves
      <4>2. ~ Started(g)
        BY <2>3, Distinct DEF Started, Unused
      <4> HIDE DEF g
      <4>3. pc'[g] = pc[g]
        BY <3>1, <4>1, <4>2 DEF Moves
      <4> QED
        BY <3>3, <4>3 DEF Alive, g
    <3> QED
      BY <1>4, <3>1, <3>2, <3>3 DEF Alive
  <2> QED
    BY <2>1, <2>2, <2>3
<1>5. ASSUME NEW u \in Tasks, u # t PROVE pc'[u] = pc[u] \/ pc'[u] = "starting"
  BY <1>5 DEF Moves, Started
<1>6. "starting" \notin AwaitsPing \cup AwaitsReader
  BY DEF AwaitsPing, AwaitsReader
<1>7. ASSUME NEW u \in Tasks
      PROVE  /\ pc'[u] \in AwaitsReader => Reader(local'[u].reader) \notin Alive(pc') \ cancelled'
             /\ pc'[u] \in AwaitsPing => Ping(local'[u].ping) \notin Alive(pc') \ cancelled'
  <2>1. CASE u = t
    BY <2>1 DEF Keeps
  <2>2. CASE u # t
    <3>1. local'[u] = local[u]
      BY <2>2 DEF Keeps
    <3>2. /\ pc[u] \in AwaitsReader => Reader(local[u].reader) \notin Alive(pc) \ cancelled
          /\ pc[u] \in AwaitsPing => Ping(local[u].ping) \notin Alive(pc) \ cancelled
      BY DEF WaitInv, WaitsEnd, Running, AwaitsReader, AwaitsPing
    <3> QED
      BY <1>3, <1>4, <1>5, <1>6, <2>2, <3>1, <3>2
  <2> QED
    BY <2>1, <2>2
<1>8. WaitsEnd'
  BY <1>7 DEF WaitsEnd, Running, AwaitsReader, AwaitsPing
<1> QED
  BY <1>2, <1>8 DEF WaitInv

-----------------------------------------------------------------------------
(* The actions move one task and keep what is awaited.                     *)

LEMMA SpawnStep ==
    ASSUME NEW p, NEW rt, Room(p, rt)
    PROVE  \/ ~ NeedsReader(p, rt) /\ Spawned(p, rt) = p /\ ReaderFor(p, rt) = rt
           \/ /\ NeedsReader(p, rt)
              /\ \E n \in Slots : /\ Free(p, n) /\ Unused(n) /\ ReaderFor(p, rt) = n
                                  /\ Spawned(p, rt) = [p EXCEPT ![Reader(n)] = "starting"]
<1>1. CASE ~ NeedsReader(p, rt)
  BY <1>1 DEF Spawned, ReaderFor
<1>2. CASE NeedsReader(p, rt)
  <2>1. FreeSlot(p) \in Slots /\ Free(p, FreeSlot(p))
    BY <1>2 DEF Room, FreeSlot
  <2>2. Unused(FreeSlot(p))
    BY <2>1 DEF Free, Unused
  <2> QED
    BY <1>2, <2>1, <2>2 DEF Spawned, ReaderFor
<1> QED
  BY <1>1, <1>2

\* What becomes of the places when a task moves and a reader is started, in
\* either order.
LEMMA OneMoves ==
    ASSUME IInv, NEW t \in Tasks, NEW v, v # "starting",
           pc[t] \notin Ended \/ t \notin Readers \cup Pings,
           NEW rt,
           \/ pc' = [pc EXCEPT ![t] = v]
           \/ Room([pc EXCEPT ![t] = v], rt) /\ pc' = Spawned([pc EXCEPT ![t] = v], rt)
           \/ Room(pc, rt) /\ pc' = [Spawned(pc, rt) EXCEPT ![t] = v]
    PROVE  /\ Moves(t)
           /\ pc'[t] = v \/ (pc'[t] = "starting" /\ Started(t))
           /\ \A u \in Tasks : u # t => pc'[u] = pc[u] \/ pc'[u] = "starting"
<1> DEFINE q == [pc EXCEPT ![t] = v]
<1>1. \A n \in Slots : Reader(n) \in Tasks
  BY Names
<1>2. DOMAIN pc = Tasks /\ \A u \in Tasks : q[u] = IF u = t THEN v ELSE pc[u]
  BY DEF IInv, Orderly, Typed
<1>3. CASE pc' = q
  BY <1>2, <1>3 DEF Moves
<1>4. CASE Room(q, rt) /\ pc' = Spawned(q, rt)
  <2>1. CASE pc' = q
    BY <1>3, <2>1
  <2>2. ASSUME NEW n \in Slots, Unused(n), pc' = [q EXCEPT ![Reader(n)] = "starting"]
        PROVE  /\ Moves(t)
               /\ pc'[t] = v \/ (pc'[t] = "starting" /\ Started(t))
               /\ \A u \in Tasks : u # t => pc'[u] = pc[u] \/ pc'[u] = "starting"
    <3> DEFINE r == Reader(n)
    <3>1. r \in Tasks
      BY <1>1
    <3>2. \A u \in Tasks : pc'[u] = IF u = r THEN "starting" ELSE IF u = t THEN v ELSE pc[u]
      BY <1>2, <2>2
    <3>3. Started(r)
      BY <2>2, <3>1, <3>2 DEF Started
    <3> HIDE DEF r
    <3> QED
      BY <3>1, <3>2, <3>3 DEF Moves
  <2> HIDE DEF q
  <2> QED
    BY <1>4, <2>1, <2>2, SpawnStep
<1>5. CASE Room(pc, rt) /\ pc' = [Spawned(pc, rt) EXCEPT ![t] = v]
  <2>1. CASE Spawned(pc, rt) = pc
    BY <1>3, <1>5, <2>1
  <2>2. ASSUME NEW n \in Slots, Unused(n), Spawned(pc, rt) = [pc EXCEPT ![Reader(n)] = "starting"]
        PROVE  /\ Moves(t)
               /\ pc'[t] = v \/ (pc'[t] = "starting" /\ Started(t))
               /\ \A u \in Tasks : u # t => pc'[u] = pc[u] \/ pc'[u] = "starting"
    <3> DEFINE r == Reader(n)
    <3>1. r \in Tasks
      BY <1>1
    <3>2. \A u \in Tasks : pc'[u] = IF u = t THEN v ELSE IF u = r THEN "starting" ELSE pc[u]
      BY <1>2, <1>5, <2>2
    <3>3. r # t => Started(r)
      BY <2>2, <3>1, <3>2 DEF Started
    <3> HIDE DEF r
    <3> QED
      BY <3>1, <3>2, <3>3 DEF Moves
  <2> QED
    BY <1>5, <2>1, <2>2, SpawnStep
<1> QED
  BY <1>3, <1>4, <1>5

\* Going where nothing is awaited, without cancelling anyone.
LEMMA PlainWaits ==
    ASSUME IInv, IInv', WaitInv, NEW t \in Tasks, Moves(t),
           pc'[t] \notin AwaitsPing \cup AwaitsReader,
           local' = local \/ Forget(t), cancelled \subseteq cancelled', pingTask' = pingTask
    PROVE  WaitInv'
<1>1. \A u \in Tasks : u # t => local'[u] = local[u]
  BY DEF Forget, IInv, Rest
<1>2. local'[t].ping \in {local[t].ping, 0}
  BY DEF Forget, Nobody, IInv, Rest
<1>3. Keeps(t)
  BY <1>1, <1>2 DEF Keeps
<1> QED
  BY <1>3, StepKeepsWaits

\* Pausing the reader, after which the keepalive or the reader is awaited.
LEMMA PauseWaits ==
    ASSUME IInv, IInv', WaitInv, NEW t \in Tasks \ {Closer}, NEW p, p = Spawned(pc, readerTask) \/ p = pc,
           NEW rt, Room(pc, readerTask) \/ p = pc,
           pc[t] \notin Ended \/ t \notin Readers \cup Pings,
           PauseReader(t, p, rt), pingTask' = pingTask
    PROVE  WaitInv'
<1>1. PICK v : v # "starting" /\ pc' = [p EXCEPT ![t] = v]
                /\ v \in {"boot", "pauseReader", "stuck", "pausePing"}
  BY DEF PauseReader, NothingToPause, PauseReaderOnly, PausePing
<1>2. Moves(t) /\ (pc'[t] = v \/ pc'[t] = "starting")
  BY <1>1, OneMoves
<1>3. CASE NothingToPause(t, p, rt)
  <2>1. pc'[t] \in {"boot", "starting"}
    BY <1>2, <1>3, OneMoves DEF NothingToPause
  <2> QED
    BY <1>2, <1>3, <2>1, PlainWaits DEF NothingToPause, AwaitsPing, AwaitsReader
<1>4. ASSUME ToPause(t, p, rt)
      PROVE  /\ \A u \in Tasks : u # t => local'[u] = local[u]
             /\ local'[t] = [reader |-> rt, ping |-> pingTask]
  BY <1>4 DEF ToPause, IInv, Rest
<1>5. CASE PauseReaderOnly(t, p, rt)
  <2>1. pc'[t] \in {"pauseReader", "starting"}
    BY <1>2, <1>5, OneMoves DEF PauseReaderOnly
  <2>2. Reader(rt) \in cancelled'
    BY <1>5 DEF PauseReaderOnly
  <2>3. Keeps(t)
    BY <1>4, <1>5, <2>1, <2>2 DEF PauseReaderOnly, Keeps, AwaitsPing, AwaitsReader
  <2> QED
    BY <1>2, <2>3, StepKeepsWaits
<1>6. CASE PausePing(t, p, rt)
  <2>1. CASE Ping(pingTask) = t
    <3>1. pc'[t] \in {"stuck", "starting"}
      <4>1. pc' = [p EXCEPT ![t] = "stuck"]
        BY <1>6, <2>1 DEF PausePing
      <4> QED
        BY <4>1, OneMoves
    <3>2. Keeps(t)
      BY <1>4, <1>6, <3>1 DEF PausePing, Keeps, AwaitsPing, AwaitsReader
    <3> QED
      BY <1>2, <3>2, StepKeepsWaits
  <2>2. CASE Ping(pingTask) # t
    <3>1. pc'[t] \in {"pausePing", "starting"}
      <4>1. pc' = [p EXCEPT ![t] = "pausePing"]
        BY <1>6, <2>2 DEF PausePing
      <4> QED
        BY <4>1, OneMoves
    <3>2. Ping(pingTask) \notin Alive(pc') \ cancelled'
      <4>0. pingTask \in Slots
        BY <1>6 DEF PausePing, IInv, Rest, Slots
      <4>1. CASE Ping(pingTask) \in Alive(pc)
        <5>1. Ping(pingTask) \in Alive(p)
          <6>1. DOMAIN pc = Tasks
            BY DEF IInv, Orderly, Typed
          <6>2. p[Ping(pingTask)] = pc[Ping(pingTask)]
            BY <4>0, <4>1, <6>1, SpawnStep, Names, Distinct
          <6> QED
            BY <4>1, <6>2 DEF Alive
        <5> QED
          BY <1>6, <5>1 DEF PausePing
      <4>2. CASE Ping(pingTask) \in Tasks /\ pc[Ping(pingTask)] \in Ended
        <5>1. pc'[Ping(pingTask)] = pc[Ping(pingTask)]
          <6>1. ~ Started(Ping(pingTask))
            BY <4>2, Distinct, NotInSlots DEF Started, IInv, Rest, Slots
          <6> QED
            BY <1>2, <2>2, <4>2, <6>1 DEF Moves
        <5> QED
          BY <4>2, <5>1 DEF Alive
      <4> QED
        BY <4>1, <4>2 DEF Alive
    <3>3. Keeps(t)
      BY <1>4, <1>6, <3>1, <3>2 DEF PausePing, Keeps, AwaitsPing, AwaitsReader
    <3> QED
      BY <1>2, <3>3, StepKeepsWaits
  <2> QED
    BY <2>1, <2>2
<1> QED
  BY <1>3, <1>5, <1>6 DEF PauseReader

LEMMA RequestWaits ==
    ASSUME IInv, IInv', WaitInv, NEW t \in Pings \cup Calls, Request(t),
           pc[t] \notin Ended \/ t \in Calls
    PROVE  WaitInv'
<1> DEFINE p == Spawned(pc, readerTask)
           rt == ReaderFor(pc, readerTask)
<1>1. Room(pc, readerTask) /\ pingTask' = pingTask
  BY DEF Request
<1>2. t \in Tasks \ {Closer} /\ (pc[t] \notin Ended \/ t \notin Readers \cup Pings)
  BY Kinds, Distinct
<1> HIDE DEF rt
<1>3. ASSUME NEW v \in {"sleep", "done", "waiting", "lock"}, pc' = [p EXCEPT ![t] = v],
             UNCHANGED <<local, cancelled>>
      PROVE  WaitInv'
  <2>1. Moves(t) /\ pc'[t] \in {v, "starting"}
    BY <1>1, <1>2, <1>3, OneMoves
  <2> QED
    BY <1>1, <1>2, <1>3, <2>1, PlainWaits DEF AwaitsPing, AwaitsReader
<1>4. CASE Write(t, p) /\ UNCHANGED <<local, cancelled>>
  <2>1. PICK v \in {"sleep", "done", "waiting"} : pc' = [p EXCEPT ![t] = v]
    BY <1>2, <1>4, FitsAfter DEF Write
  <2> QED
    BY <1>3, <1>4, <2>1
<1>5. CASE EnterLock(t, p, rt)
  <2>1. CASE authLock = << >>
    BY <1>1, <1>2, <1>5, <2>1, PauseWaits DEF EnterLock
  <2>2. CASE authLock # << >>
    BY <1>3, <1>5, <2>2 DEF EnterLock
  <2> QED
    BY <2>1, <2>2
<1> QED
  BY <1>4, <1>5 DEF Request, rt

LEMMA LockGrantedWaits ==
    ASSUME IInv, IInv', WaitInv, NEW t \in Tasks \ {Closer}, LockGranted(t)
    PROVE  WaitInv'
<1>1. pc[t] = "lock" /\ pc[t] \notin Ended /\ pingTask' = pingTask
  BY Strings DEF LockGranted, Granted
<1>2. CASE /\ (IF t \in Readers THEN pc' = [pc EXCEPT ![t] = AfterConnect] ELSE Write(t, pc))
           /\ UNCHANGED <<local, cancelled>>
  <2>1. PICK v \in {"done", "backoff", "reading", "sleep", "waiting"} : pc' = [pc EXCEPT ![t] = v]
    BY <1>2, FitsAfter DEF Write
  <2>2. Moves(t) /\ pc'[t] \in {v, "starting"}
    BY <1>1, <2>1, OneMoves
  <2> QED
    BY <1>1, <1>2, <2>2, PlainWaits DEF AwaitsPing, AwaitsReader
<1>3. CASE PauseReader(t, pc, readerTask)
  BY <1>1, <1>3, PauseWaits
<1> QED
  BY <1>2, <1>3 DEF LockGranted

LEMMA PauseStepWaits ==
    ASSUME IInv, IInv', WaitInv, NEW t \in Tasks \ {Closer}, PingEnded(t) \/ ReaderEnded(t)
    PROVE  WaitInv'
<1>1. pc[t] \notin Ended /\ local' = local
  BY DEF PingEnded, ReaderEnded, Ended
<1>2. CASE PingEnded(t)
  <2>1. pc' = [pc EXCEPT ![t] = "pauseReader"]
    BY <1>2 DEF PingEnded
  <2>2. Moves(t) /\ pc'[t] \in {"pauseReader", "starting"}
    BY <1>1, <2>1, OneMoves
  <2>3. Reader(local[t].reader) \notin Alive(pc') \ cancelled'
    <3> DEFINE r == Reader(local[t].reader)
    <3>1. CASE r \in Alive(pc)
      BY <1>2, <3>1 DEF PingEnded
    <3>2. CASE r \notin Alive(pc)
      <4>1. r # t
        BY <1>1, <3>2 DEF Alive
      <4> HIDE DEF r
      <4>2. r \notin Alive(pc')
        BY <2>1, <3>2, <4>1 DEF Alive, IInv, Orderly, Typed
      <4> QED
        BY <4>2 DEF r
    <3> QED
      BY <3>1, <3>2
  <2>4. Keeps(t)
    BY <1>1, <1>2, <2>2, <2>3 DEF PingEnded, Keeps, AwaitsPing, AwaitsReader
  <2> QED
    BY <2>2, <2>4, StepKeepsWaits
<1>3. CASE ReaderEnded(t)
  <2>1. pc' = [pc EXCEPT ![t] = "boot"] /\ UNCHANGED <<cancelled, pingTask>>
    BY <1>3 DEF ReaderEnded
  <2>2. Moves(t) /\ pc'[t] \in {"boot", "starting"}
    BY <1>1, <2>1, OneMoves
  <2> QED
    BY <1>1, <2>1, <2>2, PlainWaits DEF AwaitsPing, AwaitsReader
<1> QED
  BY <1>2, <1>3

LEMMA BootWaits ==
    ASSUME IInv, IInv', WaitInv, NEW t \in Tasks \ {Closer}, BootDone(t) \/ BootFails(t)
    PROVE  WaitInv'
<1>1. PICK v \in {"done", "backoff", "reading", "sleep", "waiting"} :
          Resume(t, [pc EXCEPT ![t] = v])
  BY FitsAfter DEF BootDone, BootFails
<1>2. pc[t] \notin Ended /\ Forget(t) /\ UNCHANGED <<pingTask, cancelled>>
  BY DEF BootDone, BootFails, Ended
<1>3. Moves(t) /\ pc'[t] \in {v, "starting"}
  BY <1>1, <1>2, OneMoves DEF Resume
<1> QED
  BY <1>2, <1>3, PlainWaits DEF AwaitsPing, AwaitsReader

LEMMA UnwindWaits ==
    ASSUME IInv, IInv', WaitInv, NEW t \in Tasks \ {Closer}, Unwind(t)
    PROVE  WaitInv'
<1> DEFINE q == [pc EXCEPT ![t] = "done"]
<1>1. /\ pc[t] \notin Ended /\ cancelled' = cancelled \ {t} /\ Forget(t)
      /\ pingTask' = pingTask
      /\ (Resume(t, q) \/ pc' = q)
  BY DEF Unwind, Alive
<1>2. Moves(t) /\ (pc'[t] = "done" \/ (pc'[t] = "starting" /\ Started(t)))
  BY <1>1, OneMoves DEF Resume
<1>3. pc'[t] \in Ended \/ Started(t)
  BY <1>2 DEF Ended
<1>4. /\ \A u \in Tasks : u # t => local'[u] = local[u]
      /\ local'[t].ping = 0
  BY <1>1 DEF Forget, Nobody, IInv, Rest
<1>5. Keeps(t)
  BY <1>1, <1>2, <1>3, <1>4 DEF Keeps, AwaitsPing, AwaitsReader
<1> QED
  BY <1>2, <1>5, StepKeepsWaits

\* The first run of a reader starts its keepalive, which nobody waits for.
LEMMA ReaderStartsWaits ==
    ASSUME IInv, IInv', WaitInv, NEW n \in Slots, ReaderStarts(n)
    PROVE  WaitInv'
<1>1. /\ pc[Reader(n)] = "starting" /\ pingTask' = n
      /\ UNCHANGED <<local, cancelled>>
  BY DEF ReaderStarts
<1>2. Reader(n) \in Tasks /\ Ping(n) \in Tasks /\ Reader(n) # Ping(n)
  BY Names, Distinct
<1>3. /\ \A u \in Tasks : u \notin {Reader(n), Ping(n)} => pc'[u] = pc[u]
      /\ pc'[Reader(n)] \in {"done", "reading"} /\ pc'[Ping(n)] \in {"done", "sleep"}
  BY <1>2 DEF ReaderStarts, IInv, Orderly, Typed
<1>4. SlotsUnmixed'
  <2> SUFFICES ASSUME NEW m \in Slots, pc'[Reader(m)] = "starting"
               PROVE  m # pingTask' /\ \A u \in Tasks : m # local'[u].ping
    BY DEF SlotsUnmixed
  <2>1. m # n /\ pc[Reader(m)] = "starting"
    BY <1>3, Names, Distinct
  <2> QED
    BY <1>1, <2>1 DEF WaitInv, SlotsUnmixed
<1>5. WaitsEnd'
  <2> SUFFICES ASSUME NEW u \in Tasks
               PROVE  /\ pc'[u] \in AwaitsReader =>
                           Reader(local[u].reader) \notin Alive(pc') \ cancelled
                      /\ pc'[u] \in AwaitsPing =>
                           Ping(local[u].ping) \notin Alive(pc') \ cancelled
    BY <1>1 DEF WaitsEnd, Running, AwaitsReader, AwaitsPing
  <2>1. pc'[u] \in AwaitsPing \cup AwaitsReader => pc'[u] = pc[u]
    BY <1>3 DEF AwaitsReader, AwaitsPing
  <2>2. /\ pc[u] \in AwaitsReader => Reader(local[u].reader) \notin Alive(pc) \ cancelled
        /\ pc[u] \in AwaitsPing => Ping(local[u].ping) \notin Alive(pc) \ cancelled
    BY DEF WaitInv, WaitsEnd, Running, AwaitsReader, AwaitsPing
  <2>3. \A m \in 0 .. MaxReaders : Reader(m) \in Alive(pc') => Reader(m) \in Alive(pc)
    <3>1. \A m \in 0 .. MaxReaders : Reader(m) \in Tasks => m \in Slots
      BY NotInSlots DEF Slots
    <3>2. pc[Reader(n)] \notin Ended
      BY <1>1, Apart
    <3> QED
      BY <1>2, <1>3, <3>1, <3>2, Distinct DEF Alive
  <2>4. \A m \in 0 .. MaxReaders : m # n /\ Ping(m) \in Alive(pc') => Ping(m) \in Alive(pc)
    <3>1. \A m \in 0 .. MaxReaders : Ping(m) \in Tasks => m \in Slots
      BY NotInSlots DEF Slots
    <3> QED
      BY <1>3, <3>1, Distinct DEF Alive
  <2>5. local[u].ping # n
    BY <1>1 DEF WaitInv, SlotsUnmixed
  <2>6. local[u].reader \in 0 .. MaxReaders /\ local[u].ping \in 0 .. MaxReaders
    BY DEF IInv, Rest
  <2> QED
    BY <2>1, <2>2, <2>3, <2>4, <2>5, <2>6
<1> QED
  BY <1>4, <1>5 DEF WaitInv

\* The steps of a task that is not connecting.
LEMMA PlainStepWaits ==
    ASSUME IInv, IInv', WaitInv, NEW t \in Tasks, pc[t] \notin Ended, NEW v, pc' = [pc EXCEPT ![t] = v],
           v \in {"done", "sleep", "waiting", "reading", "backoff", "nap", "lock"},
           UNCHANGED <<local, cancelled, pingTask>>
    PROVE  WaitInv'
<1>1. Moves(t) /\ pc'[t] \in {v, "starting"}
  BY OneMoves
<1> QED
  BY <1>1, PlainWaits DEF AwaitsPing, AwaitsReader

LEMMA ReaderStepWaits ==
    ASSUME IInv, IInv', WaitInv, NEW n \in Slots, ReaderStep(n)
    PROVE  WaitInv'
<1>1. Reader(n) \in Tasks \ {Closer}
  BY Names, Distinct
<1>2. CASE ReaderLosesPeer(n) \/ ReaderNaps(n) \/ NapOver(n)
  <2>1. /\ pc[Reader(n)] \notin Ended /\ UNCHANGED <<local, cancelled, pingTask>>
        /\ \E v \in {"done", "reading", "backoff", "nap"} : pc' = [pc EXCEPT ![Reader(n)] = v]
    BY <1>2, Apart DEF ReaderLosesPeer, ReaderNaps, NapOver
  <2> QED
    BY <1>1, <2>1, PlainStepWaits
<1>3. CASE ReaderReconnects(n)
  <2>1. pc[Reader(n)] \notin Ended /\ pingTask' = pingTask
    BY <1>3, Apart DEF ReaderReconnects
  <2>2. CASE pc' = [pc EXCEPT ![Reader(n)] = "done"] /\ UNCHANGED <<local, cancelled>>
    BY <1>1, <2>1, <2>2, PlainStepWaits
  <2>3. CASE EnterLock(Reader(n), pc, readerTask)
    <3>1. CASE authLock = << >>
      BY <1>1, <2>1, <2>3, <3>1, PauseWaits DEF EnterLock
    <3>2. CASE authLock # << >>
      BY <1>1, <2>1, <2>3, <3>2, PlainStepWaits DEF EnterLock
    <3> QED
      BY <3>1, <3>2
  <2> QED
    BY <1>3, <2>2, <2>3 DEF ReaderReconnects
<1> QED
  BY <1>2, <1>3, ReaderStartsWaits DEF ReaderStep

\* close waits for a keepalive and a reader that it has cancelled.
LEMMA CloseReaderWaits ==
    ASSUME IInv, IInv', WaitInv, NEW n \in 0 .. MaxReaders, CloseReader(n),
           pingTask' \in {pingTask, 0}
    PROVE  WaitInv'
<1>1. Closer \in Tasks /\ Closer \notin Readers \cup Pings
  BY Names, Distinct
<1>2. CASE /\ cancelled' = cancelled \cup {Reader(n)}
           /\ local' = [local EXCEPT ![Closer] = [reader |-> n, ping |-> 0]]
           /\ pc' = [pc EXCEPT ![Closer] = "closeReader"]
  <2>1. Moves(Closer) /\ pc'[Closer] \in {"closeReader", "starting"}
    BY <1>1, <1>2, OneMoves
  <2>2. /\ \A u \in Tasks : u # Closer => local'[u] = local[u]
        /\ local'[Closer].ping = 0 /\ local'[Closer].reader = n
    BY <1>1, <1>2 DEF IInv, Rest
  <2>3. Keeps(Closer)
    BY <1>2, <2>1, <2>2 DEF Keeps, AwaitsPing, AwaitsReader
  <2> QED
    BY <1>1, <2>1, <2>3, StepKeepsWaits
<1>3. CASE pc' = [pc EXCEPT ![Closer] = "done"] /\ Forget(Closer) /\ cancelled' = cancelled
  <2>1. Moves(Closer) /\ pc'[Closer] \in {"done", "starting"}
    BY <1>1, <1>3, OneMoves
  <2>2. /\ \A u \in Tasks : u # Closer => local'[u] = local[u]
        /\ local'[Closer].ping = 0
    BY <1>1, <1>3 DEF Forget, Nobody, IInv, Rest
  <2>3. Keeps(Closer)
    BY <1>3, <2>1, <2>2 DEF Keeps, AwaitsPing, AwaitsReader
  <2> QED
    BY <1>1, <2>1, <2>3, StepKeepsWaits
<1> QED
  BY <1>2, <1>3 DEF CloseReader

LEMMA CloseWaits ==
    ASSUME IInv, IInv', WaitInv, CloseStarts \/ CloseStep
    PROVE  WaitInv'
<1>1. Closer \in Tasks /\ Closer \notin Readers \cup Pings
  BY Names, Distinct
<1>2. readerTask \in 0 .. MaxReaders /\ local[Closer].reader \in 0 .. MaxReaders
      /\ 0 \in 0 .. MaxReaders /\ pingTask \in 0 .. MaxReaders
  BY <1>1, ConnectionAssumption DEF IInv, Rest
<1>3. CASE CloseStep
  BY <1>2, <1>3, CloseReaderWaits DEF CloseStep, ClosePingEnded, CloseReaderEnded
<1>4. CASE CloseStarts
  <2>1. pingTask' = pingTask
    BY <1>4 DEF CloseStarts
  <2>2. CASE CloseReader(readerTask)
    BY <1>2, <2>1, <2>2, CloseReaderWaits
  <2>3. CASE /\ cancelled' = cancelled \cup ({Ping(pingTask)} \cap Alive(pc))
             /\ local' = [local EXCEPT ![Closer] = [reader |-> readerTask, ping |-> pingTask]]
             /\ pc' = [pc EXCEPT ![Closer] = "closePing"]
    <3>1. Moves(Closer) /\ pc'[Closer] \in {"closePing", "starting"}
      BY <1>1, <2>3, OneMoves
    <3>2. /\ \A u \in Tasks : u # Closer => local'[u] = local[u]
          /\ local'[Closer].ping = pingTask
      BY <1>1, <2>3 DEF IInv, Rest
    <3>3. Ping(pingTask) \notin Alive(pc') \ cancelled'
      <4>1. Ping(pingTask) # Closer
        BY DEF Ping, Closer
      <4> QED
        BY <2>3, <4>1 DEF Alive, IInv, Orderly, Typed
    <3>4. Keeps(Closer)
      BY <2>1, <2>3, <3>1, <3>2, <3>3 DEF Keeps, AwaitsPing, AwaitsReader
    <3> QED
      BY <1>1, <3>1, <3>4, StepKeepsWaits
  <2>4. CASE pc' = [pc EXCEPT ![Closer] = "failed"] /\ UNCHANGED <<local, cancelled>>
    <3>1. Moves(Closer) /\ pc'[Closer] \in {"failed", "starting"}
      BY <1>1, <2>4, OneMoves
    <3> QED
      BY <1>1, <2>1, <2>4, <3>1, PlainWaits DEF AwaitsPing, AwaitsReader
  <2> QED
    BY <1>4, <2>2, <2>3, <2>4 DEF CloseStarts
<1> QED
  BY <1>3, <1>4

LEMMA NextKeepsWaits == IInv /\ IInv' /\ WaitInv /\ [Next]_vars => WaitInv'
<1> SUFFICES ASSUME IInv, IInv', WaitInv, [Next]_vars PROVE WaitInv'
  OBVIOUS
<1>1. CASE UNCHANGED vars
  BY <1>1 DEF vars, WaitInv, SlotsUnmixed, WaitsEnd, Running, Alive
<1>2. ASSUME NEW t \in Tasks \ {Closer}, Connect(t) \/ RequestReturns(t) \/ Unwind(t)
      PROVE  WaitInv'
  <2>1. CASE RequestReturns(t)
    <3>1. pc[t] \notin Ended
      BY <2>1, Apart DEF RequestReturns
    <3> QED
      BY <2>1, <3>1, FitsAfter, PlainStepWaits DEF RequestReturns
  <2> QED
    BY <1>2, <2>1, LockGrantedWaits, PauseStepWaits, BootWaits, UnwindWaits DEF Connect
<1>3. ASSUME NEW n \in Slots, ReaderStep(n) \/ PingFires(n) PROVE WaitInv'
  <2>1. CASE PingFires(n)
    <3>1. Ping(n) \in Tasks /\ Ping(n) \in Pings /\ pc[Ping(n)] \notin Ended
      BY <2>1, Names, Apart DEF PingFires
    <3> QED
      BY <2>1, <3>1, RequestWaits, PlainStepWaits DEF PingFires
  <2> QED
    BY <1>3, <2>1, ReaderStepWaits
<1>4. ASSUME NEW c \in Callers, CallStarts(c) \/ CancelCall(c) PROVE WaitInv'
  <2>1. CASE CallStarts(c)
    BY <2>1, Names, RequestWaits DEF CallStarts
  <2>2. CASE CancelCall(c)
    BY <2>2 DEF CancelCall, WaitInv, SlotsUnmixed, WaitsEnd, Running
  <2> QED
    BY <1>4, <2>1, <2>2
<1>5. ASSUME NEW kind \in LossKinds, PeerLost(kind) PROVE WaitInv'
  BY <1>5 DEF PeerLost, WaitInv, SlotsUnmixed, WaitsEnd, Running
<1> QED
  BY <1>1, <1>2, <1>3, <1>4, <1>5, CloseWaits DEF Next

\* For any number of requests, readers, losses, failures and cancellations, and
\* whether or not the client is closed: a task that waits for the end of another
\* waits for one that has ended or has been told to.
THEOREM WaitsAreForTheEnding == Spec => []WaitsEnd
<1>1. Init => WaitInv
  BY Names, Distinct DEF Init, WaitInv, SlotsUnmixed, WaitsEnd, Nobody
<1>2. WaitInv => WaitsEnd
  BY DEF WaitInv
<1> QED
  BY <1>1, <1>2, NextKeepsWaits, LockIsOrderly, PTL DEF Spec

-----------------------------------------------------------------------------
(* What close leaves when nobody has made a request.  Then there is only    *)
(* the reader of the first slot, and its keepalive.                        *)

NoCall == \A c \in Callers : pc[Call(c)] = "none"
Works == {"reading", "backoff", "nap", "lock", "boot"}
Asks == {"sleep", "lock", "waiting"}

Alone ==
    /\ \A n \in Slots : n # 1 => pc[Reader(n)] = "none" /\ pc[Ping(n)] = "none"
    /\ local[Reader(1)].reader = 0
    /\ pc[Reader(1)] \in Works \cup {"done"}

\* Nobody has called close; the keepalive may wait for itself.
StillOpen ==
    /\ pc[Closer] = "none" /\ ~ stopEv /\ pingTask = 1
    /\ pc[Reader(1)] # "done" /\ Reader(1) \notin cancelled
    /\ \/ pc[Ping(1)] = "stuck"
       \/ pc[Ping(1)] \in Asks /\ Ping(1) \notin cancelled /\ readerTask = 1

ClosingPing ==
    /\ pc[Closer] = "closePing" /\ stopEv /\ pingTask = 1 /\ readerTask = 1
    /\ local[Closer] = [reader |-> 1, ping |-> 1]
    /\ Reader(1) \notin cancelled
    /\ pc[Ping(1)] = "done" \/ (pc[Ping(1)] \in Asks /\ Ping(1) \in cancelled)

ClosingReader ==
    /\ pc[Closer] = "closeReader" /\ stopEv
    /\ local[Closer].reader = 1
    /\ pc[Ping(1)] = "done"
    /\ pc[Reader(1)] = "done" \/ Reader(1) \in cancelled

Closed ==
    /\ pc[Closer] = "done" /\ sock = "none" /\ readerTask = 0
    /\ pc[Ping(1)] = "done" /\ pc[Reader(1)] = "done"

Quiet ==
    NoCall => \/ pc[Closer] = "failed"
              \/ Alone /\ (StillOpen \/ ClosingPing \/ ClosingReader \/ Closed)

-----------------------------------------------------------------------------
(* Who has started stays so.                                               *)

LEMMA MoveStarts ==
    ASSUME IInv, NEW t \in Tasks, NEW v, v # "none", NEW rt,
           \/ pc' = [pc EXCEPT ![t] = v]
           \/ Room([pc EXCEPT ![t] = v], rt) /\ pc' = Spawned([pc EXCEPT ![t] = v], rt)
           \/ Room(pc, rt) /\ pc' = [Spawned(pc, rt) EXCEPT ![t] = v]
    PROVE  /\ \A u \in Tasks : pc'[u] = "none" => pc[u] = "none"
           /\ t # Closer => pc'[Closer] = pc[Closer]
<1> DEFINE q == [pc EXCEPT ![t] = v]
<1>1. DOMAIN pc = Tasks /\ \A u \in Tasks : q[u] = IF u = t THEN v ELSE pc[u]
  BY DEF IInv, Orderly, Typed
<1>2. Closer \in Tasks /\ \A n \in Slots : Reader(n) # Closer
  BY Names, Distinct
<1>3. CASE pc' = q
  BY <1>1, <1>2, <1>3
<1>4. CASE Room(q, rt) /\ pc' = Spawned(q, rt)
  <2>1. DOMAIN q = Tasks
    BY <1>1
  <2> HIDE DEF q
  <2> QED
    BY <1>1, <1>2, <1>4, <2>1, SpawnStep
<1>5. CASE Room(pc, rt) /\ pc' = [Spawned(pc, rt) EXCEPT ![t] = v]
  <2>1. DOMAIN Spawned(pc, rt) = Tasks
        /\ \A u \in Tasks : Spawned(pc, rt)[u] \in {pc[u], "starting"}
        /\ Spawned(pc, rt)[Closer] = pc[Closer]
    BY <1>1, <1>2, <1>5, SpawnStep
  <2> QED
    BY <1>2, <1>5, <2>1
<1> QED
  BY <1>3, <1>4, <1>5

LEMMA PauseStarts ==
    ASSUME IInv, NEW t \in Tasks, NEW p, NEW rt, PauseReader(t, p, rt),
           p = pc \/ (Room(pc, readerTask) /\ p = Spawned(pc, readerTask))
    PROVE  /\ \A u \in Tasks : pc'[u] = "none" => pc[u] = "none"
           /\ t # Closer => pc'[Closer] = pc[Closer]
<1>1. \E v \in {"boot", "pauseReader", "stuck", "pausePing"} : pc' = [p EXCEPT ![t] = v]
  BY DEF PauseReader, NothingToPause, PauseReaderOnly, PausePing
<1> QED
  BY <1>1, MoveStarts

LEMMA EnterStarts ==
    ASSUME IInv, NEW t \in Tasks, NEW p, NEW rt, EnterLock(t, p, rt),
           p = pc \/ (Room(pc, readerTask) /\ p = Spawned(pc, readerTask))
    PROVE  /\ \A u \in Tasks : pc'[u] = "none" => pc[u] = "none"
           /\ t # Closer => pc'[Closer] = pc[Closer]
<1>1. CASE PauseReader(t, p, rt)
  BY <1>1, PauseStarts
<1>2. CASE pc' = [p EXCEPT ![t] = "lock"]
  BY <1>2, MoveStarts
<1> QED
  BY <1>1, <1>2 DEF EnterLock

LEMMA RequestStarts ==
    ASSUME IInv, NEW t \in Pings \cup Calls, Request(t)
    PROVE  /\ \A u \in Tasks : pc'[u] = "none" => pc[u] = "none"
           /\ t # Closer => pc'[Closer] = pc[Closer]
<1> DEFINE p == Spawned(pc, readerTask)
<1>1. t \in Tasks /\ Room(pc, readerTask)
  BY Kinds DEF Request
<1>2. CASE Write(t, p)
  <2>1. \E v \in {"sleep", "done", "waiting"} : pc' = [p EXCEPT ![t] = v]
    BY <1>1, <1>2, FitsAfter DEF Write
  <2> QED
    BY <1>1, <2>1, MoveStarts
<1>3. CASE EnterLock(t, p, ReaderFor(pc, readerTask))
  BY <1>1, <1>3, EnterStarts
<1> QED
  BY <1>2, <1>3 DEF Request

LEMMA NoneBefore ==
    ASSUME IInv, Next
    PROVE  /\ \A u \in Tasks : pc'[u] = "none" => pc[u] = "none"
           /\ pc[Closer] = "failed" => pc'[Closer] = "failed"
<1> DEFINE Goal == /\ \A u \in Tasks : pc'[u] = "none" => pc[u] = "none"
                   /\ pc[Closer] = "failed" => pc'[Closer] = "failed"
<1>1. ASSUME NEW t \in Tasks \ {Closer}, Connect(t) \/ RequestReturns(t) \/ Unwind(t)
      PROVE  Goal
  <2>1. CASE LockGranted(t)
    <3>1. CASE PauseReader(t, pc, readerTask)
      BY <3>1, PauseStarts
    <3>2. CASE IF t \in Readers THEN pc' = [pc EXCEPT ![t] = AfterConnect] ELSE Write(t, pc)
      <4>1. \E v \in {"done", "backoff", "reading", "sleep", "waiting"} : pc' = [pc EXCEPT ![t] = v]
        BY <3>2, FitsAfter DEF Write
      <4> QED
        BY <4>1, MoveStarts
    <3> QED
      BY <2>1, <3>1, <3>2 DEF LockGranted
  <2>2. CASE PingEnded(t) \/ ReaderEnded(t) \/ RequestReturns(t)
    <3>1. \E v \in {"pauseReader", "boot", "sleep", "done"} : pc' = [pc EXCEPT ![t] = v]
      BY <2>2, FitsAfter DEF PingEnded, ReaderEnded, RequestReturns
    <3> QED
      BY <3>1, MoveStarts
  <2>3. CASE BootDone(t) \/ BootFails(t) \/ Unwind(t)
    <3>1. \E v \in {"done", "backoff", "reading", "sleep", "waiting"} :
             Resume(t, [pc EXCEPT ![t] = v]) \/ pc' = [pc EXCEPT ![t] = v]
      BY <2>3, FitsAfter DEF BootDone, BootFails, Unwind
    <3> QED
      BY <3>1, MoveStarts DEF Resume
  <2> QED
    BY <1>1, <2>1, <2>2, <2>3 DEF Connect
<1>2. ASSUME NEW n \in Slots, ReaderStep(n) PROVE Goal
  <2>1. Reader(n) \in Tasks \ {Closer} /\ Ping(n) \in Tasks \ {Closer} /\ Closer \in Tasks
    BY Names, Distinct
  <2>2. CASE ReaderStarts(n)
    BY <2>1, <2>2 DEF ReaderStarts, IInv, Orderly, Typed
  <2>3. CASE EnterLock(Reader(n), pc, readerTask)
    BY <2>1, <2>3, EnterStarts
  <2>4. CASE \E v \in {"done", "reading", "backoff", "nap"} : pc' = [pc EXCEPT ![Reader(n)] = v]
    BY <2>1, <2>4, MoveStarts
  <2> QED
    BY <1>2, <2>2, <2>3, <2>4 DEF ReaderStep, ReaderLosesPeer, ReaderNaps, NapOver, ReaderReconnects
<1>3. ASSUME NEW n \in Slots, PingFires(n) PROVE Goal
  <2>1. CASE Request(Ping(n))
    BY <2>1, Names, Distinct, RequestStarts
  <2>2. CASE pc' = [pc EXCEPT ![Ping(n)] = "done"]
    BY <2>2, Names, Distinct, MoveStarts
  <2> QED
    BY <1>3, <2>1, <2>2 DEF PingFires
<1>4. ASSUME NEW c \in Callers, CallStarts(c) \/ CancelCall(c) PROVE Goal
  BY <1>4, Names, Distinct, RequestStarts DEF CallStarts, CancelCall
<1>5. CASE CloseStarts \/ CloseStep
  <2>1. \E v \in {"closePing", "closeReader", "done", "failed"} : pc' = [pc EXCEPT ![Closer] = v]
    BY <1>5 DEF CloseStarts, CloseStep, ClosePingEnded, CloseReaderEnded, CloseReader
  <2>2. pc[Closer] # "failed"
    BY <1>5 DEF CloseStarts, CloseStep, ClosePingEnded, CloseReaderEnded
  <2> QED
    BY <2>1, <2>2, Names, MoveStarts
<1>6. ASSUME NEW kind \in LossKinds, PeerLost(kind) PROVE Goal
  BY <1>6 DEF PeerLost
<1> QED
  BY <1>1, <1>2, <1>3, <1>4, <1>5, <1>6 DEF Next

-----------------------------------------------------------------------------
(* The steps of the one reader, its keepalive and close.                   *)

Phase == Alone /\ (StillOpen \/ ClosingPing \/ ClosingReader \/ Closed)

LEMMA FirstSlot ==
    /\ 1 \in Slots /\ 1 \in 0 .. MaxReaders /\ Reader(1) \in Tasks /\ Reader(1) \in Readers
    /\ Ping(1) \in Tasks /\ Ping(1) \in Pings /\ Closer \in Tasks
    /\ Reader(1) # Ping(1) /\ Reader(1) # Closer /\ Ping(1) # Closer
    /\ \A n \in Slots : n # 1 => Reader(n) \notin {Reader(1), Ping(1), Closer}
                                 /\ Ping(n) \notin {Reader(1), Ping(1), Closer}
<1>1. 1 \in Slots /\ 1 \in 0 .. MaxReaders
  BY ConnectionAssumption DEF Slots
<1> QED
  BY <1>1, Names, Distinct

\* The tasks that there are.
LEMMA OnlyTwo ==
    ASSUME NoCall, Alone, NEW t \in Tasks, pc[t] # "none", t # Closer
    PROVE  t = Reader(1) \/ t = Ping(1)
BY DEF NoCall, Alone, Tasks, Readers, Pings, Calls

\* Where the others stay.
LEMMA AloneStays ==
    ASSUME IInv, Alone, NEW t \in {Reader(1), Ping(1), Closer}, NEW v,
           pc' = [pc EXCEPT ![t] = v], local'[Reader(1)].reader = 0,
           t = Reader(1) => v \in Works \cup {"done"}
    PROVE  /\ Alone'
           /\ \A u \in {Reader(1), Ping(1), Closer} : pc'[u] = IF u = t THEN v ELSE pc[u]
<1>1. \A u \in Tasks : pc'[u] = IF u = t THEN v ELSE pc[u]
  BY DEF IInv, Orderly, Typed
<1>2. \A n \in Slots : Reader(n) \in Tasks /\ Ping(n) \in Tasks
  BY Names
<1> QED
  BY <1>1, <1>2, FirstSlot DEF Alone

\* A move of the reader.
LEMMA ReaderQuiet ==
    ASSUME IInv, Phase, NEW v, pc' = [pc EXCEPT ![Reader(1)] = v],
           v \in Works \/ (v = "done" /\ stopEv),
           pc[Reader(1)] # "done", Reader(1) \notin cancelled,
           local' = local \/ Forget(Reader(1)), cancelled' = cancelled,
           UNCHANGED <<stopEv, readerTask, pingTask>>
    PROVE  Phase'
<1>1. StillOpen \/ ClosingPing
  BY DEF Phase, ClosingReader, Closed
<1>2. local'[Reader(1)].reader = 0 /\ local'[Closer] = local[Closer]
  BY FirstSlot DEF Forget, Nobody, Phase, Alone, IInv, Rest
<1>3. /\ Alone'
      /\ pc'[Reader(1)] = v /\ pc'[Ping(1)] = pc[Ping(1)] /\ pc'[Closer] = pc[Closer]
  BY <1>2, AloneStays, FirstSlot DEF Phase
<1>4. CASE StillOpen
  <2>1. StillOpen'
    BY <1>3, <1>4, Strings DEF StillOpen, Works
  <2> QED
    BY <1>3, <2>1 DEF Phase
<1>5. CASE ClosingPing
  <2>1. ClosingPing'
    BY <1>2, <1>3, <1>5 DEF ClosingPing
  <2> QED
    BY <1>3, <2>1 DEF Phase
<1> QED
  BY <1>1, <1>4, <1>5

\* The reader's turn to connect.
LEMMA ReaderPausesNothing ==
    ASSUME Phase, readerTask = 1, PauseReader(Reader(1), pc, readerTask)
    PROVE  pc' = [pc EXCEPT ![Reader(1)] = "boot"] /\ UNCHANGED <<readerTask, local, cancelled>>
<1>1. ~ Pausable(Reader(1), pc, readerTask)
  BY DEF Pausable
<1> QED
  BY <1>1 DEF PauseReader, NothingToPause, PauseReaderOnly, PausePing, ToPause

\* The keepalive asks while nobody has called close.
LEMMA PingQuiet ==
    ASSUME IInv, Phase, StillOpen, pc[Ping(1)] \in Asks, NEW v \in Asks,
           pc' = [pc EXCEPT ![Ping(1)] = v],
           UNCHANGED <<stopEv, readerTask, pingTask, local, cancelled>>
    PROVE  Phase'
<1>1. "stuck" \notin Asks
  BY DEF Asks
<1>2. /\ Alone'
      /\ pc'[Reader(1)] = pc[Reader(1)] /\ pc'[Ping(1)] = v /\ pc'[Closer] = pc[Closer]
  <2>1. Alone /\ local'[Reader(1)].reader = 0
    BY DEF Phase, Alone
  <2>2. Ping(1) \in {Reader(1), Ping(1), Closer} /\ Ping(1) # Reader(1) /\ Ping(1) # Closer
    BY FirstSlot
  <2>3. /\ Alone'
        /\ \A u \in {Reader(1), Ping(1), Closer} : pc'[u] = IF u = Ping(1) THEN v ELSE pc[u]
    BY <2>1, <2>2, AloneStays
  <2> QED
    BY <2>2, <2>3
<1>3. StillOpen'
  BY <1>1, <1>2 DEF StillOpen
<1> QED
  BY <1>2, <1>3 DEF Phase

\* A keepalive that gets the lock waits for itself.
LEMMA PingPausesItself ==
    ASSUME IInv, Phase, StillOpen, pc[Ping(1)] \in Asks, PauseReader(Ping(1), pc, readerTask),
           UNCHANGED <<stopEv, pingTask>>
    PROVE  Phase'
<1>1. readerTask = 1 /\ pingTask = 1 /\ pc[Ping(1)] # "stuck"
  BY DEF StillOpen, Asks
<1>2. Pausable(Ping(1), pc, readerTask)
  BY <1>1, FirstSlot DEF Pausable, StillOpen
<1>3. PausePing(Ping(1), pc, readerTask)
  BY <1>1, <1>2 DEF PauseReader, NothingToPause, PauseReaderOnly
<1>4. /\ pc' = [pc EXCEPT ![Ping(1)] = "stuck"]
      /\ local' = [local EXCEPT ![Ping(1)] = [reader |-> 1, ping |-> 1]]
      /\ cancelled' \subseteq cancelled \cup {Ping(1)}
  BY <1>1, <1>3 DEF PausePing, ToPause
<1>5. local'[Reader(1)].reader = 0
  BY <1>4, FirstSlot DEF Phase, Alone, IInv, Rest
<1>6. /\ Alone'
      /\ pc'[Reader(1)] = pc[Reader(1)] /\ pc'[Ping(1)] = "stuck" /\ pc'[Closer] = pc[Closer]
  BY <1>4, <1>5, AloneStays, FirstSlot DEF Phase
<1>7. StillOpen'
  BY <1>4, <1>6, FirstSlot DEF StillOpen
<1> QED
  BY <1>6, <1>7 DEF Phase

LEMMA LockGrantedQuiet ==
    ASSUME IInv, Phase, NEW t \in {Reader(1), Ping(1)}, LockGranted(t) PROVE Phase'
<1>1. /\ pc[t] = "lock" /\ t \notin cancelled /\ Head(authLock) = t
      /\ UNCHANGED <<sock, stopEv, pingTask>>
  BY DEF LockGranted, Granted
<1>2. readerTask = 1
  <2>1. StillOpen \/ ClosingPing
    BY <1>1, FirstSlot DEF Phase, ClosingReader, Closed
  <2>2. CASE pc[Ping(1)] = "stuck"
    <3>1. Head(authLock) = Ping(1) /\ pc[Ping(1)] # "lock"
      BY <2>2, FirstSlot, HasLock
    <3>2. t = Ping(1)
      BY <1>1, <3>1
    <3> QED
      BY <1>1, <3>1, <3>2
  <2> QED
    BY <2>1, <2>2 DEF StillOpen, ClosingPing
<1>3. CASE t = Reader(1)
  <2>1. CASE pc' = [pc EXCEPT ![t] = AfterConnect] /\ UNCHANGED <<readerTask, local, cancelled>>
    <3>1. AfterConnect \in Works \/ (AfterConnect = "done" /\ stopEv)
      BY <1>1 DEF AfterConnect, Works
    <3> QED
      BY <1>1, <1>3, <2>1, <3>1, ReaderQuiet
  <2>2. CASE PauseReader(t, pc, readerTask)
    BY <1>1, <1>2, <1>3, <2>2, ReaderPausesNothing, ReaderQuiet DEF Works
  <2> QED
    BY <1>3, <2>1, <2>2, FirstSlot DEF LockGranted
<1>4. CASE t = Ping(1)
  <2>1. StillOpen /\ pc[t] \in Asks
    BY <1>1, <1>4 DEF Phase, ClosingPing, ClosingReader, Closed, Asks
  <2>2. CASE Write(t, pc) /\ UNCHANGED <<readerTask, local, cancelled>>
    <3>1. AfterRequest(t) = "sleep"
      BY <1>1, <1>4, <2>1, FirstSlot DEF AfterRequest, StillOpen
    <3>2. \E v \in Asks : pc' = [pc EXCEPT ![t] = v]
      BY <2>2, <3>1 DEF Write, Asks
    <3> QED
      BY <1>1, <1>4, <2>1, <2>2, <3>2, PingQuiet
  <2>3. CASE PauseReader(t, pc, readerTask)
    BY <1>1, <1>4, <2>1, <2>3, PingPausesItself
  <2>4. t \notin Readers
    BY <1>4, FirstSlot, Distinct
  <2> QED
    BY <2>2, <2>3, <2>4 DEF LockGranted
<1> QED
  BY <1>3, <1>4

LEMMA ConnectQuiet ==
    ASSUME IInv, Phase, NEW t \in {Reader(1), Ping(1)}, Connect(t) \/ RequestReturns(t) \/ Unwind(t)
    PROVE  Phase'
<1>1. pc[Reader(1)] \in Works \cup {"done"} /\ pc[Ping(1)] \in Asks \cup {"stuck", "done"}
  BY DEF Phase, Alone, StillOpen, ClosingPing, ClosingReader, Closed
<1>2. CASE PingEnded(t) \/ ReaderEnded(t)
  BY <1>1, <1>2 DEF PingEnded, ReaderEnded, Works, Asks
<1>3. CASE BootDone(t) \/ BootFails(t)
  <2>1. pc[t] = "boot" /\ t \notin cancelled
    BY <1>3 DEF BootDone, BootFails
  <2>2. t = Reader(1)
    BY <1>1, <2>1 DEF Asks
  <2>3. /\ pc' = [pc EXCEPT ![t] = AfterConnect]
        /\ UNCHANGED <<readerTask, stopEv, pingTask, cancelled>> /\ Forget(t)
    BY <1>3, <2>2, FirstSlot DEF BootDone, BootFails, Resume, Phase, Alone
  <2>4. AfterConnect \in Works \/ (AfterConnect = "done" /\ stopEv)
    BY <2>3 DEF AfterConnect, Works
  <2> QED
    BY <2>1, <2>2, <2>3, <2>4, ReaderQuiet
<1>4. CASE RequestReturns(t)
  <2>1. t = Ping(1) /\ StillOpen /\ pc[t] \in Asks
    BY <1>1, <1>4, FirstSlot
       DEF RequestReturns, Phase, ClosingPing, ClosingReader, Closed, Works, Asks
  <2>2. AfterRequest(t) = "sleep" /\ "sleep" \in Asks
    BY <1>4, <2>1, FirstSlot DEF RequestReturns, AfterRequest, StillOpen, Asks
  <2> QED
    BY <1>4, <2>1, <2>2, PingQuiet DEF RequestReturns
<1>5. CASE Unwind(t)
  <2>1. t \in cancelled /\ pc[t] \notin Ended /\ pc[t] # "stuck"
    BY <1>5 DEF Unwind, Alive
  <2>2. local[Reader(1)].reader = 0 /\ pc[Ping(1)] # "boot"
    BY <1>1 DEF Phase, Alone, Asks
  <2>3. /\ pc' = [pc EXCEPT ![t] = "done"] /\ UNCHANGED <<readerTask, stopEv, pingTask>>
        /\ cancelled' = cancelled \ {t} /\ Forget(t)
    BY <1>5, <2>2 DEF Unwind, Resume
  <2>4. local'[Reader(1)].reader = 0 /\ local'[Closer] = local[Closer]
    BY <2>2, <2>3, FirstSlot DEF Forget, Nobody, IInv, Rest
  <2>5. /\ Alone'
        /\ \A u \in {Reader(1), Ping(1), Closer} : pc'[u] = IF u = t THEN "done" ELSE pc[u]
    <3>1. t \in {Reader(1), Ping(1), Closer} /\ Alone
      BY DEF Phase
    <3> QED
      BY <2>3, <2>4, <3>1, AloneStays
  <2>6. CASE t = Reader(1)
    <3>1. ClosingReader
      BY <2>1, <2>6 DEF Phase, StillOpen, ClosingPing, Closed, Ended
    <3>2. ClosingReader'
      BY <2>3, <2>4, <2>5, <2>6, <3>1, FirstSlot DEF ClosingReader
    <3> QED
      BY <2>5, <3>2 DEF Phase
  <2>7. CASE t = Ping(1)
    <3>1. ClosingPing
      BY <2>1, <2>7 DEF Phase, StillOpen, ClosingReader, Closed, Ended
    <3>2. ClosingPing'
      BY <2>3, <2>4, <2>5, <2>7, <3>1, FirstSlot DEF ClosingPing
    <3> QED
      BY <2>5, <3>2 DEF Phase
  <2> QED
    BY <2>6, <2>7
<1> QED
  BY <1>2, <1>3, <1>4, <1>5, LockGrantedQuiet DEF Connect

LEMMA ReaderStepQuiet ==
    ASSUME IInv, Phase, NEW n \in Slots, ReaderStep(n) PROVE Phase'
<1>1. pc[Reader(n)] \in {"starting", "reading", "nap", "backoff"} /\ Reader(n) \notin cancelled
  BY DEF ReaderStep, ReaderStarts, ReaderLosesPeer, ReaderNaps, NapOver, ReaderReconnects
<1>2. n = 1 /\ pc[Reader(1)] # "starting" /\ pc[Reader(1)] # "done"
  BY <1>1 DEF Phase, Alone, Works
<1>3. CASE ReaderLosesPeer(n) \/ ReaderNaps(n) \/ NapOver(n)
  <2>1. /\ \E v \in Works \cup {"done"} : /\ pc' = [pc EXCEPT ![Reader(n)] = v]
                                          /\ v = "done" => stopEv
        /\ UNCHANGED <<stopEv, readerTask, pingTask, local, cancelled>>
    BY <1>3 DEF ReaderLosesPeer, ReaderNaps, NapOver, Works
  <2> QED
    BY <1>1, <1>2, <2>1, ReaderQuiet
<1>4. CASE ReaderReconnects(n)
  <2>1. UNCHANGED <<stopEv, pingTask>>
    BY <1>4 DEF ReaderReconnects
  <2>2. CASE /\ stopEv /\ pc' = [pc EXCEPT ![Reader(n)] = "done"]
             /\ UNCHANGED <<readerTask, local, cancelled>>
    BY <1>1, <1>2, <2>1, <2>2, ReaderQuiet
  <2>3. CASE ~ stopEv /\ EnterLock(Reader(n), pc, readerTask)
    <3>1. StillOpen
      BY <1>2, <2>3 DEF Phase, ClosingPing, ClosingReader, Closed
    <3>2. CASE authLock = << >>
      <4>1. pc[Ping(1)] # "stuck"
        BY <3>2, FirstSlot, HasLock
      <4>2. readerTask = 1
        BY <3>1, <4>1 DEF StillOpen
      <4> QED
        BY <1>1, <1>2, <2>1, <2>3, <3>2, <4>2, ReaderPausesNothing, ReaderQuiet
           DEF EnterLock, Works
    <3>3. CASE authLock # << >>
      BY <1>1, <1>2, <2>1, <2>3, <3>3, ReaderQuiet DEF EnterLock, Works
    <3> QED
      BY <3>2, <3>3
  <2> QED
    BY <1>4, <2>2, <2>3 DEF ReaderReconnects
<1> QED
  BY <1>1, <1>2, <1>3, <1>4 DEF ReaderStep, ReaderStarts

LEMMA PingFiresQuiet ==
    ASSUME IInv, Phase, NEW n \in Slots, PingFires(n) PROVE Phase'
<1>1. pc[Ping(n)] = "sleep" /\ Ping(n) \notin cancelled
  BY DEF PingFires
<1>2. n = 1 /\ StillOpen /\ pc[Ping(1)] \in Asks
  BY <1>1 DEF Phase, Alone, ClosingPing, ClosingReader, Closed, Asks
<1>3. /\ readerTask = 1 /\ ~ NeedsReader(pc, readerTask) /\ ~ stopEv
  BY <1>1, <1>2 DEF StillOpen, NeedsReader
<1>4. Spawned(pc, readerTask) = pc /\ ReaderFor(pc, readerTask) = readerTask
  BY <1>3 DEF Spawned, ReaderFor
<1>5. Request(Ping(1))
  BY <1>2, <1>3 DEF PingFires
<1>6. stopEv' = stopEv /\ pingTask' = pingTask
  BY <1>3, <1>5 DEF Request, StopAfter, IInv, Rest
<1>7. CASE Write(Ping(1), pc) /\ UNCHANGED <<readerTask, local, cancelled>>
  <2>1. AfterRequest(Ping(1)) = "sleep"
    BY <1>3, <1>6, FirstSlot DEF AfterRequest
  <2>2. \E v \in Asks : pc' = [pc EXCEPT ![Ping(1)] = v]
    BY <1>7, <2>1 DEF Write, Asks
  <2> QED
    BY <1>2, <1>6, <1>7, <2>2, PingQuiet
<1>8. CASE EnterLock(Ping(1), pc, readerTask)
  <2>1. CASE PauseReader(Ping(1), pc, readerTask)
    BY <1>2, <1>6, <2>1, PingPausesItself
  <2>2. CASE pc' = [pc EXCEPT ![Ping(1)] = "lock"] /\ UNCHANGED <<readerTask, local, cancelled>>
    BY <1>2, <1>6, <2>2, PingQuiet DEF Asks
  <2> QED
    BY <1>8, <2>1, <2>2 DEF EnterLock
<1> QED
  BY <1>4, <1>5, <1>7, <1>8 DEF Request

\* close: it fails, waits for the keepalive, waits for the reader, or is done.
LEMMA CloseReaderQuiet ==
    ASSUME IInv, Phase, pc[Ping(1)] = "done", stopEv',
           NEW n \in {0, 1}, CloseReader(n), n = 0 => pc[Reader(1)] = "done"
    PROVE  Phase'
<1>1. CASE /\ n # 0 /\ Reader(n) \in Alive(pc)
           /\ cancelled' = cancelled \cup {Reader(n)}
           /\ local' = [local EXCEPT ![Closer] = [reader |-> n, ping |-> 0]]
           /\ pc' = [pc EXCEPT ![Closer] = "closeReader"]
  <2>1. local'[Reader(1)].reader = 0 /\ local'[Closer].reader = 1
    BY <1>1, FirstSlot DEF Phase, Alone, IInv, Rest
  <2>2. /\ Alone' /\ pc'[Ping(1)] = "done" /\ pc'[Closer] = "closeReader"
    BY <1>1, <2>1, AloneStays, FirstSlot DEF Phase
  <2>3. ClosingReader'
    BY <1>1, <2>1, <2>2 DEF ClosingReader
  <2> QED
    BY <2>2, <2>3 DEF Phase
<1>2. CASE /\ n # 0 => Reader(n) \notin Alive(pc)
           /\ readerTask' = 0 /\ sock' = "none"
           /\ pc' = [pc EXCEPT ![Closer] = "done"] /\ Forget(Closer)
  <2>1. local'[Reader(1)].reader = 0
    BY <1>2, FirstSlot DEF Phase, Alone, IInv, Rest, Forget
  <2>2. /\ Alone' /\ pc'[Ping(1)] = "done" /\ pc'[Closer] = "done"
        /\ pc'[Reader(1)] = pc[Reader(1)]
    BY <1>2, <2>1, AloneStays, FirstSlot DEF Phase
  <2>3. pc[Reader(1)] = "done"
    BY <1>2, FirstSlot DEF Alive, Ended, Phase, Alone, Works
  <2>4. Closed'
    BY <1>2, <2>2, <2>3 DEF Closed
  <2> QED
    BY <2>2, <2>4 DEF Phase
<1> QED
  BY <1>1, <1>2 DEF CloseReader

LEMMA CloseQuiet ==
    ASSUME IInv, Phase, CloseStarts \/ CloseStep PROVE Phase' \/ pc'[Closer] = "failed"
<1>1. CASE CloseStarts
  <2>1. StillOpen /\ stopEv' /\ pingTask' = pingTask /\ pingTask = 1
    BY <1>1 DEF CloseStarts, Phase, StillOpen, ClosingPing, ClosingReader, Closed
  <2>2. CASE pc' = [pc EXCEPT ![Closer] = "failed"]
    BY <2>2, FirstSlot DEF IInv, Orderly, Typed
  <2>3. CASE /\ pc[Ping(pingTask)] # "stuck"
             /\ cancelled' = cancelled \cup ({Ping(pingTask)} \cap Alive(pc))
             /\ local' = [local EXCEPT ![Closer] = [reader |-> readerTask, ping |-> pingTask]]
             /\ pc' = [pc EXCEPT ![Closer] = "closePing"]
             /\ UNCHANGED <<sock, authReady, readerTask>>
    <3>1. pc[Ping(1)] \in Asks /\ readerTask = 1
      BY <2>1, <2>3 DEF StillOpen
    <3>2. Ping(1) \in cancelled' /\ Reader(1) \notin cancelled'
      <4>1. Asks \cap Ended = {}
        BY DEF Asks, Ended
      <4> QED
        BY <2>1, <2>3, <3>1, <4>1, FirstSlot DEF Alive, StillOpen
    <3>3. local'[Reader(1)].reader = 0 /\ local'[Closer] = [reader |-> 1, ping |-> 1]
      BY <2>1, <2>3, <3>1, FirstSlot DEF Phase, Alone, IInv, Rest
    <3>4. /\ Alone' /\ pc'[Ping(1)] = pc[Ping(1)] /\ pc'[Closer] = "closePing"
      BY <2>3, <3>3, AloneStays, FirstSlot DEF Phase
    <3>5. ClosingPing'
      BY <2>1, <2>3, <3>1, <3>2, <3>3, <3>4 DEF ClosingPing
    <3> QED
      BY <3>4, <3>5 DEF Phase
  <2> QED
    BY <1>1, <2>1, <2>2, <2>3 DEF CloseStarts
<1>2. CASE ClosePingEnded
  <2>1. ClosingPing /\ Ping(1) \notin Alive(pc) /\ CloseReader(1) /\ stopEv'
    BY <1>2 DEF ClosePingEnded, Phase, StillOpen, ClosingPing, ClosingReader, Closed
  <2>2. pc[Ping(1)] = "done"
    BY <2>1, FirstSlot DEF Alive, Ended, ClosingPing, Asks
  <2> QED
    BY <2>1, <2>2, CloseReaderQuiet
<1>3. CASE CloseReaderEnded
  <2>1. ClosingReader /\ Reader(1) \notin Alive(pc) /\ CloseReader(0) /\ stopEv'
    BY <1>3 DEF CloseReaderEnded, Phase, StillOpen, ClosingPing, ClosingReader, Closed
  <2>2. pc[Reader(1)] = "done" /\ pc[Ping(1)] = "done"
    BY <2>1, FirstSlot DEF Alive, Ended, ClosingReader, Phase, Alone, Works
  <2> QED
    BY <2>1, <2>2, CloseReaderQuiet
<1> QED
  BY <1>1, <1>2, <1>3 DEF CloseStep

LEMMA NextQuiet == IInv /\ Quiet /\ [Next]_vars => Quiet'
<1> SUFFICES ASSUME IInv, Quiet, [Next]_vars, NoCall' PROVE Phase' \/ pc'[Closer] = "failed"
  BY DEF Quiet, Phase
<1>1. CASE UNCHANGED vars
  BY <1>1 DEF vars, Quiet, Phase, NoCall, Alone, StillOpen, ClosingPing, ClosingReader, Closed
<1>2. CASE Next
  <2>1. NoCall /\ (pc[Closer] = "failed" => pc'[Closer] = "failed")
    BY <1>2, NoneBefore, Names DEF NoCall
  <2> SUFFICES ASSUME Phase PROVE Phase' \/ pc'[Closer] = "failed"
    BY <2>1 DEF Quiet, Phase
  <2>2. ASSUME NEW t \in Tasks \ {Closer}, Connect(t) \/ RequestReturns(t) \/ Unwind(t)
        PROVE  Phase'
    <3>1. pc[t] # "none"
      BY <2>2 DEF Connect, RequestReturns, Unwind, LockGranted, Granted, PingEnded, ReaderEnded,
                  BootDone, BootFails, Alive, Ended
    <3> QED
      BY <2>1, <2>2, <3>1, OnlyTwo, ConnectQuiet DEF Phase
  <2>3. ASSUME NEW c \in Callers, CallStarts(c) \/ CancelCall(c) PROVE FALSE
    <3>1. CASE CallStarts(c)
      <4>1. pc'[Call(c)] # "none"
        <5> DEFINE t == Call(c)
        <5>1. t \in Tasks /\ Request(t) /\ t \notin Readers
          BY <3>1, Names, Distinct DEF CallStarts
        <5>2. \E v : v # "none" /\ pc' = [Spawned(pc, readerTask) EXCEPT ![t] = v]
          BY <5>1, FitsAfter DEF Request, Write, EnterLock, PauseReader, NothingToPause,
                                 PauseReaderOnly, PausePing
        <5>3. t \in DOMAIN Spawned(pc, readerTask)
          BY <5>1 DEF Spawned, IInv, Orderly, Typed
        <5> HIDE DEF t
        <5> QED
          BY <5>2, <5>3 DEF t
      <4> QED
        BY <4>1 DEF NoCall
    <3>2. CASE CancelCall(c)
      BY <2>1, <3>2 DEF NoCall, CancelCall, Alive, Ended
    <3> QED
      BY <2>3, <3>1, <3>2
  <2>4. ASSUME NEW kind \in LossKinds, PeerLost(kind) PROVE Phase'
    <3>1. ~ Closed /\ UNCHANGED <<pc, local, stopEv, pingTask, readerTask, cancelled>>
      BY <2>4 DEF PeerLost, Closed
    <3> QED
      BY <3>1 DEF Phase, Alone, StillOpen, ClosingPing, ClosingReader
  <2> QED
    BY <1>2, <2>2, <2>3, <2>4, ReaderStepQuiet, PingFiresQuiet, CloseQuiet DEF Next
<1> QED
  BY <1>1, <1>2

\* For any bound on readers, losses and failures: when close has returned, and
\* nobody has made a request, no task is left, and no connection.
THEOREM NothingIsLeft == Spec => []ClosedIsQuiet
<1>1. Init => Quiet
  <2> SUFFICES ASSUME Init PROVE Phase
    BY DEF Quiet, Phase
  <2>1. \A t \in Tasks : /\ pc[t] = CASE t = Reader(1) -> "reading" [] t = Ping(1) -> "sleep"
                                      [] OTHER -> "none"
                         /\ local[t] = Nobody
    BY DEF Init
  <2>2. Alone
    BY <2>1, FirstSlot, Names DEF Alone, Nobody, Works
  <2>3. StillOpen
    BY <2>1, FirstSlot DEF Init, StillOpen, Asks
  <2> QED
    BY <2>2, <2>3 DEF Phase
<1>2. Quiet => ClosedIsQuiet
  <2> SUFFICES ASSUME Quiet, pc[Closer] = "done", NoCall
               PROVE  Alive(pc) = {} /\ sock = "none" /\ readerTask = 0
    BY DEF ClosedIsQuiet, NoCall
  <2>1. Alone /\ Closed
    BY DEF Quiet, StillOpen, ClosingPing, ClosingReader
  <2>2. \A t \in Tasks : pc[t] \in {"none", "done"}
    BY <2>1, OnlyTwo DEF Closed
  <2> QED
    BY <2>1, <2>2 DEF Closed, Alive, Ended
<1> QED
  BY <1>1, <1>2, NextQuiet, LockIsOrderly, PTL DEF Spec

-----------------------------------------------------------------------------
(* Who reads.  The invariant is about the places p and the reader task rt,  *)
(* because a request that starts a reader goes on with those it has made.  *)

Past(p, t) == p[t] \in Connecting \ {"lock"}
Detains(p, t) == p[t] \in {"pausePing", "stuck"}
Pausing(p, t) ==
    Detains(p, t) \/ p[t] = "pauseReader" \/ (p[t] = "boot" /\ local[t].reader # 0)
RunningIn(p) == Alive(p) \ cancelled

\* Nobody closes or cancels requests; who is cancelled has not ended.
Undisturbed(p) ==
    /\ ~ stopEv /\ p[Closer] = "none"
    /\ cancelled \subseteq Alive(p) /\ cancelled \cap Calls = {}

\* Who is past the lock found requests held up, and nobody cancels it; only it
\* knows of a paused reader, and it is no reader itself.
HoldersPause(p) ==
    \A t \in Tasks :
        /\ Past(p, t) => ~ authReady
        /\ ~ Past(p, t) => local[t].reader = 0
        /\ Past(p, t) /\ p[t] # "stuck" => t \notin cancelled
        /\ Pausing(p, t) => local[t].reader # 0 /\ t \notin Readers

\* The reader that is known runs; while another is paused it has not begun.
\* A reader that runs is known, or is about to be paused.
ReadersKnown(p, rt) ==
    /\ rt # 0 => Reader(rt) \in RunningIn(p)
    /\ rt = 0 => \E t \in Tasks : Pausing(p, t)
    /\ \A t \in Tasks : Pausing(p, t) => rt = 0 \/ p[Reader(rt)] = "starting"
    /\ \A t \in Tasks : local[t].reader # 0 => local[t].reader # rt
    /\ \A n \in Slots : Reader(n) \in RunningIn(p) =>
         n = rt \/ \E t \in Tasks : Detains(p, t) /\ local[t].reader = n

\* A reader begins when the keepalive of the one before has ended.
PingsEnded(p) ==
    /\ \A n \in Slots : Reader(n) \in RunningIn(p) /\ p[Reader(n)] = "starting" =>
         pingTask = 0 \/ \E t \in Tasks : Detains(p, t)
    /\ \A t \in Tasks : Pausing(p, t) /\ ~ Detains(p, t) => pingTask = 0
    /\ \A t \in Tasks : p[t] = "pausePing" => local[t].ping = pingTask
    /\ \A n \in Slots : Ping(n) \in RunningIn(p) => pingTask = n

Tended(p, rt) == Undisturbed(p) /\ HoldersPause(p) /\ ReadersKnown(p, rt) /\ PingsEnded(p)

-----------------------------------------------------------------------------
\* One task is past the lock.
LEMMA OnePast ==
    ASSUME NEW p, NEW lock, FirstConnects(p, lock), NEW t \in Tasks, NEW u \in Tasks,
           Past(p, t), Past(p, u)
    PROVE  t = u
BY DEF FirstConnects, Past

LEMMA PausingIsPast ==
    ASSUME NEW p, NEW t \in Tasks, Pausing(p, t) PROVE Past(p, t)
BY DEF Pausing, Detains, Past, Connecting

LEMMA SlotZero == \A n \in Slots : n # 0 /\ Reader(n) \in Tasks /\ Reader(n) \in Readers
                                   /\ Ping(n) \in Tasks /\ Ping(n) \in Pings
BY NotInSlots, Names

\* A reader that is started while another is paused.
LEMMA SpawnTended ==
    ASSUME IInv, Tended(pc, readerTask), Room(pc, readerTask)
    PROVE  /\ Tended(Spawned(pc, readerTask), ReaderFor(pc, readerTask))
           /\ ReaderFor(pc, readerTask) # 0
           /\ \A t \in Tasks \ Readers : Spawned(pc, readerTask)[t] = pc[t]
           /\ DOMAIN Spawned(pc, readerTask) = Tasks
           /\ \A t \in Tasks : Past(Spawned(pc, readerTask), t) <=> Past(pc, t)
<1>1. CASE readerTask # 0
  <2>1. ~ NeedsReader(pc, readerTask)
    BY <1>1 DEF NeedsReader, Tended, ReadersKnown, RunningIn, Alive, Ended
  <2> QED
    BY <1>1, <2>1, SpawnStep DEF IInv, Orderly, Typed
<1>2. CASE readerTask = 0
  <2>1. PICK n \in Slots : /\ Free(pc, n) /\ Unused(n) /\ ReaderFor(pc, readerTask) = n
                           /\ Spawned(pc, readerTask) = [pc EXCEPT ![Reader(n)] = "starting"]
    BY <1>2, SpawnStep DEF NeedsReader
  <2> DEFINE p == [pc EXCEPT ![Reader(n)] = "starting"]
             r == Reader(n)
  <2>2. n # 0 /\ r \in Tasks /\ r \in Readers /\ r # Closer
    BY SlotZero, Distinct
  <2>3. DOMAIN pc = Tasks /\ \A t \in Tasks : p[t] = IF t = r THEN "starting" ELSE pc[t]
    BY DEF IInv, Orderly, Typed
  <2>4. pc[r] \in Ended /\ r \notin cancelled
    BY <2>1, <2>2 DEF Free, Alive, Tended, Undisturbed
  <2>5. \A m \in Slots : m # n => Reader(m) # r
    BY <2>1, Distinct
  <2>6. \A m \in Slots : Ping(m) # r
    BY <2>1, Distinct
  <2>7. RunningIn(p) = RunningIn(pc) \cup {r} /\ Alive(pc) \subseteq Alive(p)
    <3> HIDE DEF p, r
    <3> QED
      BY <2>2, <2>3, <2>4, Apart DEF RunningIn, Alive
  <2>8. \A t \in Tasks : (Past(p, t) <=> Past(pc, t)) /\ (Pausing(p, t) <=> Pausing(pc, t))
                         /\ (Detains(p, t) <=> Detains(pc, t))
    <3> HIDE DEF p, r
    <3> QED
      BY <2>2, <2>3, <2>4 DEF Past, Pausing, Detains, Connecting, Ended
  <2>9. Undisturbed(p)
    BY <2>2, <2>3, <2>7, Names DEF Tended, Undisturbed
  <2>10. HoldersPause(p)
    <3> HIDE DEF p
    <3> QED
      BY <2>2, <2>3, <2>4, <2>8 DEF Tended, HoldersPause, Ended, Past
  <2>11. ReadersKnown(p, n)
    <3>1. n # 0 => Reader(n) \in RunningIn(p)
      BY <2>7
    <3>2. p[Reader(n)] = "starting"
      BY <2>2, <2>3
    <3>3. \A t \in Tasks : local[t].reader # n
      BY <2>1 DEF Unused
    <3>4. \A m \in Slots : Reader(m) \in RunningIn(p) =>
             m = n \/ \E t \in Tasks : Detains(p, t) /\ local[t].reader = m
      <4> HIDE DEF p, r
      <4> QED
        BY <1>2, <2>5, <2>7, <2>8, SlotZero DEF Tended, ReadersKnown
    <3> QED
      BY <2>2, <3>1, <3>2, <3>3, <3>4 DEF ReadersKnown
  <2>12. PingsEnded(p)
    <3>1. pingTask = 0 \/ \E t \in Tasks : Detains(p, t)
      <4> HIDE DEF p
      <4> QED
        BY <1>2, <2>8 DEF Tended, ReadersKnown, PingsEnded
    <3>2. \A t \in Tasks : Pausing(p, t) /\ ~ Detains(p, t) => pingTask = 0
      <4> HIDE DEF p
      <4> QED
        BY <2>8 DEF Tended, PingsEnded
    <3>3. \A t \in Tasks : p[t] = "pausePing" => local[t].ping = pingTask
      <4> HIDE DEF p
      <4> QED
        BY <2>3 DEF Tended, PingsEnded
    <3>4. \A m \in Slots : Ping(m) \in RunningIn(p) => pingTask = m
      <4> HIDE DEF p, r
      <4> QED
        BY <2>6, <2>7 DEF Tended, PingsEnded
    <3> QED
      BY <3>1, <3>2, <3>3, <3>4 DEF PingsEnded
  <2> QED
    BY <2>1, <2>2, <2>3, <2>8, <2>9, <2>10, <2>11, <2>12 DEF Tended
<1> QED
  BY <1>1, <1>2

\* A move between places outside of the lock.
LEMMA PlainTended ==
    ASSUME NEW p, NEW rt, Tended(p, rt), DOMAIN p = Tasks, NEW t \in Tasks \ {Closer}, NEW v,
           ~ Past(p, t), v \notin Connecting \ {"lock"}, v # "starting", p[t] # "starting",
           v \notin Ended \/ (t \in Calls), p[t] \notin Ended \/ t \in Calls,
           pc' = [p EXCEPT ![t] = v], readerTask' = rt, authReady' => authReady,
           UNCHANGED <<stopEv, pingTask, local, cancelled>>
    PROVE  Tended(pc, readerTask)'
<1>1. \A u \in Tasks : pc'[u] = IF u = t THEN v ELSE p[u]
  OBVIOUS
<1>2. \A n \in Slots : Reader(n) \in Tasks /\ Ping(n) \in Tasks /\ Reader(n) \notin Calls
                       /\ Ping(n) \notin Calls
  BY Names, Distinct
<1>3. /\ \A n \in Slots : Reader(n) \in RunningIn(pc)' <=> Reader(n) \in RunningIn(p)
      /\ \A n \in Slots : Ping(n) \in RunningIn(pc)' <=> Ping(n) \in RunningIn(p)
  BY <1>1, <1>2 DEF RunningIn, Alive
<1>4. \A u \in Tasks : /\ Past(pc, u)' <=> Past(p, u)
                       /\ Pausing(pc, u)' <=> Pausing(p, u)
                       /\ Detains(pc, u)' <=> Detains(p, u)
  BY <1>1 DEF Past, Pausing, Detains, Connecting
<1>5. \A n \in Slots : pc'[Reader(n)] = "starting" <=> p[Reader(n)] = "starting"
  BY <1>1, <1>2
<1>6. Undisturbed(pc)'
  <2>1. cancelled \subseteq Alive(pc')
    BY <1>1 DEF Tended, Undisturbed, Alive
  <2> QED
    BY <1>1, <2>1, Names DEF Tended, Undisturbed
<1>7. HoldersPause(pc)'
  BY <1>1, <1>4 DEF Tended, HoldersPause, Past
<1>8. ReadersKnown(pc, readerTask)'
  <2>1. rt # 0 => rt \in Slots
    <3>1. rt # 0 => Reader(rt) \in Tasks
      BY DEF Tended, ReadersKnown, RunningIn, Alive
    <3> QED
      BY <3>1 DEF Tasks, Readers, Pings, Calls, Closer, Reader, Ping, Call
  <2> QED
    BY <1>3, <1>4, <1>5, <2>1 DEF Tended, ReadersKnown
<1>9. PingsEnded(pc)'
  BY <1>1, <1>3, <1>4, <1>5 DEF Tended, PingsEnded, Past, Connecting
<1> QED
  BY <1>6, <1>7, <1>8, <1>9 DEF Tended

\* The lock is taken when nobody is past it: the reader is paused, if it is not
\* the reader that takes it.
LEMMA PauseTended ==
    ASSUME NEW p, NEW rt, Tended(p, rt), DOMAIN p = Tasks, rt # 0,
           NEW t \in Tasks \ {Closer}, \A u \in Tasks : ~ Past(p, u),
           t \notin cancelled, p[t] # "starting", p[t] \notin Ended \/ t \in Calls,
           PauseReader(t, p, rt),
           ~ authReady', pingTask \in 0 .. MaxReaders,
           local \in [Tasks -> [reader : 0 .. MaxReaders, ping : 0 .. MaxReaders]],
           UNCHANGED <<stopEv, pingTask>>
    PROVE  Tended(pc, readerTask)'
<1>1. \A u \in Tasks : ~ Pausing(p, u) /\ ~ Detains(p, u) /\ local[u].reader = 0
  BY PausingIsPast DEF Tended, HoldersPause, Pausing
<1>2. Reader(rt) \in RunningIn(p) /\ rt \in Slots
  <2>1. Reader(rt) \in RunningIn(p)
    BY DEF Tended, ReadersKnown
  <2>2. Reader(rt) \in Tasks
    BY <2>1 DEF RunningIn, Alive
  <2> QED
    BY <2>1, <2>2 DEF Tasks, Readers, Pings, Calls, Closer, Reader, Ping, Call
<1>3. \A n \in Slots : Reader(n) \in RunningIn(p) => n = rt
  BY <1>1 DEF Tended, ReadersKnown
<1>4. t \in Readers => t = Reader(rt)
  <2>1. t \in Readers => t \in RunningIn(p)
    BY Distinct DEF RunningIn, Alive
  <2> QED
    BY <1>3, <2>1 DEF Readers
<1>5. PICK v : pc' = [p EXCEPT ![t] = v] /\ v \in Connecting \ {"lock"}
  BY DEF PauseReader, NothingToPause, PauseReaderOnly, PausePing, Connecting
<1>6. /\ pc'[t] = v /\ v \notin Ended /\ v # "starting"
      /\ \A u \in Tasks : u # t => pc'[u] = p[u]
  BY <1>5 DEF Connecting, Ended
<1>7. \A u \in Tasks : u # t => ~ Past(pc, u)' /\ ~ Pausing(pc, u)' /\ ~ Detains(pc, u)'
  BY <1>1, <1>6, PausingIsPast DEF Past, Pausing, Detains, Connecting
<1>8. Alive(p) \subseteq Alive(pc') /\ Alive(pc') \subseteq Alive(p) \cup {t}
  BY <1>6 DEF Alive
<1>9. \A n \in Slots : /\ Reader(n) \in Alive(pc') => Reader(n) \in Alive(p)
                       /\ Ping(n) \in Alive(pc') => Ping(n) \in Alive(p)
  <2>1. t \in Calls \/ t \in Alive(p)
    BY DEF Alive
  <2> QED
    BY <1>8, <2>1, Names, Distinct
<1>10. /\ ~ stopEv' /\ ~ authReady' /\ pc'[Closer] = "none"
       /\ cancelled \subseteq Alive(pc') /\ cancelled \cap Calls = {}
  BY <1>6, <1>8, Names DEF Tended, Undisturbed
<1>11. /\ Reader(rt) \in Tasks /\ Reader(rt) \in Readers /\ Reader(rt) \in Alive(p)
       /\ Reader(rt) \notin cancelled /\ rt # 0 /\ Reader(rt) \notin Calls
  BY <1>2, SlotZero, Distinct DEF RunningIn
<1>12. CASE NothingToPause(t, p, rt)
  <2>1. t = Reader(rt) /\ v = "boot" /\ readerTask' = rt /\ UNCHANGED <<local, cancelled>>
    BY <1>5, <1>6, <1>11, <1>12 DEF NothingToPause, Pausable, Alive, Ended
  <2>2. \A u \in Tasks : ~ Pausing(pc, u)' /\ ~ Detains(pc, u)'
    <3>1. pc'[t] = "boot" /\ local'[t].reader = 0
      BY <1>1, <1>6, <2>1
    <3>2. ~ Pausing(pc, t)' /\ ~ Detains(pc, t)'
      BY <3>1 DEF Pausing, Detains
    <3> QED
      BY <1>7, <3>2
  <2>3. \A n \in Slots : Reader(n) \in RunningIn(pc)' => n = rt
    BY <1>3, <1>9, <2>1 DEF RunningIn
  <2>4. Undisturbed(pc)'
    BY <1>10, <2>1 DEF Undisturbed
  <2>5. HoldersPause(pc)'
    BY <1>1, <1>7, <1>10, <2>1, <2>2 DEF HoldersPause
  <2>6. ReadersKnown(pc, readerTask)'
    BY <1>1, <1>8, <1>11, <2>1, <2>2, <2>3 DEF ReadersKnown, RunningIn
  <2>7. PingsEnded(pc)'
    <3>1. \A n \in Slots : Reader(n) \in RunningIn(pc)' => pc'[Reader(n)] # "starting"
      BY <1>6, <2>1, <2>3
    <3>2. \A n \in Slots : Ping(n) \in RunningIn(pc)' => pingTask = n
      BY <1>9, <2>1 DEF Tended, PingsEnded, RunningIn
    <3> QED
      BY <2>2, <3>1, <3>2 DEF PingsEnded, Detains
  <2> QED
    BY <2>4, <2>5, <2>6, <2>7 DEF Tended
<1>13. ASSUME ToPause(t, p, rt)
       PROVE  /\ t \notin Readers /\ t # Reader(rt) /\ readerTask' = 0
              /\ local'[t].reader = rt /\ local'[t].ping = pingTask
              /\ \A u \in Tasks : u # t => local'[u].reader = 0
  BY <1>1, <1>4, <1>13 DEF ToPause, Pausable
<1>14. CASE PauseReaderOnly(t, p, rt)
  <2>1. v = "pauseReader" /\ pingTask = 0 /\ cancelled' = cancelled \cup {Reader(rt)}
    BY <1>5, <1>6, <1>14 DEF PauseReaderOnly
  <2>2. t \notin cancelled' /\ Pausing(pc, t)' /\ ~ Detains(pc, t)' /\ Past(pc, t)'
    BY <1>5, <1>6, <1>13, <1>14, <2>1 DEF PauseReaderOnly, Pausing, Detains, Past
  <2>3. \A n \in Slots : Reader(n) \notin RunningIn(pc)'
    BY <1>3, <1>9, <2>1 DEF RunningIn
  <2>4. Undisturbed(pc)'
    BY <1>8, <1>10, <1>11, <2>1 DEF Undisturbed
  <2>5. HoldersPause(pc)'
    BY <1>7, <1>10, <1>11, <1>13, <1>14, <2>2 DEF PauseReaderOnly, HoldersPause
  <2>6. ReadersKnown(pc, readerTask)'
    BY <1>13, <1>14, <2>2, <2>3 DEF PauseReaderOnly, ReadersKnown
  <2>7. PingsEnded(pc)'
    <3>1. \A n \in Slots : Ping(n) \in RunningIn(pc)' => pingTask = n
      BY <1>9, <2>1 DEF Tended, PingsEnded, RunningIn
    <3> QED
      BY <1>7, <2>1, <2>2, <2>3, <3>1 DEF PingsEnded, Detains
  <2> QED
    BY <2>4, <2>5, <2>6, <2>7 DEF Tended
<1>15. CASE PausePing(t, p, rt)
  <2>1. /\ v = IF Ping(pingTask) = t THEN "stuck" ELSE "pausePing"
        /\ pingTask \in Slots
        /\ cancelled' = cancelled \cup ({Ping(pingTask)} \cap Alive(p))
    <3>1. pc' = [p EXCEPT ![t] = IF Ping(pingTask) = t THEN "stuck" ELSE "pausePing"]
      BY <1>15 DEF PausePing
    <3>2. pc'[t] = IF Ping(pingTask) = t THEN "stuck" ELSE "pausePing"
      BY <3>1
    <3>3. pingTask \in Slots
      <4>1. pingTask # 0
        BY <1>15 DEF PausePing
      <4> QED
        BY <4>1, ConnectionAssumption DEF Slots
    <3>4. cancelled' = cancelled \cup ({Ping(pingTask)} \cap Alive(p))
      BY <1>15 DEF PausePing
    <3> QED
      BY <1>6, <3>2, <3>3, <3>4
  <2>2. ToPause(t, p, rt)
    BY <1>15 DEF PausePing
  <2>3. /\ Ping(pingTask) \notin Calls /\ \A n \in Slots : Reader(n) # Ping(pingTask)
    BY <2>1, SlotZero, Distinct
  <2>4. Detains(pc, t)' /\ Past(pc, t)'
    BY <1>6, <2>1 DEF Detains, Past, Connecting
  <2>5. pc'[t] # "stuck" => t \notin cancelled'
    BY <1>6, <2>1
  <2>6. Undisturbed(pc)'
    BY <1>8, <1>10, <2>1, <2>3 DEF Undisturbed
  <2>7. HoldersPause(pc)'
    BY <1>7, <1>10, <1>11, <1>13, <2>2, <2>4, <2>5 DEF HoldersPause
  <2>8. ReadersKnown(pc, readerTask)'
    <3>1. \A n \in Slots : Reader(n) \in RunningIn(pc)' => n = rt
      BY <1>3, <1>9, <2>1 DEF RunningIn
    <3> QED
      BY <1>13, <2>2, <2>4, <3>1 DEF ReadersKnown, Pausing
  <2>9. PingsEnded(pc)'
    <3>1. \A n \in Slots : Ping(n) \in RunningIn(pc)' => pingTask = n
      BY <1>9, <2>1 DEF Tended, PingsEnded, RunningIn
    <3>2. \A u \in Tasks : pc'[u] = "pausePing" => u = t
      BY <1>7 DEF Detains
    <3> QED
      BY <1>7, <1>13, <2>2, <2>4, <3>1, <3>2 DEF PingsEnded
  <2> QED
    BY <2>6, <2>7, <2>8, <2>9 DEF Tended
<1> QED
  BY <1>12, <1>14, <1>15 DEF PauseReader

\* Nobody is past the lock, and the reader that is known is the one that runs.
LEMMA SettlesTended ==
    ASSUME ~ stopEv', pc'[Closer] = "none", cancelled' \subseteq Alive(pc'),
           cancelled' \cap Calls = {},
           \A u \in Tasks : ~ Past(pc, u)' /\ local'[u].reader = 0,
           readerTask' # 0, Reader(readerTask') \in RunningIn(pc)',
           \A n \in Slots : Reader(n) \in RunningIn(pc)' => n = readerTask',
           \A n \in Slots : Reader(n) \in RunningIn(pc)' /\ pc'[Reader(n)] = "starting" =>
             pingTask' = 0,
           \A n \in Slots : Ping(n) \in RunningIn(pc)' => pingTask' = n
    PROVE  Tended(pc, readerTask)'
<1>1. \A u \in Tasks : ~ Pausing(pc, u)' /\ ~ Detains(pc, u)' /\ pc'[u] # "pausePing"
  BY DEF Pausing, Detains, Past, Connecting
<1> QED
  BY <1>1 DEF Tended, Undisturbed, HoldersPause, ReadersKnown, PingsEnded, Detains

\* Nobody is past the lock: what is known then.
LEMMA NobodyPast ==
    ASSUME IInv, Tended(pc, readerTask), \A u \in Tasks : ~ Past(pc, u)
    PROVE  /\ readerTask \in Slots /\ Reader(readerTask) \in RunningIn(pc)
           /\ \A n \in Slots : Reader(n) \in RunningIn(pc) => n = readerTask
           /\ \A u \in Tasks : local[u].reader = 0
           /\ \A n \in Slots : Reader(n) \in RunningIn(pc) /\ pc[Reader(n)] = "starting" =>
                 pingTask = 0
<1>1. \A u \in Tasks : ~ Pausing(pc, u) /\ ~ Detains(pc, u)
  BY PausingIsPast DEF Pausing
<1>2. readerTask \in Slots
  BY <1>1 DEF Tended, ReadersKnown, IInv, Rest, Slots
<1> QED
  BY <1>1, <1>2, SlotZero DEF Tended, HoldersPause, ReadersKnown, PingsEnded

LEMMA PingEndedTended ==
    ASSUME IInv, Tended(pc, readerTask), NEW t \in Tasks \ {Closer}, PingEnded(t)
    PROVE  Tended(pc, readerTask)'
<1>1. /\ pc[t] = "pausePing" /\ t \notin cancelled /\ Ping(local[t].ping) \notin Alive(pc)
      /\ pingTask' = 0 /\ UNCHANGED <<local, readerTask, stopEv, authReady>>
      /\ cancelled' = cancelled \cup ({Reader(local[t].reader)} \cap Alive(pc))
  BY DEF PingEnded
<1>2. \A u \in Tasks : pc'[u] = IF u = t THEN "pauseReader" ELSE pc[u]
  BY DEF PingEnded, IInv, Orderly, Typed
<1>3. Alive(pc') = Alive(pc)
  BY <1>1, <1>2 DEF Alive, Ended
<1>4. Past(pc, t) /\ Detains(pc, t) /\ Pausing(pc, t)
  BY <1>1 DEF Past, Detains, Pausing, Connecting
<1>5. local[t].reader # 0 /\ t \notin Readers /\ ~ authReady
  BY <1>4 DEF Tended, HoldersPause
<1>6. \A u \in Tasks : u # t => ~ Past(pc, u) /\ ~ Detains(pc, u) /\ ~ Pausing(pc, u)
                                /\ local[u].reader = 0
  BY <1>4, OnePast, PausingIsPast DEF IInv, Orderly, Tended, HoldersPause, Pausing
<1>7. Past(pc, t)' /\ ~ Detains(pc, t)' /\ Pausing(pc, t)'
  BY <1>2 DEF Past, Detains, Pausing, Connecting
<1>8. \A u \in Tasks : u # t => ~ Past(pc, u)' /\ ~ Detains(pc, u)' /\ ~ Pausing(pc, u)'
  BY <1>1, <1>2, <1>6 DEF Past, Detains, Pausing
<1>9. local[t].reader \in Slots /\ local[t].reader # readerTask
  BY <1>5 DEF Tended, ReadersKnown, IInv, Rest, Slots
<1>10. /\ \A n \in Slots : Reader(n) # t
       /\ \A m, n \in Slots : Reader(m) = Reader(n) => m = n
       /\ \A m, n \in Slots : Ping(m) # Reader(n)
       /\ \A n \in Slots : Reader(n) \notin Calls
  BY <1>5, SlotZero, Distinct
<1>11. Undisturbed(pc)'
  <2>1. pc'[Closer] = pc[Closer]
    BY <1>2, Names
  <2> QED
    BY <1>1, <1>3, <1>9, <1>10, <2>1 DEF Tended, Undisturbed
<1>12. HoldersPause(pc)'
  BY <1>1, <1>5, <1>6, <1>7, <1>8, <1>9, <1>10 DEF HoldersPause
<1>13. ReadersKnown(pc, readerTask)'
  <2>1. readerTask # 0 => Reader(readerTask) \in RunningIn(pc)'
    BY <1>1, <1>3, <1>9, <1>10 DEF Tended, ReadersKnown, RunningIn, IInv, Rest, Slots
  <2>2. readerTask = 0 \/ pc'[Reader(readerTask)] = "starting"
    <3>1. readerTask = 0 \/ pc[Reader(readerTask)] = "starting"
      BY <1>4 DEF Tended, ReadersKnown
    <3>2. readerTask # 0 => Reader(readerTask) \in Tasks
      BY DEF Tended, ReadersKnown, RunningIn, Alive
    <3> QED
      BY <1>1, <1>2, <3>1, <3>2
  <2>3. \A n \in Slots : Reader(n) \in RunningIn(pc)' => n = readerTask
    BY <1>1, <1>3, <1>6, <1>9 DEF Tended, ReadersKnown, RunningIn
  <2> QED
    BY <1>1, <1>6, <1>7, <1>8, <1>9, <2>1, <2>2, <2>3 DEF ReadersKnown
<1>14. PingsEnded(pc)'
  <2>1. \A n \in Slots : Ping(n) \in RunningIn(pc)' => Ping(n) \in RunningIn(pc)
    BY <1>1, <1>3 DEF RunningIn
  <2>2. \A n \in Slots : Ping(n) \notin RunningIn(pc)
    BY <1>1 DEF Tended, PingsEnded, RunningIn
  <2> QED
    BY <1>1, <1>2, <1>7, <1>8, <2>1, <2>2 DEF PingsEnded, Detains
<1> QED
  BY <1>11, <1>12, <1>13, <1>14 DEF Tended

LEMMA ReaderEndedTended ==
    ASSUME IInv, Tended(pc, readerTask), NEW t \in Tasks \ {Closer}, ReaderEnded(t)
    PROVE  Tended(pc, readerTask)'
<1>1. /\ pc[t] = "pauseReader" /\ t \notin cancelled
      /\ UNCHANGED <<local, readerTask, pingTask, cancelled, stopEv, authReady>>
  BY DEF ReaderEnded
<1>2. \A u \in Tasks : pc'[u] = IF u = t THEN "boot" ELSE pc[u]
  BY DEF ReaderEnded, IInv, Orderly, Typed
<1>3. Alive(pc') = Alive(pc)
  BY <1>1, <1>2 DEF Alive, Ended
<1>4. Past(pc, t) /\ ~ Detains(pc, t) /\ Pausing(pc, t)
  BY <1>1 DEF Past, Detains, Pausing, Connecting
<1>5. local[t].reader # 0
  BY <1>4 DEF Tended, HoldersPause
<1>6. \A u \in Tasks : /\ Past(pc, u)' <=> Past(pc, u)
                       /\ Detains(pc, u)' <=> Detains(pc, u)
                       /\ Pausing(pc, u)' <=> Pausing(pc, u)
                       /\ (pc'[u] = "stuck" <=> pc[u] = "stuck")
                       /\ (pc'[u] = "starting" <=> pc[u] = "starting")
                       /\ (pc'[u] = "pausePing" <=> pc[u] = "pausePing")
  BY <1>1, <1>2, <1>4, <1>5 DEF Past, Detains, Pausing, Connecting
<1>7. RunningIn(pc)' = RunningIn(pc)
  BY <1>1, <1>3 DEF RunningIn
<1>8. Undisturbed(pc)'
  <2>1. pc'[Closer] = pc[Closer]
    BY <1>2, Names
  <2> QED
    BY <1>1, <1>3, <2>1 DEF Tended, Undisturbed
<1>9. HoldersPause(pc)'
  BY <1>1, <1>6 DEF Tended, HoldersPause
<1>10. ReadersKnown(pc, readerTask)'
  <2>1. readerTask # 0 => Reader(readerTask) \in Tasks
    BY DEF Tended, ReadersKnown, RunningIn, Alive
  <2> QED
    BY <1>1, <1>6, <1>7, <2>1 DEF Tended, ReadersKnown
<1>11. PingsEnded(pc)'
  BY <1>1, <1>6, <1>7, SlotZero DEF Tended, PingsEnded
<1> QED
  BY <1>8, <1>9, <1>10, <1>11 DEF Tended

\* The attempt to connect ends: the reader that was paused is replaced, unless
\* somebody has done so.
LEMMA BootTended ==
    ASSUME IInv, Tended(pc, readerTask), NEW t \in Tasks \ {Closer}, BootDone(t) \/ BootFails(t)
    PROVE  Tended(pc, readerTask)'
<1>1. /\ pc[t] = "boot" /\ t \notin cancelled /\ Forget(t) /\ UNCHANGED <<pingTask, cancelled>>
  BY DEF BootDone, BootFails
<1>2. Past(pc, t) /\ ~ Detains(pc, t) /\ ~ stopEv
  BY <1>1 DEF Past, Detains, Connecting, Tended, Undisturbed
<1>3. \A u \in Tasks : u # t => ~ Past(pc, u) /\ ~ Detains(pc, u) /\ ~ Pausing(pc, u)
                                /\ local[u].reader = 0
  BY <1>2, OnePast, PausingIsPast DEF IInv, Orderly, Tended, HoldersPause, Pausing
<1>4. \A u \in Tasks : local'[u].reader = 0
  BY <1>1, <1>3 DEF Forget, Nobody, IInv, Rest
<1>5. stopEv' = FALSE
  <2>1. stopEv = FALSE
    BY <1>2 DEF IInv, Rest
  <2> QED
    BY <2>1 DEF BootDone, BootFails, Resume, StopAfter
<1>6. PICK w : /\ Resume(t, [pc EXCEPT ![t] = w])
               /\ w \in {"backoff", "reading", "sleep", "waiting"} \/ (w = "done" /\ t \in Calls)
  <2>1. AfterConnect \in {"backoff", "reading"}
    BY <1>5 DEF AfterConnect
  <2>2. AfterRequest(t) = "sleep" \/ (AfterRequest(t) = "done" /\ (t \in Calls \/ t \in Readers))
    BY <1>5, Kinds DEF AfterRequest
  <2> QED
    BY <2>1, <2>2 DEF BootDone, BootFails
<1> DEFINE q == [pc EXCEPT ![t] = w]
<1>7. \A u \in Tasks : q[u] = IF u = t THEN w ELSE pc[u]
  BY DEF IInv, Orderly, Typed
<1>8. \A n \in Slots : /\ Reader(n) \in Tasks /\ Ping(n) \in Tasks
                       /\ Reader(n) \notin Calls /\ Ping(n) \notin Calls
                       /\ \A m \in Slots : Ping(m) # Reader(n) /\ (Reader(m) = Reader(n) => m = n)
  BY SlotZero, Distinct
<1>9. w \notin Connecting \ {"lock"} /\ w # "starting"
  BY <1>6 DEF Connecting
<1>10. /\ \A n \in Slots : Reader(n) \in Alive(q) <=> Reader(n) \in Alive(pc)
       /\ \A n \in Slots : Ping(n) \in Alive(q) <=> Ping(n) \in Alive(pc)
       /\ cancelled \subseteq Alive(q)
       /\ \A u \in Tasks : ~ Past(q, u)
       /\ q[Closer] = "none"
  <2>1. t \in Calls \/ (w \notin Ended /\ t \in Alive(pc))
    BY <1>1, <1>6 DEF Ended, Alive
  <2>2. cancelled \subseteq Alive(pc) /\ pc[Closer] = "none"
    BY DEF Tended, Undisturbed
  <2> HIDE DEF q
  <2> QED
    BY <1>1, <1>3, <1>7, <1>8, <1>9, <2>1, <2>2, Names DEF Alive, Past
<1>11. \A n \in Slots : Reader(n) \in RunningIn(pc) => n = readerTask
  BY <1>2, <1>3 DEF Tended, ReadersKnown
<1>12. \A n \in Slots : Ping(n) \in RunningIn(pc) => pingTask = n
  BY DEF Tended, PingsEnded
<1>13. readerTask # 0 => readerTask \in Slots /\ Reader(readerTask) \in RunningIn(pc)
  BY DEF Tended, ReadersKnown, IInv, Rest, Slots
<1>14. \A n \in Slots : Reader(n) \in RunningIn(pc) /\ pc[Reader(n)] = "starting" => pingTask = 0
  BY <1>2, <1>3 DEF Tended, PingsEnded
<1>15. cancelled \cap Calls = {}
  BY DEF Tended, Undisturbed
<1>16. CASE pc' = q /\ readerTask' = readerTask /\ readerTask # 0
  <2> HIDE DEF q
  <2>1. \A n \in Slots : q[Reader(n)] = "starting" => pc[Reader(n)] = "starting"
    BY <1>7, <1>8, <1>9
  <2> QED
    BY <1>1, <1>4, <1>5, <1>10, <1>11, <1>12, <1>13, <1>14, <1>15, <1>16, <2>1, SettlesTended
       DEF RunningIn
<1>17. CASE local[t].reader = 0
  <2>1. ~ Pausing(pc, t)
    BY <1>1, <1>17 DEF Pausing, Detains
  <2>2. readerTask # 0
    BY <1>3, <2>1 DEF Tended, ReadersKnown
  <2> QED
    BY <1>6, <1>16, <1>17, <2>2 DEF Resume
<1>18. CASE local[t].reader # 0
  <2>1. pingTask = 0
    BY <1>1, <1>2, <1>18 DEF Pausing, Tended, PingsEnded
  <2>2. Room(q, readerTask) /\ readerTask' = ReaderFor(q, readerTask)
        /\ pc' = Spawned(q, readerTask)
    BY <1>6, <1>18 DEF Resume
  <2>3. CASE readerTask # 0
    <3>1. q[Reader(readerTask)] # "done"
      BY <1>8, <1>10, <1>13, <2>3 DEF RunningIn, Alive, Ended
    <3> QED
      BY <1>16, <2>2, <2>3, <3>1 DEF Spawned, ReaderFor, NeedsReader
  <2>4. CASE readerTask = 0
    <3> HIDE DEF q
    <3>1. PICK n \in Slots : /\ Free(q, n) /\ readerTask' = n
                             /\ pc' = [q EXCEPT ![Reader(n)] = "starting"]
      BY <2>2, <2>4, SpawnStep DEF NeedsReader
    <3>2. DOMAIN q = Tasks
      BY DEF q, IInv, Orderly, Typed
    <3> DEFINE r == Reader(n)
    <3>3. r \notin Alive(q) /\ r \notin cancelled /\ n # 0 /\ r \in Tasks /\ r # Closer
          /\ r \notin Calls
      BY <1>10, <3>1, SlotZero, Distinct DEF Free
    <3>4. \A u \in Tasks : pc'[u] = IF u = r THEN "starting" ELSE q[u]
      BY <3>1, <3>2
    <3>5. \A m \in Slots : (Reader(m) = r => m = n) /\ Ping(m) # r
      BY <1>8
    <3>6. \A m \in Slots : Reader(m) \notin RunningIn(pc)
      BY <1>11, <2>4, SlotZero
    <3>7. r = Reader(n)
      OBVIOUS
    <3> HIDE DEF r
    <3>8. Alive(pc') = Alive(q) \cup {r}
      BY <3>3, <3>4, Apart DEF Alive
    <3>9. \A m \in Slots : /\ Reader(m) \in RunningIn(pc)' => m = readerTask'
                           /\ Ping(m) \in RunningIn(pc)' => pingTask = m
      BY <1>1, <1>10, <1>12, <3>1, <3>5, <3>6, <3>8 DEF RunningIn
    <3>10. \A u \in Tasks : ~ Past(pc, u)'
      BY <1>10, <3>4 DEF Past, Connecting
    <3>11. Reader(readerTask') \in RunningIn(pc)' /\ readerTask' # 0
      BY <1>1, <3>1, <3>3, <3>7, <3>8 DEF RunningIn
    <3>12. pc'[Closer] = "none" /\ cancelled' \subseteq Alive(pc') /\ pingTask' = 0
      BY <1>1, <1>10, <2>1, <3>3, <3>4, <3>8, Names
    <3> QED
      BY <1>1, <1>4, <1>5, <1>15, <2>1, <3>9, <3>10, <3>11, <3>12, SettlesTended
  <2> QED
    BY <2>3, <2>4
<1> QED
  BY <1>17, <1>18

\* Who is cancelled and ends is not past the lock, and no reader that is known.
LEMMA UnwindTended ==
    ASSUME IInv, Tended(pc, readerTask), NEW t \in Tasks \ {Closer}, Unwind(t)
    PROVE  Tended(pc, readerTask)'
<1>1. t \in cancelled /\ ~ Past(pc, t) /\ pc[t] # "boot"
  BY DEF Unwind, Tended, HoldersPause, Past, Connecting
<1>2. /\ cancelled' = cancelled \ {t} /\ Forget(t)
      /\ UNCHANGED <<readerTask, stopEv, pingTask, authReady>>
  BY <1>1 DEF Unwind
<1>3. \A u \in Tasks : pc'[u] = IF u = t THEN "done" ELSE pc[u]
  BY <1>1 DEF Unwind, IInv, Orderly, Typed
<1>4. local[t].reader = 0 /\ local'[t].reader = 0
      /\ \A u \in Tasks : u # t => local'[u] = local[u]
  BY <1>1, <1>2 DEF Tended, HoldersPause, Forget, Nobody, IInv, Rest
<1>5. \A u \in Tasks : /\ Past(pc, u)' <=> Past(pc, u)
                       /\ Detains(pc, u)' <=> Detains(pc, u)
                       /\ Pausing(pc, u)' <=> Pausing(pc, u)
                       /\ local'[u].reader = local[u].reader
                       /\ (pc'[u] = "starting" => pc[u] = "starting")
                       /\ (pc'[u] = "pausePing" <=> pc[u] = "pausePing")
                       /\ (pc'[u] = "stuck" <=> pc[u] = "stuck")
  BY <1>1, <1>3, <1>4 DEF Past, Detains, Pausing, Connecting
<1>6. RunningIn(pc)' = RunningIn(pc) /\ Alive(pc') = Alive(pc) \ {t}
  BY <1>1, <1>2, <1>3 DEF RunningIn, Alive, Ended
<1>7. Undisturbed(pc)'
  <2>1. pc'[Closer] = pc[Closer]
    BY <1>3, Names
  <2> QED
    BY <1>2, <1>6, <2>1 DEF Tended, Undisturbed
<1>8. HoldersPause(pc)'
  BY <1>2, <1>5 DEF Tended, HoldersPause
<1>9. ReadersKnown(pc, readerTask)'
  <2>1. readerTask # 0 => Reader(readerTask) \in Tasks /\ Reader(readerTask) # t
    BY <1>1 DEF Tended, ReadersKnown, RunningIn, Alive
  <2>2. readerTask = 0 \/ pc'[Reader(readerTask)] = pc[Reader(readerTask)]
    BY <1>3, <2>1
  <2> QED
    BY <1>2, <1>5, <1>6, <2>2 DEF Tended, ReadersKnown
<1>10. PingsEnded(pc)'
  <2>1. \A u \in Tasks : pc'[u] = "pausePing" => local'[u].ping = pingTask
    BY <1>1, <1>4, <1>5 DEF Tended, PingsEnded, Past, Connecting
  <2> QED
    BY <1>2, <1>5, <1>6, <2>1, SlotZero DEF Tended, PingsEnded
<1> QED
  BY <1>7, <1>8, <1>9, <1>10 DEF Tended

\* A reader begins while requests are let through: it is the one that is known,
\* and there is no keepalive.
LEMMA ReaderStartsTended ==
    ASSUME IInv, Tended(pc, readerTask), NEW n \in Slots, ReaderStarts(n)
    PROVE  Tended(pc, readerTask)'
<1>1. /\ pc[Reader(n)] = "starting" /\ Reader(n) \notin cancelled /\ authReady
      /\ pingTask' = n /\ UNCHANGED <<authReady, stopEv, readerTask, local, cancelled>>
  BY DEF ReaderStarts
<1>2. /\ \A u \in Tasks : ~ Past(pc, u)
      /\ ~ stopEv /\ pc[Closer] = "none" /\ cancelled \subseteq Alive(pc)
      /\ cancelled \cap Calls = {}
  BY <1>1 DEF Tended, HoldersPause, Undisturbed
<1>3. /\ Reader(n) \in Tasks /\ Ping(n) \in Tasks /\ Reader(n) # Ping(n)
      /\ Closer \in Tasks /\ Closer \notin {Reader(n), Ping(n)}
  BY Names, Distinct
<1>4. \A u \in Tasks : pc'[u] = IF u = Ping(n) THEN "sleep"
                                ELSE IF u = Reader(n) THEN "reading" ELSE pc[u]
  BY <1>2, <1>3 DEF ReaderStarts, IInv, Orderly, Typed
<1>5. Reader(n) \in RunningIn(pc)
  BY <1>1, <1>3, Apart DEF RunningIn, Alive
<1>6. /\ n = readerTask /\ pingTask = 0 /\ n # 0
      /\ \A m \in Slots : Reader(m) \in RunningIn(pc) => m = readerTask
      /\ \A u \in Tasks : local[u].reader = 0
  BY <1>1, <1>2, <1>5, NobodyPast, SlotZero
<1>7. Alive(pc') = Alive(pc) \cup {Reader(n), Ping(n)}
  BY <1>3, <1>4, <1>5 DEF Alive, Ended, RunningIn
<1>8. \A m \in Slots : /\ Reader(m) # Ping(n) /\ (Reader(m) = Reader(n) => m = n)
                       /\ Ping(m) # Reader(n) /\ (Ping(m) = Ping(n) => m = n)
                       /\ Reader(m) \in Tasks /\ Ping(m) \in Tasks
  BY Names, Distinct
<1>9. \A m \in Slots : Ping(m) \notin RunningIn(pc)
  BY <1>6, SlotZero DEF Tended, PingsEnded
<1>10. \A m \in Slots : /\ Reader(m) \in RunningIn(pc)' => m = n
                        /\ Ping(m) \in RunningIn(pc)' => m = n
  BY <1>1, <1>6, <1>7, <1>8, <1>9 DEF RunningIn
<1>11. pc'[Reader(n)] # "starting" /\ Reader(n) \in RunningIn(pc)'
  BY <1>1, <1>3, <1>4, <1>7 DEF RunningIn
<1>12. \A u \in Tasks : ~ Past(pc, u)'
  BY <1>2, <1>4 DEF Past, Connecting
<1>13. pc'[Closer] = "none" /\ cancelled' \subseteq Alive(pc')
  BY <1>1, <1>2, <1>3, <1>4, <1>7
<1> QED
  BY <1>1, <1>2, <1>6, <1>10, <1>11, <1>12, <1>13, SettlesTended

\* The lock is free: its holder pauses the reader, or finds that another task
\* has connected.
LEMMA LockGrantedTended ==
    ASSUME IInv, Tended(pc, readerTask), NEW t \in Tasks \ {Closer}, LockGranted(t)
    PROVE  Tended(pc, readerTask)'
<1>1. /\ pc[t] = "lock" /\ t \notin cancelled /\ Head(authLock) = t
      /\ UNCHANGED <<authReady, stopEv, pingTask>>
  BY DEF LockGranted, Granted
<1>2. ~ stopEv /\ stopEv' = FALSE /\ DOMAIN pc = Tasks
  BY <1>1 DEF Tended, Undisturbed, IInv, Rest, Orderly, Typed
<1>3. \A u \in Tasks : ~ Past(pc, u)
  BY <1>1 DEF IInv, Orderly, FirstConnects, Past
<1>4. /\ pc[t] \notin Ended /\ pc[t] # "starting"
  BY <1>1 DEF Ended
<1>5. CASE /\ IF t \in Readers THEN pc' = [pc EXCEPT ![t] = AfterConnect] ELSE Write(t, pc)
           /\ UNCHANGED <<readerTask, local, cancelled>>
  <2>1. AfterConnect \in {"backoff", "reading"}
    BY <1>2 DEF AfterConnect
  <2>2. AfterRequest(t) = "sleep" \/ (AfterRequest(t) = "done" /\ (t \in Calls \/ t \in Readers))
    BY <1>2, Kinds DEF AfterRequest
  <2>3. PICK v : /\ pc' = [pc EXCEPT ![t] = v]
                 /\ v \in {"backoff", "reading", "sleep", "waiting"} \/ (v = "done" /\ t \in Calls)
    BY <1>5, <2>1, <2>2 DEF Write
  <2>4. v \notin Connecting \ {"lock"} /\ v # "starting" /\ (v \notin Ended \/ t \in Calls)
    BY <2>3 DEF Connecting, Ended
  <2> QED
    BY <1>1, <1>2, <1>3, <1>4, <1>5, <2>3, <2>4, PlainTended
<1>6. CASE ~ authReady /\ PauseReader(t, pc, readerTask)
  <2>1. readerTask # 0
    BY <1>3, NobodyPast, SlotZero
  <2> QED
    BY <1>1, <1>2, <1>3, <1>4, <1>6, <2>1, PauseTended DEF IInv, Rest
<1> QED
  BY <1>5, <1>6 DEF LockGranted

\* A request finds a reader or starts one, and then waits for the lock, pauses
\* the reader or writes.
LEMMA RequestTended ==
    ASSUME IInv, Tended(pc, readerTask), NEW t \in Pings \cup Calls, Request(t),
           t \notin cancelled, pc[t] = "sleep" \/ (pc[t] = "none" /\ t \in Calls)
    PROVE  Tended(pc, readerTask)'
<1> DEFINE p == Spawned(pc, readerTask)
           rt == ReaderFor(pc, readerTask)
<1>1. /\ Room(pc, readerTask) /\ stopEv' = StopAfter(pc, readerTask)
      /\ UNCHANGED <<authReady, pingTask>>
  BY DEF Request
<1>2. ~ stopEv /\ stopEv' = FALSE
  BY <1>1 DEF Tended, Undisturbed, StopAfter
<1>3. UNCHANGED stopEv
  BY <1>2 DEF IInv, Rest
<1>4. t \in Tasks \ {Closer} /\ t \notin Readers
  BY Kinds, Distinct
<1>5. /\ Tended(p, rt) /\ rt # 0 /\ DOMAIN p = Tasks
      /\ \A u \in Tasks : Past(p, u) <=> Past(pc, u)
      /\ p[t] = pc[t]
  BY <1>1, <1>4, SpawnTended
<1>6. p[t] # "starting" /\ ~ Past(p, t) /\ (p[t] \notin Ended \/ t \in Calls)
  BY <1>5 DEF Past, Connecting, Ended
<1> HIDE DEF p, rt
<1>7. ASSUME NEW v \in {"sleep", "waiting", "done", "lock"}, v # "done" \/ t \in Calls,
             pc' = [p EXCEPT ![t] = v], readerTask' = rt, UNCHANGED <<local, cancelled>>
      PROVE  Tended(pc, readerTask)'
  <2>1. v \notin Connecting \ {"lock"} /\ v # "starting" /\ (v \notin Ended \/ t \in Calls)
    BY <1>7 DEF Connecting, Ended
  <2> QED
    BY <1>1, <1>3, <1>4, <1>5, <1>6, <1>7, <2>1, PlainTended
<1>8. CASE Write(t, p) /\ readerTask' = rt /\ UNCHANGED <<local, cancelled>>
  <2>1. AfterRequest(t) = "sleep" \/ (AfterRequest(t) = "done" /\ t \in Calls)
    BY <1>2 DEF AfterRequest
  <2> QED
    BY <1>7, <1>8, <2>1 DEF Write
<1>9. CASE ~ authReady /\ EnterLock(t, p, rt)
  <2>1. CASE authLock = << >>
    <3>1. \A u \in Tasks : ~ Past(p, u)
      BY <1>5, <2>1 DEF IInv, Orderly, FirstConnects, Past
    <3> QED
      BY <1>1, <1>3, <1>4, <1>5, <1>6, <1>9, <2>1, <3>1, PauseTended DEF EnterLock, IInv, Rest
  <2>2. CASE authLock # << >>
    BY <1>7, <1>9, <2>2 DEF EnterLock
  <2> QED
    BY <2>1, <2>2
<1> QED
  BY <1>8, <1>9 DEF Request, p, rt

LEMMA ReaderStepTended ==
    ASSUME IInv, Tended(pc, readerTask), NEW n \in Slots, ReaderStep(n)
    PROVE  Tended(pc, readerTask)'
<1> DEFINE t == Reader(n)
<1>1. t \in Tasks \ {Closer} /\ DOMAIN pc = Tasks
  BY Names, Distinct DEF IInv, Orderly, Typed
<1>2. ~ stopEv
  BY DEF Tended, Undisturbed
<1> HIDE DEF t
<1>3. ASSUME pc[t] \in {"reading", "nap", "backoff"}, NEW v \in {"reading", "nap", "backoff", "lock"},
             pc' = [pc EXCEPT ![t] = v], authReady' => authReady,
             UNCHANGED <<readerTask, stopEv, pingTask, local, cancelled>>
      PROVE  Tended(pc, readerTask)'
  <2>1. /\ v \notin Connecting \ {"lock"} /\ v # "starting" /\ v \notin Ended
        /\ ~ Past(pc, t) /\ pc[t] # "starting" /\ pc[t] \notin Ended
    BY <1>3 DEF Past, Connecting, Ended
  <2> QED
    BY <1>1, <1>3, <2>1, PlainTended
<1>4. CASE ReaderLosesPeer(n) \/ ReaderNaps(n) \/ NapOver(n)
  BY <1>2, <1>3, <1>4 DEF ReaderLosesPeer, ReaderNaps, NapOver, t
<1>5. CASE ReaderReconnects(n)
  <2>1. /\ pc[t] = "backoff" /\ t \notin cancelled /\ authReady' = FALSE
        /\ EnterLock(t, pc, readerTask) /\ UNCHANGED <<stopEv, pingTask>>
    BY <1>2, <1>5 DEF ReaderReconnects, t
  <2>2. CASE authLock # << >>
    BY <1>3, <2>1, <2>2 DEF EnterLock
  <2>3. CASE authLock = << >>
    <3>1. \A u \in Tasks : ~ Past(pc, u)
      BY <2>3 DEF IInv, Orderly, FirstConnects, Past
    <3>2. readerTask # 0
      BY <3>1, NobodyPast, SlotZero
    <3>3. pc[t] # "starting" /\ pc[t] \notin Ended /\ PauseReader(t, pc, readerTask)
      BY <2>1, <2>3 DEF EnterLock, Ended
    <3> QED
      BY <1>1, <2>1, <3>1, <3>2, <3>3, PauseTended DEF IInv, Rest
  <2> QED
    BY <2>2, <2>3
<1> QED
  BY <1>4, <1>5, ReaderStartsTended DEF ReaderStep

\* Nobody closes the client and no request is cancelled.
LEMMA NextKeepsTended ==
    ASSUME Cancellable = {}, MayClose = FALSE
    PROVE  IInv /\ Tended(pc, readerTask) /\ [Next]_vars => Tended(pc, readerTask)'
<1> SUFFICES ASSUME IInv, Tended(pc, readerTask), [Next]_vars
             PROVE  Tended(pc, readerTask)'
  OBVIOUS
<1>1. DOMAIN pc = Tasks /\ ~ stopEv /\ pc[Closer] = "none" /\ cancelled \cap Calls = {}
  BY DEF IInv, Orderly, Typed, Tended, Undisturbed
<1>2. ASSUME UNCHANGED <<authReady, stopEv, readerTask, pingTask, pc, local, cancelled>>
      PROVE  Tended(pc, readerTask)'
  BY <1>2 DEF Tended, Undisturbed, HoldersPause, ReadersKnown, PingsEnded, Past, Pausing,
              Detains, RunningIn, Alive
<1>3. ASSUME NEW t \in Tasks \ {Closer}, RequestReturns(t) PROVE Tended(pc, readerTask)'
  <2>1. /\ pc[t] = "waiting" /\ pc' = [pc EXCEPT ![t] = AfterRequest(t)]
        /\ UNCHANGED <<authReady, stopEv, readerTask, pingTask, local, cancelled>>
    BY <1>3 DEF RequestReturns
  <2>2. t \notin Readers
    BY <2>1, Strings DEF IInv, Orderly, Typed, Fits, ReaderPlaces, Ended, Connecting
  <2>3. AfterRequest(t) = "sleep" \/ (AfterRequest(t) = "done" /\ t \in Calls)
    BY <1>1, <2>1, <2>2, Kinds DEF AfterRequest
  <2>4. /\ ~ Past(pc, t) /\ pc[t] # "starting" /\ pc[t] \notin Ended
        /\ AfterRequest(t) \notin Connecting \ {"lock"} /\ AfterRequest(t) # "starting"
        /\ AfterRequest(t) \notin Ended \/ t \in Calls
    BY <2>1, <2>3 DEF Past, Connecting, Ended
  <2> QED
    BY <1>1, <2>1, <2>4, PlainTended
<1>4. ASSUME NEW t \in Tasks \ {Closer}, Connect(t) PROVE Tended(pc, readerTask)'
  BY <1>4, LockGrantedTended, PingEndedTended, ReaderEndedTended, BootTended DEF Connect
<1>5. ASSUME NEW n \in Slots, PingFires(n) PROVE Tended(pc, readerTask)'
  <2>1. Ping(n) \in Pings
    BY Names
  <2> QED
    BY <1>1, <1>5, <2>1, RequestTended DEF PingFires
<1>6. ASSUME NEW c \in Callers, CallStarts(c) PROVE Tended(pc, readerTask)'
  <2>1. Call(c) \in Calls
    BY Names
  <2> QED
    BY <1>1, <1>6, <2>1, RequestTended DEF CallStarts
<1>7. \A c \in Callers : ~ CancelCall(c)
  BY DEF CancelCall
<1>8. ~ CloseStarts /\ ~ CloseStep
  BY <1>1 DEF CloseStarts, CloseStep, ClosePingEnded, CloseReaderEnded
<1>9. \A kind \in LossKinds : PeerLost(kind) => Tended(pc, readerTask)'
  BY <1>2 DEF PeerLost
<1> QED
  BY <1>2, <1>3, <1>4, <1>5, <1>6, <1>7, <1>8, <1>9, UnwindTended, ReaderStepTended
     DEF Next, vars

LEMMA InitTended == Init => Tended(pc, readerTask)
<1> SUFFICES ASSUME Init PROVE Tended(pc, readerTask)
  OBVIOUS
<1>1. 1 \in Slots
  BY ConnectionAssumption DEF Slots
<1>2. /\ Reader(1) \in Tasks /\ Ping(1) \in Tasks /\ Closer \in Tasks
      /\ Closer \notin {Reader(1), Ping(1)} /\ Reader(1) # Ping(1)
  BY <1>1, Names, Distinct
<1>3. /\ pc[Reader(1)] = "reading" /\ pc[Ping(1)] = "sleep"
      /\ \A u \in Tasks : u \notin {Reader(1), Ping(1)} => pc[u] = "none"
      /\ \A u \in Tasks : local[u].reader = 0
      /\ readerTask = 1 /\ pingTask = 1 /\ cancelled = {} /\ stopEv = FALSE
  BY <1>2 DEF Init, Nobody
<1>4. \A u \in Tasks : ~ Past(pc, u) /\ ~ Pausing(pc, u) /\ ~ Detains(pc, u)
                       /\ pc[u] # "starting" /\ pc[u] # "pausePing"
  BY <1>3 DEF Past, Pausing, Detains, Connecting
<1>5. RunningIn(pc) = {Reader(1), Ping(1)}
  BY <1>2, <1>3 DEF RunningIn, Alive, Ended
<1>6. \A n \in Slots : /\ Reader(n) \in RunningIn(pc) => n = 1
                       /\ Ping(n) \in RunningIn(pc) => n = 1
  BY <1>1, <1>5, Distinct
<1> QED
  BY <1>2, <1>3, <1>4, <1>5, <1>6, SlotZero
     DEF Tended, Undisturbed, HoldersPause, ReadersKnown, PingsEnded

LEMMA TendedIsKept ==
    ASSUME Cancellable = {}, MayClose = FALSE
    PROVE  Spec => [](IInv /\ Tended(pc, readerTask))
<1>1. Init => IInv /\ Tended(pc, readerTask)
  BY InitConnection, InitTended
<1>2. IInv /\ Tended(pc, readerTask) /\ [Next]_vars => (IInv /\ Tended(pc, readerTask))'
  BY NextKeeps, NextKeepsTended
<1> QED
  BY <1>1, <1>2, PTL DEF Spec

LEMMA ReadersAreTended ==
    ASSUME IInv, Tended(pc, readerTask)
    PROVE  OneReads /\ PingsKnown /\ SomebodyReads
<1>1. RunningIn(pc) = Running
  BY DEF RunningIn, Running
<1>2. PingsKnown
  BY <1>1 DEF Tended, PingsEnded, PingsKnown
<1>3. SomebodyReads
  <2> SUFFICES ASSUME authReady PROVE \E n \in Slots : Reader(n) \in Running
    BY DEF SomebodyReads
  <2>1. \A u \in Tasks : ~ Past(pc, u)
    BY DEF Tended, HoldersPause
  <2> QED
    BY <1>1, <2>1, NobodyPast
\* A reader that is not the one that is known is about to be paused by a task
\* past the lock, and the known one has not begun.
<1>4. OneReads
  <2> SUFFICES ASSUME NEW m \in Slots, NEW n \in Slots, Reading(m), Reading(n)
               PROVE  m = n
    BY DEF OneReads
  <2>1. /\ m = readerTask \/ \E t \in Tasks : Detains(pc, t) /\ local[t].reader = m
        /\ n = readerTask \/ \E t \in Tasks : Detains(pc, t) /\ local[t].reader = n
    BY <1>1 DEF Reading, Tended, ReadersKnown
  <2>2. \A t \in Tasks : Detains(pc, t) => readerTask \notin {m, n}
    BY SlotZero DEF Reading, Tended, ReadersKnown, Pausing
  <2>3. \A t, u \in Tasks : Detains(pc, t) /\ Detains(pc, u) => t = u
    BY OnePast, PausingIsPast DEF Pausing, IInv, Orderly
  <2> QED
    BY <2>1, <2>2, <2>3
<1> QED
  BY <1>2, <1>3, <1>4

\* While nobody closes the client or cancels a request: two readers never read
\* the connection, for any number of requests that reconnect at the same time.
THEOREM ReadersNeverMeet ==
    ASSUME Cancellable = {}, MayClose = FALSE PROVE Spec => []OneReads
BY TendedIsKept, ReadersAreTended, PTL

\* In the same histories no keepalive is forgotten while it runs.
THEOREM NoPingIsForgotten ==
    ASSUME Cancellable = {}, MayClose = FALSE PROVE Spec => []PingsKnown
BY TendedIsKept, ReadersAreTended, PTL

\* In the same histories the answers to the requests that are let through find a
\* reader.
THEOREM AnswersFindAReader ==
    ASSUME Cancellable = {}, MayClose = FALSE PROVE Spec => []SomebodyReads
BY TendedIsKept, ReadersAreTended, PTL
=============================================================================
