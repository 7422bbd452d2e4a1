---------------------------- MODULE PartsProofs -----------------------------
(***************************************************************************)
(* Proofs about the calls of other data centres, for any set of tasks and  *)
(* any number of keys, senders and upsets, and about the parts together:   *)
(* whatever part is chosen, the specification of every part holds, and     *)
(* with it what is proved about that part.                                 *)
(***************************************************************************)
EXTENDS StoreProofs, TransferProofs

-----------------------------------------------------------------------------
(* The calls *)

Opening == {"closed", "open", "import"}

\* The types that TypeOK leaves out.
CallTypes ==
  /\ mine \in [Tasks -> 0 .. Len(keyOf)] /\ auth \in [Tasks -> 0 .. made]
  /\ again \in [Tasks -> BOOLEAN]
  /\ began \in [Tasks -> [revoked : SUBSET (1 .. made), upsets : Nat]]
  /\ upsets \in Nat /\ callFaults \in Nat

\* Whoever takes a sender out of use or opens one holds the lock.
OpenersLock == \A t \in Tasks : callPc[t] \in Opening => lock = t

\* A request was made with a sender.
HasSender == \A t \in Tasks :
  callPc[t] \in {"import", "call", "refused", "cut"} \/ again[t] => mine[t] # 0

\* What was revoked and upset when a call began still is.
BeganBefore == \A t \in Tasks : began[t].upsets <= upsets /\ began[t].revoked \subseteq revoked

FirstTry == \A t \in Tasks : callPc[t] = "idle" => ~again[t]

\* The sender that a task takes out of use was refused.
RefusedKnows == \A t \in Tasks : again[t] /\ callPc[t] = "want" => keyOf[mine[t]] \in revoked

\* Every key that a new request could use was good when the call began.
Clean(t) ==
  /\ key \notin began[t].revoked
  /\ sender # 0 => keyOf[sender] \notin began[t].revoked
  /\ \A u \in Tasks : callPc[u] = "open" => auth[u] \notin began[t].revoked

\* The task uses the registered sender, and nobody opens another.
Watched(t) == sender = mine[t] /\ sender \in open /\ \A u \in Tasks : callPc[u] \notin Opening

\* A first request goes to the registered sender or to one that cannot be
\* known to be bad, and so does a second request, always.
Tracks == \A t \in Tasks : began[t].upsets = upsets =>
  /\ ~again[t] /\ callPc[t] = "call" => Watched(t) \/ Clean(t)
  /\ again[t] /\ callPc[t] = "want" => Watched(t) \/ Clean(t)
  /\ again[t] /\ callPc[t] \in Opening => Clean(t)
  /\ again[t] /\ callPc[t] = "call" => keyOf[mine[t]] \notin began[t].revoked

CallInv ==
  /\ Dc!TypeOK /\ CallTypes /\ OpenersLock /\ HasSender /\ BeganBefore /\ FirstTry
  /\ RefusedKnows /\ Tracks /\ Dc!FailuresHaveCause

CallStates == {"idle", "want", "closed", "open", "import", "call",
               "done", "refused", "failed", "cut"}

LEMMA CallInit == ASSUME Dc!DataCentresAssumption, Dc!Init PROVE CallInv
<1>1. Dc!TypeOK /\ CallTypes
  BY DEF Dc!Init, Dc!TypeOK, CallTypes, Dc!DataCentresAssumption
<1>2. OpenersLock /\ HasSender /\ BeganBefore /\ FirstTry /\ RefusedKnows /\ Tracks
  BY DEF Dc!Init, OpenersLock, HasSender, BeganBefore, FirstTry, RefusedKnows, Tracks, Opening
<1>3. Dc!FailuresHaveCause
  BY DEF Dc!Init, Dc!FailuresHaveCause
<1> QED
  BY <1>1, <1>2, <1>3 DEF CallInv

\* What the invariant says of the types, in the words that the steps use.
LEMMA CallFacts ==
  ASSUME Dc!DataCentresAssumption, CallInv
  PROVE  /\ made \in Nat /\ Len(keyOf) \in Nat /\ keyOf \in Seq(1 .. made)
         /\ key \in 0 .. made /\ file \in 0 .. made /\ sender \in 0 .. Len(keyOf)
         /\ open \subseteq 1 .. Len(keyOf) /\ lost \subseteq (1 .. Len(keyOf)) \ open
         /\ revoked \subseteq 1 .. made /\ 0 \notin Tasks /\ lock \in Tasks \union {0}
         /\ callPc \in [Tasks -> CallStates]
         /\ \A i \in 1 .. Len(keyOf) : keyOf[i] \in 1 .. made
         /\ MaxKeys \in Nat /\ MaxSenders \in Nat /\ MaxUpsets \in Nat
BY SMTT(30) DEF CallInv, Dc!TypeOK, CallStates, Dc!DataCentresAssumption

LEMMA MineTyped ==
  ASSUME CallInv PROVE mine \in [Tasks -> 0 .. Len(keyOf)]
BY DEF CallInv, CallTypes

LEMMA NoneIsOpen ==
  ASSUME Dc!DataCentresAssumption, CallInv PROVE 0 \notin open
<1>1. Len(keyOf) \in Nat /\ open \subseteq 1 .. Len(keyOf)
  BY CallFacts
<1>2. 0 \notin 1 .. Len(keyOf)
  BY <1>1
<1> QED
  BY <1>1, <1>2

LEMMA MadeBounded ==
  ASSUME Dc!DataCentresAssumption, CallInv PROVE made \in Nat /\ MaxKeys \in Nat /\ made <= MaxKeys
<1>1. MaxKeys \in Nat /\ made \in Nat
  BY CallFacts
<1>2. made \in 0 .. MaxKeys
  BY DEF CallInv, Dc!TypeOK
<1> QED
  BY <1>1, <1>2

\* The sender of a request is one there has been.
LEMMA SenderOfTask ==
  ASSUME CallInv, NEW t \in Tasks
  PROVE  /\ mine[t] \in 0 .. Len(keyOf)
         /\ callPc[t] \in {"import", "call", "refused", "cut"} \/ again[t] => mine[t] \in 1 .. Len(keyOf)
         /\ auth[t] \in 0 .. made
BY DEF CallInv, CallTypes, HasSender, Dc!TypeOK

\* A key more: every sequence of keys is still one.
LEMMA MoreKeys ==
  ASSUME NEW m \in Nat, NEW n \in Nat, m <= n, NEW s \in Seq(1 .. m)
  PROVE  s \in Seq(1 .. n)
<1>1. Len(s) \in Nat /\ s \in [1 .. Len(s) -> 1 .. m]
  OBVIOUS
<1>2. 1 .. m \subseteq 1 .. n
  OBVIOUS
<1> QED
  BY <1>1, <1>2

\* A sender more: what the others have been stays.
LEMMA MoreSenders ==
  ASSUME NEW m \in Nat, NEW s \in Seq(1 .. m), NEW k \in 1 .. m
  PROVE  /\ Append(s, k) \in Seq(1 .. m) /\ Len(Append(s, k)) = Len(s) + 1
         /\ \A i \in 1 .. Len(s) : Append(s, k)[i] = s[i]
         /\ Append(s, k)[Len(s) + 1] = k
OBVIOUS

\* A step of a task that holds the lock is the only one of its kind.
LEMMA OneOpener ==
  ASSUME Dc!DataCentresAssumption, CallInv
  PROVE  /\ lock = 0 => \A u \in Tasks : callPc[u] \notin Opening
         /\ \A t, u \in Tasks : callPc[t] \in Opening /\ u # t => callPc[u] \notin Opening
BY CallFacts DEF CallInv, OpenersLock

LEMMA BeginKeeps ==
  ASSUME Dc!DataCentresAssumption, CallInv, NEW t \in Tasks, Dc!Begin(t) PROVE CallInv'
<1> USE DEF Dc!Begin, Dc!Go, Dc!network, Dc!server
<1>1. Dc!TypeOK' /\ CallTypes'
  BY CallFacts DEF CallInv, Dc!TypeOK, CallTypes, CallStates
<1>2. OpenersLock' /\ HasSender' /\ BeganBefore' /\ FirstTry' /\ RefusedKnows'
  BY CallFacts, SMTT(30) DEF CallInv, OpenersLock, HasSender, BeganBefore, FirstTry, RefusedKnows, Opening, CallTypes
<1>3. ~again[t]
  BY DEF CallInv, FirstTry
<1>4. ASSUME NEW u \in Tasks, u # t
      PROVE  (Watched(u) => Watched(u)') /\ (Clean(u) => Clean(u)')
  BY <1>4, CallFacts DEF Watched, Clean, Opening
<1>5. Tracks'
  BY <1>3, <1>4, CallFacts DEF CallInv, Tracks, Opening, CallTypes
<1>6. Dc!FailuresHaveCause'
  BY CallFacts DEF CallInv, Dc!FailuresHaveCause, CallTypes
<1> QED
  BY <1>1, <1>2, <1>5, <1>6 DEF CallInv

\* Under the lock, with no other task opening: the registered sender is used,
\* or a new one is opened with the key there is.
LEMMA UseKeeps ==
  ASSUME Dc!DataCentresAssumption, CallInv, NEW t \in Tasks, Dc!Use(t),
         callPc[t] \in {"want", "closed"},
         \A u \in Tasks : u # t => callPc[u] \notin Opening,
         again[t] /\ began[t].upsets = upsets => Clean(t)
  PROVE  CallInv'
<1>1. /\ key' = key /\ sender' = sender /\ keyOf' = keyOf /\ open' = open /\ lost' = lost
      /\ again' = again /\ began' = began /\ file' = file /\ made' = made
      /\ revoked' = revoked /\ upsets' = upsets /\ callFaults' = callFaults
  BY DEF Dc!Use, Dc!network, Dc!server
<1>2. /\ sender \in 0 .. Len(keyOf) /\ key \in 0 .. made /\ t # 0
      /\ callPc \in [Tasks -> CallStates] /\ mine \in [Tasks -> 0 .. Len(keyOf)]
      /\ auth \in [Tasks -> 0 .. made]
  BY CallFacts, MineTyped DEF CallInv, CallTypes
<1>t. CASE sender \in open
  <2>1. /\ mine' = [mine EXCEPT ![t] = sender] /\ auth' = auth
        /\ callPc' = [callPc EXCEPT ![t] = "call"] /\ lock' = 0
    BY <1>t DEF Dc!Use, Dc!Go
  <2>2. /\ mine'[t] = sender /\ callPc'[t] = "call" /\ sender # 0
        /\ \A u \in Tasks : u # t => mine'[u] = mine[u] /\ callPc'[u] = callPc[u]
    BY <1>t, <1>2, <2>1, NoneIsOpen
  <2>3. Dc!TypeOK'
    <3>1. callPc' \in [Tasks -> CallStates] /\ lock' \in Tasks \union {0}
      BY <1>2, <2>1 DEF CallStates
    <3> QED
      BY <1>1, <3>1 DEF CallInv, Dc!TypeOK, CallStates
  <2>4. CallTypes'
    <3>1. mine' \in [Tasks -> 0 .. Len(keyOf)]
      BY <1>2, <2>1
    <3> QED
      BY <1>1, <2>1, <3>1 DEF CallInv, CallTypes
  <2>5. OpenersLock' /\ BeganBefore' /\ FirstTry'
    BY <1>1, <2>1, <2>2 DEF CallInv, OpenersLock, BeganBefore, FirstTry, Opening
  <2>6. HasSender' /\ RefusedKnows'
    BY <1>1, <2>2 DEF CallInv, HasSender, RefusedKnows
  <2>7. Watched(t)'
    BY <1>1, <1>t, <2>2 DEF Watched, Opening
  <2>8. ASSUME NEW u \in Tasks, u # t
        PROVE  (Watched(u) => Watched(u)') /\ (Clean(u) => Clean(u)')
    BY <1>1, <2>1, <2>2, <2>8 DEF Watched, Clean, Opening
  <2>9. began[t].upsets = upsets /\ again[t] => keyOf[sender] \notin began[t].revoked
    BY <2>2 DEF Clean
  <2>10. Tracks'
    <3> SUFFICES ASSUME NEW u \in Tasks, began'[u].upsets = upsets'
                 PROVE /\ ~again'[u] /\ callPc'[u] = "call" => Watched(u)' \/ Clean(u)'
                       /\ again'[u] /\ callPc'[u] = "want" => Watched(u)' \/ Clean(u)'
                       /\ again'[u] /\ callPc'[u] \in Opening => Clean(u)'
                       /\ again'[u] /\ callPc'[u] = "call" => keyOf'[mine'[u]] \notin began'[u].revoked
      BY DEF Tracks
    <3>1. CASE u = t
      BY <1>1, <2>2, <2>7, <2>9, <3>1 DEF Opening
    <3>2. CASE u # t
      BY <1>1, <2>2, <2>8, <3>2 DEF CallInv, Tracks
    <3> QED
      BY <3>1, <3>2
  <2>11. Dc!FailuresHaveCause'
    BY <1>1, <2>2 DEF CallInv, Dc!FailuresHaveCause
  <2> QED
    BY <2>3, <2>4, <2>5, <2>6, <2>10, <2>11 DEF CallInv
<1>f. CASE sender \notin open
  <2>1. /\ auth' = [auth EXCEPT ![t] = key] /\ mine' = mine
        /\ callPc' = [callPc EXCEPT ![t] = "open"] /\ lock' = t
    BY <1>f DEF Dc!Use, Dc!Go
  <2>2. /\ auth'[t] = key /\ callPc'[t] = "open"
        /\ \A u \in Tasks : u # t => auth'[u] = auth[u] /\ callPc'[u] = callPc[u]
    BY <1>2, <2>1
  <2>3. Dc!TypeOK'
    <3>1. callPc' \in [Tasks -> CallStates] /\ lock' \in Tasks \union {0}
      BY <1>2, <2>1 DEF CallStates
    <3> QED
      BY <1>1, <3>1 DEF CallInv, Dc!TypeOK, CallStates
  <2>4. CallTypes'
    <3>1. auth' \in [Tasks -> 0 .. made]
      BY <1>2, <2>1
    <3> QED
      BY <1>1, <2>1, <3>1 DEF CallInv, CallTypes
  <2>5. OpenersLock' /\ BeganBefore' /\ FirstTry'
    BY <1>1, <2>1, <2>2 DEF CallInv, OpenersLock, BeganBefore, FirstTry, Opening
  <2>6. HasSender' /\ RefusedKnows'
    BY <1>1, <2>1, <2>2 DEF CallInv, HasSender, RefusedKnows
  <2>7. \A u \in Tasks : ~Watched(u)
    BY <1>f DEF Watched
  <2>8. \A u \in Tasks : Clean(u) => Clean(u)'
    <3> SUFFICES ASSUME NEW u \in Tasks, Clean(u) PROVE Clean(u)'
      OBVIOUS
    <3>1. key \notin began[u].revoked /\ (sender # 0 => keyOf[sender] \notin began[u].revoked)
      BY DEF Clean
    <3>2. \A w \in Tasks : callPc'[w] = "open" => auth'[w] \notin began[u].revoked
      BY <2>2, <3>1 DEF Clean
    <3> QED
      BY <1>1, <3>1, <3>2 DEF Clean
  <2>9. Tracks'
    <3> SUFFICES ASSUME NEW u \in Tasks, began'[u].upsets = upsets'
                 PROVE /\ ~again'[u] /\ callPc'[u] = "call" => Watched(u)' \/ Clean(u)'
                       /\ again'[u] /\ callPc'[u] = "want" => Watched(u)' \/ Clean(u)'
                       /\ again'[u] /\ callPc'[u] \in Opening => Clean(u)'
                       /\ again'[u] /\ callPc'[u] = "call" => keyOf'[mine'[u]] \notin began'[u].revoked
      BY DEF Tracks
    <3>1. CASE u = t
      BY <1>1, <2>2, <2>8, <3>1
    <3>2. CASE u # t
      BY <1>1, <2>1, <2>2, <2>7, <2>8, <3>2 DEF CallInv, Tracks
    <3> QED
      BY <3>1, <3>2
  <2>10. Dc!FailuresHaveCause'
    BY <1>1, <2>1, <2>2 DEF CallInv, Dc!FailuresHaveCause
  <2> QED
    BY <2>3, <2>4, <2>5, <2>6, <2>9, <2>10 DEF CallInv
<1> QED
  BY <1>t, <1>f

LEMMA EnterKeeps ==
  ASSUME Dc!DataCentresAssumption, CallInv, NEW t \in Tasks, Dc!Enter(t) PROVE CallInv'
<1>1. lock = 0 /\ callPc[t] = "want" /\ (again[t] => sender # mine[t]) /\ Dc!Use(t)
  BY DEF Dc!Enter
<1>2. again[t] /\ began[t].upsets = upsets => Clean(t)
  BY <1>1 DEF CallInv, Tracks, Watched
<1> QED
  BY <1>1, <1>2, OneOpener, UseKeeps

LEMMA DiscardedKeeps ==
  ASSUME Dc!DataCentresAssumption, CallInv, NEW t \in Tasks, Dc!Discarded(t) PROVE CallInv'
<1>1. callPc[t] = "closed" /\ callPc[t] \in Opening /\ Dc!Use(t)
  BY DEF Dc!Discarded, Opening
<1>2. again[t] /\ began[t].upsets = upsets => Clean(t)
  BY <1>1 DEF CallInv, Tracks
<1>3. \A u \in Tasks : u # t => callPc[u] \notin Opening
  BY <1>1, OneOpener
<1> QED
  BY <1>1, <1>2, <1>3, UseKeeps

LEMMA DiscardKeeps ==
  ASSUME Dc!DataCentresAssumption, CallInv, NEW t \in Tasks, Dc!Discard(t) PROVE CallInv'
<1>1. PICK cut \in SUBSET {u \in Tasks \ {t} : callPc[u] = "call" /\ mine[u] = sender} :
        callPc' = [u \in Tasks |-> IF u \in cut THEN "cut"
                                   ELSE IF u = t THEN "closed" ELSE callPc[u]]
  BY DEF Dc!Discard
<1>2. /\ callPc[t] = "want" /\ lock = 0 /\ again[t] /\ sender = mine[t] /\ t \notin cut
      /\ lock' = t /\ sender' = 0 /\ key' = 0
      /\ open' = open \ {sender} /\ lost' = lost \ {sender}
      /\ keyOf' = keyOf /\ mine' = mine /\ auth' = auth /\ again' = again /\ began' = began
      /\ file' = file /\ made' = made /\ revoked' = revoked /\ upsets' = upsets
      /\ callFaults' = callFaults
  BY <1>1 DEF Dc!Discard, Dc!server
<1>3. \A u \in cut : callPc[u] = "call" /\ mine[u] = sender
  BY <1>1
<1>a. callPc' \in [Tasks -> CallStates]
  BY <1>1, CallFacts DEF CallStates
<1>b. open' \subseteq 1 .. Len(keyOf) /\ lost' \subseteq 1 .. Len(keyOf) \ open'
  BY <1>2, CallFacts
<1>c. Dc!TypeOK'
  BY <1>a, <1>b, <1>2, CallFacts DEF CallInv, Dc!TypeOK, CallStates
<1>d. CallTypes'
  BY <1>2 DEF CallInv, CallTypes
<1>4. Dc!TypeOK' /\ CallTypes'
  BY <1>c, <1>d
<1>5. \A u \in Tasks : callPc[u] \notin Opening
  BY <1>2, OneOpener
<1>6. \A u \in Tasks : callPc'[u] \in Opening <=> u = t
  BY <1>1, <1>2, <1>5 DEF Opening
<1>7. \A u \in Tasks : u # t =>
        \/ callPc'[u] = callPc[u]
        \/ callPc'[u] = "cut" /\ callPc[u] = "call"
  BY <1>1, <1>3
<1>8. callPc'[t] = "closed"
  BY <1>1, <1>2
<1>9. OpenersLock' /\ HasSender' /\ BeganBefore' /\ FirstTry' /\ RefusedKnows'
  BY <1>2, <1>6, <1>7, <1>8, CallFacts
     DEF CallInv, OpenersLock, HasSender, BeganBefore, FirstTry, RefusedKnows
<1>10. \A u \in Tasks : 0 \notin began[u].revoked
  BY CallFacts DEF CallInv, BeganBefore
<1>11. \A u \in Tasks : Clean(u)'
  <2>1. \A v \in Tasks : callPc'[v] # "open"
    BY <1>6, <1>8 DEF Opening
  <2> QED
    BY <1>2, <1>10, <2>1 DEF Clean
<1>12. Tracks'
  BY <1>2, <1>6, <1>7, <1>8, <1>11 DEF CallInv, Tracks
<1>13. keyOf[sender] \in revoked
  BY <1>2 DEF CallInv, RefusedKnows
<1>14. Dc!FailuresHaveCause'
  <2> SUFFICES ASSUME NEW u \in Tasks, upsets = began[u].upsets
               PROVE  /\ callPc'[u] = "refused" => keyOf[mine[u]] \notin began[u].revoked
                      /\ callPc'[u] = "cut" => keyOf[mine[u]] \in revoked
    BY <1>2 DEF Dc!FailuresHaveCause
  <2> QED
    BY <1>1, <1>3, <1>8, <1>13 DEF CallInv, Dc!FailuresHaveCause
<1> QED
  BY <1>4, <1>9, <1>12, <1>14 DEF CallInv

\* What a step of one task that is neither a try nor a wait leaves alone.
LEMMA OthersKeepOpening ==
  ASSUME Dc!DataCentresAssumption, CallInv, NEW t \in Tasks, callPc[t] \in Opening
  PROVE  /\ lock = t /\ \A u \in Tasks : u # t => callPc[u] \notin Opening
         /\ \A u \in Tasks : ~Watched(u)
         /\ \A u \in Tasks : began[u].upsets = upsets =>
              /\ ~again[u] /\ callPc[u] = "call" => Clean(u)
              /\ again[u] /\ callPc[u] \in {"want", "closed", "open", "import"} => Clean(u)
              /\ again[u] /\ callPc[u] = "call" => keyOf[mine[u]] \notin began[u].revoked
<1>1. lock = t /\ \A u \in Tasks : u # t => callPc[u] \notin Opening
  BY OneOpener DEF CallInv, OpenersLock
<1>2. \A u \in Tasks : ~Watched(u)
  BY DEF Watched
<1> QED
  BY <1>1, <1>2 DEF CallInv, Tracks, Opening

LEMMA ConnectKeeps ==
  ASSUME Dc!DataCentresAssumption, CallInv, NEW t \in Tasks, Dc!Connect(t) PROVE CallInv'
<1> DEFINE k == keyOf'[Len(keyOf) + 1]
<1>1. /\ callPc[t] = "open" /\ callPc[t] \in Opening /\ Len(keyOf) < MaxSenders
      /\ key' = key /\ lost' = lost /\ again' = again /\ began' = began /\ file' = file
      /\ revoked' = revoked /\ upsets' = upsets /\ callFaults' = callFaults
  BY DEF Dc!Connect, Opening
<1>2. /\ keyOf' \in Seq(1 .. made') /\ Len(keyOf') = Len(keyOf) + 1
      /\ \A i \in 1 .. Len(keyOf) : keyOf'[i] = keyOf[i]
      /\ made' \in Nat /\ made <= made' /\ made' <= MaxKeys
      /\ auth[t] # 0 => k = auth[t]
  <2>1. CASE auth[t] # 0
    <3>1. keyOf' = Append(keyOf, auth[t]) /\ made' = made
      BY <2>1 DEF Dc!Connect
    <3>2. auth[t] \in 1 .. made /\ made <= MaxKeys
      <4>1. auth[t] \in 0 .. made
        BY SenderOfTask
      <4> QED
        BY <2>1, <4>1, MadeBounded
    <3> QED
      BY <3>1, <3>2, CallFacts, MoreSenders
  <2>2. CASE auth[t] = 0
    <3>1. keyOf' = Append(keyOf, made') /\ made' = made + 1 /\ made < MaxKeys
      BY <2>2 DEF Dc!Connect
    <3>2. keyOf \in Seq(1 .. made') /\ made' \in 1 .. made' /\ made' \in Nat
      BY <3>1, CallFacts, MoreKeys
    <3> QED
      BY <2>2, <3>1, <3>2, CallFacts, MoreSenders
  <2> QED
    BY <2>1, <2>2
<1>3. /\ mine' = [mine EXCEPT ![t] = Len(keyOf) + 1] /\ auth' = [auth EXCEPT ![t] = 0]
      /\ open' = open \union {Len(keyOf) + 1}
      /\ auth[t] # 0 => /\ sender' = Len(keyOf) + 1 /\ lock' = 0
                        /\ callPc' = [callPc EXCEPT ![t] = "call"]
      /\ auth[t] = 0 => /\ sender' = sender /\ lock' = lock
                        /\ callPc' = [callPc EXCEPT ![t] = "import"]
  BY <1>2 DEF Dc!Connect, Dc!Go
<1> HIDE DEF k
<1>4. Dc!TypeOK'
  <2>1. callPc' \in [Tasks -> CallStates] /\ lock' \in Tasks \union {0}
        /\ sender' \in 0 .. Len(keyOf')
    BY <1>2, <1>3, CallFacts, SMTT(30) DEF CallStates
  <2>2. open' \subseteq 1 .. Len(keyOf') /\ lost' \subseteq (1 .. Len(keyOf')) \ open'
    BY <1>1, <1>2, <1>3, CallFacts, SMTT(30)
  <2>3. {key, file}' \subseteq 0 .. made' /\ revoked' \subseteq 1 .. made' /\ made' \in 0 .. MaxKeys
    BY <1>1, <1>2, CallFacts
  <2> QED
    BY <1>1, <1>2, <2>1, <2>2, <2>3, CallFacts, SMTT(30) DEF Dc!TypeOK, CallStates
<1>5. CallTypes'
  <2>1. mine' \in [Tasks -> 0 .. Len(keyOf')]
    <3>1. mine \in [Tasks -> 0 .. Len(keyOf')] /\ Len(keyOf) + 1 \in 0 .. Len(keyOf')
      BY <1>2, CallFacts DEF CallInv, CallTypes
    <3> QED
      BY <3>1, <1>3
  <2>3. auth' \in [Tasks -> 0 .. made']
    <3>a. 0 .. made \subseteq 0 .. made' /\ 0 \in 0 .. made'
      BY <1>2, CallFacts
    <3>1. auth \in [Tasks -> 0 .. made'] /\ 0 \in 0 .. made'
      BY <3>a DEF CallInv, CallTypes
    <3> QED
      BY <3>1, <1>3
  <2>2. began' \in [Tasks -> [revoked : SUBSET (1 .. made'), upsets : Nat]]
    <3>1. 1 .. made \subseteq 1 .. made'
      BY <1>2, CallFacts
    <3>2. began \in [Tasks -> [revoked : SUBSET (1 .. made), upsets : Nat]]
      BY DEF CallInv, CallTypes
    <3>3. [revoked : SUBSET (1 .. made), upsets : Nat] \subseteq [revoked : SUBSET (1 .. made'), upsets : Nat]
      BY <3>1
    <3> QED
      BY <3>2, <3>3, <1>1
  <2> QED
    BY <1>1, <2>1, <2>2, <2>3 DEF CallInv, CallTypes
<1>6. /\ callPc'[t] = (IF auth[t] # 0 THEN "call" ELSE "import")
      /\ mine'[t] = Len(keyOf) + 1
      /\ \A u \in Tasks : u # t => callPc'[u] = callPc[u] /\ mine'[u] = mine[u] /\ auth'[u] = auth[u]
  BY <1>3, CallFacts DEF CallInv, CallTypes
<1>7. OpenersLock' /\ HasSender' /\ BeganBefore' /\ FirstTry'
  BY <1>1, <1>3, <1>6, OthersKeepOpening, CallFacts
     DEF CallInv, OpenersLock, HasSender, BeganBefore, FirstTry, Opening
<1>8. \A u \in Tasks : u # t /\ (callPc[u] = "call" \/ again[u]) => keyOf'[mine'[u]] = keyOf[mine[u]]
  BY <1>2, <1>6, SenderOfTask
<1>9. RefusedKnows'
  BY <1>1, <1>6, <1>8 DEF CallInv, RefusedKnows
<1>10. \A u \in Tasks : callPc'[u] # "open"
  BY <1>1, <1>6, OthersKeepOpening DEF Opening
<1>11. \A u \in Tasks : Clean(u) => Clean(u)' /\ (auth[t] # 0 => k \notin began[u].revoked)
  <2> SUFFICES ASSUME NEW u \in Tasks, Clean(u)
               PROVE  Clean(u)' /\ (auth[t] # 0 => k \notin began[u].revoked)
    OBVIOUS
  <2>1. auth[t] # 0 => k \notin began[u].revoked
    BY <1>1, <1>2 DEF Clean
  <2>2. sender' # 0 => keyOf'[sender'] \notin began[u].revoked
    <3>1. CASE auth[t] # 0
      BY <3>1, <2>1, <1>3 DEF k
    <3>2. CASE auth[t] = 0
      <4>1. sender' = sender /\ sender \in 0 .. Len(keyOf)
        BY <3>2, <1>3, CallFacts
      <4>2. sender # 0 => keyOf'[sender] = keyOf[sender]
        BY <4>1, <1>2, CallFacts
      <4> QED
        BY <4>1, <4>2 DEF Clean
    <3> QED
      BY <3>1, <3>2
  <2> QED
    BY <2>1, <2>2, <1>1, <1>10 DEF Clean
<1>12. auth[t] # 0 => Watched(t)'
  BY <1>3, <1>6, OthersKeepOpening, <1>1 DEF Watched, Opening
<1>13. keyOf'[mine'[t]] = k
  BY <1>6 DEF k
<1>14. Tracks'
  BY <1>1, <1>6, <1>8, <1>11, <1>12, <1>13, OthersKeepOpening DEF Tracks, Opening
<1>15. Dc!FailuresHaveCause'
  <2> SUFFICES ASSUME NEW u \in Tasks, upsets = began[u].upsets
               PROVE  /\ callPc'[u] = "refused" => keyOf'[mine'[u]] \notin began[u].revoked
                      /\ callPc'[u] = "cut" => keyOf'[mine'[u]] \in revoked
    BY <1>1 DEF Dc!FailuresHaveCause
  <2>1. callPc[u] \in {"refused", "cut"} => keyOf'[mine'[u]] = keyOf[mine[u]]
    BY <1>1, <1>2, <1>6, SenderOfTask
  <2> QED
    BY <2>1, <1>6 DEF CallInv, Dc!FailuresHaveCause
<1> QED
  BY <1>4, <1>5, <1>7, <1>9, <1>14, <1>15 DEF CallInv

LEMMA ImportKeeps ==
  ASSUME Dc!DataCentresAssumption, CallInv, NEW t \in Tasks, Dc!Import(t) PROVE CallInv'
<1>1. /\ callPc[t] = "import" /\ callPc[t] \in Opening /\ keyOf[mine[t]] \notin revoked
      /\ key' = keyOf[mine[t]] /\ sender' = mine[t] /\ lock' = 0
      /\ callPc' = [callPc EXCEPT ![t] = "call"]
      /\ keyOf' = keyOf /\ open' = open /\ lost' = lost /\ mine' = mine /\ auth' = auth
      /\ again' = again /\ began' = began /\ file' = file /\ made' = made
      /\ revoked' = revoked /\ upsets' = upsets /\ callFaults' = callFaults
  BY DEF Dc!Import, Dc!Go, Dc!network, Dc!server, Opening
<1>2. mine[t] \in 1 .. Len(keyOf) /\ keyOf[mine[t]] \in 1 .. made
  BY <1>1, SenderOfTask, CallFacts
<1>3. Dc!TypeOK'
  <2>1. callPc' \in [Tasks -> CallStates] /\ key' \in 0 .. made /\ sender' \in 0 .. Len(keyOf)
    BY <1>1, <1>2, CallFacts, SMTT(30) DEF CallStates
  <2> QED
    BY <1>1, <2>1 DEF CallInv, Dc!TypeOK, CallStates
<1>4. CallTypes'
  BY <1>1 DEF CallInv, CallTypes
<1>5. callPc'[t] = "call" /\ \A u \in Tasks : u # t => callPc'[u] = callPc[u]
  BY <1>1, CallFacts
<1>6. OpenersLock' /\ HasSender' /\ BeganBefore' /\ FirstTry' /\ RefusedKnows'
  BY <1>1, <1>5, OthersKeepOpening
     DEF CallInv, OpenersLock, HasSender, BeganBefore, FirstTry, RefusedKnows, Opening
<1>7. \A u \in Tasks : callPc'[u] # "open"
  BY <1>1, <1>5, OthersKeepOpening DEF Opening
<1>8. \A u \in Tasks : Clean(u)'
  BY <1>1, <1>7 DEF Clean, CallInv, BeganBefore
<1>9. keyOf[mine[t]] \notin began[t].revoked
  BY <1>1 DEF CallInv, BeganBefore
<1>10. Tracks'
  BY <1>1, <1>5, <1>8, <1>9, OthersKeepOpening DEF Tracks, Opening
<1>11. Dc!FailuresHaveCause'
  BY <1>1, <1>5 DEF CallInv, Dc!FailuresHaveCause
<1> QED
  BY <1>3, <1>4, <1>6, <1>10, <1>11 DEF CallInv

LEMMA OpenFailsKeeps ==
  ASSUME Dc!DataCentresAssumption, CallInv, NEW t \in Tasks, Dc!OpenFails(t) PROVE CallInv'
<1>1. /\ callPc[t] \in {"open", "import"} /\ callPc[t] \in Opening
      /\ open' \subseteq open /\ lock' = 0 /\ callPc' = [callPc EXCEPT ![t] = "failed"]
      /\ key' = key /\ sender' = sender /\ keyOf' = keyOf /\ lost' = lost /\ mine' = mine
      /\ auth' = auth /\ again' = again /\ began' = began /\ file' = file /\ made' = made
      /\ revoked' = revoked /\ upsets' = upsets
  BY DEF Dc!OpenFails, Dc!Go, Dc!server, Opening
<1>2. callFaults' \in Nat
  BY DEF Dc!OpenFails, Dc!Fault, CallInv, CallTypes
<1>3. Dc!TypeOK'
  <2>1. callPc' \in [Tasks -> CallStates]
    BY <1>1, CallFacts DEF CallStates
  <2>2. open' \subseteq 1 .. Len(keyOf) /\ lost \subseteq (1 .. Len(keyOf)) \ open'
    BY <1>1, CallFacts
  <2> QED
    BY <1>1, <2>1, <2>2 DEF CallInv, Dc!TypeOK, CallStates
<1>4. CallTypes'
  BY <1>1, <1>2 DEF CallInv, CallTypes
<1>5. callPc'[t] = "failed" /\ \A u \in Tasks : u # t => callPc'[u] = callPc[u]
  BY <1>1, CallFacts
<1>6. OpenersLock' /\ HasSender' /\ BeganBefore' /\ FirstTry' /\ RefusedKnows'
  BY <1>1, <1>5, OthersKeepOpening
     DEF CallInv, OpenersLock, HasSender, BeganBefore, FirstTry, RefusedKnows, Opening
<1>7. \A u \in Tasks : Clean(u) => Clean(u)'
  BY <1>1, <1>5 DEF Clean
<1>8. Tracks'
  BY <1>1, <1>5, <1>7, OthersKeepOpening DEF Tracks, Opening
<1>9. Dc!FailuresHaveCause'
  BY <1>1, <1>5 DEF CallInv, Dc!FailuresHaveCause
<1> QED
  BY <1>3, <1>4, <1>6, <1>8, <1>9 DEF CallInv

\* A step that only brings connections up: the tables and the tasks stay.
LEMMA UpKeeps ==
  ASSUME Dc!DataCentresAssumption, CallInv,
         open \subseteq open', open' \subseteq 1 .. Len(keyOf), lost' \subseteq lost \ open',
         UNCHANGED <<key, sender, keyOf, lock, mine, auth, began, file, made, revoked, upsets>>
  PROVE  /\ open' \subseteq 1 .. Len(keyOf') /\ lost' \subseteq 1 .. Len(keyOf') \ open'
         /\ (\A u \in Tasks : callPc'[u] \in Opening => callPc[u] \in Opening)
              => \A u \in Tasks : Watched(u) => Watched(u)'
         /\ (\A u \in Tasks : callPc'[u] = "open" => callPc[u] = "open")
              => \A u \in Tasks : Clean(u) => Clean(u)'
<1>1. open' \subseteq 1 .. Len(keyOf') /\ lost' \subseteq 1 .. Len(keyOf') \ open'
  BY CallFacts
<1> QED
  BY <1>1 DEF Watched, Clean

\* An answer or a refusal: the task goes on, its sender is up.
LEMMA CallReturns ==
  ASSUME Dc!DataCentresAssumption, CallInv, NEW t \in Tasks, NEW p,
         callPc[t] = "call", Dc!Revived(t), Dc!Go(t, p), p \in {"done", "refused", "want"},
         again' \in [Tasks -> BOOLEAN],
         \A u \in Tasks : u # t => again'[u] = again[u],
         p = "done" => again'[t] = again[t],
         p # "done" => again'[t] /\ keyOf[mine[t]] \in revoked,
         p = "want" => ~again[t],
         p = "refused" => again[t],
         UNCHANGED <<key, sender, keyOf, lock, mine, auth, began, file, made, revoked, upsets,
                     callFaults>>
  PROVE  CallInv'
<1>1. callPc' = [callPc EXCEPT ![t] = p] /\ callPc'[t] = p
      /\ \A u \in Tasks : u # t => callPc'[u] = callPc[u]
  BY CallFacts DEF Dc!Go
<1>2. open' = open \union {mine[t]} /\ lost' = lost \ {mine[t]} /\ mine[t] \in 1 .. Len(keyOf)
  BY SenderOfTask DEF Dc!Revived
<1>a. open' \subseteq 1 .. Len(keyOf) /\ lost' \subseteq lost \ open'
  BY <1>2, CallFacts
<1>3. /\ open' \subseteq 1 .. Len(keyOf') /\ lost' \subseteq 1 .. Len(keyOf') \ open'
      /\ \A u \in Tasks : Watched(u) => Watched(u)'
      /\ \A u \in Tasks : Clean(u) => Clean(u)'
  BY <1>1, <1>2, <1>a, UpKeeps DEF Opening
<1>4. Dc!TypeOK'
  <2>1. callPc' \in [Tasks -> CallStates]
    BY <1>1, CallFacts DEF CallStates
  <2> QED
    BY <1>3, <2>1 DEF CallInv, Dc!TypeOK, CallStates
<1>5. CallTypes'
  BY DEF CallInv, CallTypes
<1>6. OpenersLock' /\ HasSender' /\ BeganBefore' /\ FirstTry' /\ RefusedKnows'
  BY <1>1, <1>2, CallFacts
     DEF CallInv, OpenersLock, HasSender, BeganBefore, FirstTry, RefusedKnows, Opening
<1>7. Tracks'
  BY <1>1, <1>3 DEF CallInv, Tracks, Opening
<1>8. Dc!FailuresHaveCause'
  BY <1>1 DEF CallInv, Dc!FailuresHaveCause, Tracks
<1> QED
  BY <1>4, <1>5, <1>6, <1>7, <1>8 DEF CallInv

LEMMA AnsweredKeeps ==
  ASSUME Dc!DataCentresAssumption, CallInv, NEW t \in Tasks, Dc!Answered(t) PROVE CallInv'
BY CallReturns DEF Dc!Answered, Dc!server, CallInv, CallTypes

LEMMA RefusedKeeps ==
  ASSUME Dc!DataCentresAssumption, CallInv, NEW t \in Tasks, Dc!Refused(t) PROVE CallInv'
<1>1. again' = [again EXCEPT ![t] = TRUE] /\ again \in [Tasks -> BOOLEAN]
  BY DEF Dc!Refused, CallInv, CallTypes
<1>2. CASE again[t]
  BY <1>1, <1>2, CallReturns DEF Dc!Refused, Dc!server
<1>3. CASE ~again[t]
  BY <1>1, <1>3, CallReturns DEF Dc!Refused, Dc!server
<1> QED
  BY <1>2, <1>3

LEMMA FailsKeeps ==
  ASSUME Dc!DataCentresAssumption, CallInv, NEW t \in Tasks, Dc!Fails(t) PROVE CallInv'
<1>1. /\ callPc[t] = "call" /\ callPc' = [callPc EXCEPT ![t] = "failed"] /\ callFaults' = callFaults + 1
      /\ key' = key /\ sender' = sender /\ keyOf' = keyOf /\ lost' = lost /\ mine' = mine
      /\ auth' = auth /\ again' = again /\ began' = began /\ file' = file /\ made' = made
      /\ revoked' = revoked /\ upsets' = upsets /\ open' = open /\ lock' = lock
  BY DEF Dc!Fails, Dc!Fault, Dc!Go, Dc!server, Dc!network
<1>2. Dc!TypeOK' /\ CallTypes'
  <2>1. callPc' \in [Tasks -> CallStates] /\ callFaults' \in Nat
    BY <1>1, CallFacts DEF CallStates, CallInv, CallTypes
  <2> QED
    BY <1>1, <2>1 DEF CallInv, Dc!TypeOK, CallTypes, CallStates
<1>3. callPc'[t] = "failed" /\ \A u \in Tasks : u # t => callPc'[u] = callPc[u]
  BY <1>1, CallFacts
<1>4. OpenersLock' /\ HasSender' /\ BeganBefore' /\ FirstTry' /\ RefusedKnows'
  BY <1>1, <1>3 DEF CallInv, OpenersLock, HasSender, BeganBefore, FirstTry, RefusedKnows, Opening
<1>5. \A u \in Tasks : (Watched(u) => Watched(u)') /\ (Clean(u) => Clean(u)')
  BY <1>1, <1>3 DEF Watched, Clean, Opening
<1>6. Tracks'
  BY <1>1, <1>3, <1>5 DEF CallInv, Tracks, Opening
<1>7. Dc!FailuresHaveCause'
  BY <1>1, <1>3 DEF CallInv, Dc!FailuresHaveCause
<1> QED
  BY <1>2, <1>4, <1>6, <1>7 DEF CallInv

\* A connection is lost or the home switches: what any call that runs now may
\* meet has a cause, so only the calls that begin later count.
LEMMA UpsetKeeps ==
  ASSUME Dc!DataCentresAssumption, CallInv,
         upsets' = upsets + 1, callFaults' = callFaults + 1,
         UNCHANGED <<key, keyOf, mine, auth, again, began, file, made, revoked>>,
         callPc' \in [Tasks -> CallStates], sender' \in {0, sender},
         open' \subseteq open, lost' \subseteq (1 .. Len(keyOf)) \ open',
         lock' \in Tasks \union {0},
         \A u \in Tasks : callPc'[u] \in Opening => callPc[u] \in Opening /\ lock' = lock,
         \A u \in Tasks : callPc'[u] = callPc[u]
                          \/ (callPc'[u] \in {"failed", "cut"} /\ callPc[u] \in {"call", "import"})
  PROVE  CallInv'
<1>1. Dc!TypeOK'
  <2>1. open' \subseteq 1 .. Len(keyOf) /\ sender' \in 0 .. Len(keyOf)
    BY CallFacts
  <2> QED
    BY <2>1 DEF CallInv, Dc!TypeOK, CallStates
<1>2. CallTypes'
  BY DEF CallInv, CallTypes
<1>3. OpenersLock' /\ HasSender' /\ FirstTry' /\ RefusedKnows'
  BY DEF CallInv, OpenersLock, HasSender, FirstTry, RefusedKnows, Opening
<1>4. BeganBefore' /\ \A u \in Tasks : began'[u].upsets # upsets'
  BY DEF CallInv, BeganBefore, CallTypes
<1>5. Tracks' /\ Dc!FailuresHaveCause'
  BY <1>4 DEF Tracks, Dc!FailuresHaveCause
<1> QED
  BY <1>1, <1>2, <1>3, <1>4, <1>5 DEF CallInv

LEMMA LoseKeeps ==
  ASSUME Dc!DataCentresAssumption, CallInv, NEW s, Dc!Lose(s) PROVE CallInv'
<1>1. PICK cut \in SUBSET {u \in Tasks : callPc[u] = "call" /\ mine[u] = s} :
        callPc' = [u \in Tasks |-> IF u \in cut THEN "failed" ELSE callPc[u]]
  BY DEF Dc!Lose, Dc!Interrupt
<1>2. /\ s \in open /\ upsets' = upsets + 1 /\ callFaults' = callFaults + 1
      /\ open' = open \ {s} /\ lost' = lost \union {s}
      /\ UNCHANGED <<key, sender, keyOf, lock, mine, auth, again, began, file, made, revoked>>
  BY DEF Dc!Lose, Dc!Fault, Dc!server
<1>3. callPc' \in [Tasks -> CallStates]
  BY <1>1, CallFacts DEF CallStates
<1>4. \A u \in Tasks : callPc'[u] = callPc[u] \/ (callPc'[u] = "failed" /\ callPc[u] = "call")
  BY <1>1
<1>5. open' \subseteq open /\ lost' \subseteq (1 .. Len(keyOf)) \ open' /\ lock' \in Tasks \union {0}
  <2>1. open \subseteq 1 .. Len(keyOf) /\ lost \subseteq (1 .. Len(keyOf)) \ open
    BY CallFacts
  <2>2. s \in 1 .. Len(keyOf)
    BY <1>2, <2>1
  <2>3. open' \subseteq open /\ lost' \subseteq (1 .. Len(keyOf)) \ open'
    BY <1>2, <2>1, <2>2
  <2> QED
    BY <1>2, <2>3, CallFacts
<1> QED
  BY <1>2, <1>3, <1>4, <1>5, UpsetKeeps DEF Opening

LEMMA SwitchHomeKeeps ==
  ASSUME Dc!DataCentresAssumption, CallInv, Dc!SwitchHome PROVE CallInv'
<1>1. PICK cut \in SUBSET {t \in Tasks : callPc[t] = "call" /\ mine[t] = sender},
           stop \in SUBSET {t \in Tasks : callPc[t] = "import"} :
        /\ callPc' = [t \in Tasks |-> IF t \in cut \union stop THEN "cut" ELSE callPc[t]]
        /\ open' = open \ ({sender} \union {mine[t] : t \in stop})
        /\ lock' = IF stop = {} THEN lock ELSE 0
  BY DEF Dc!SwitchHome
<1>2. /\ upsets' = upsets + 1 /\ callFaults' = callFaults + 1
      /\ sender' = 0 /\ lost' = lost \ {sender}
      /\ UNCHANGED <<key, keyOf, mine, auth, again, began, file, made, revoked>>
  BY DEF Dc!SwitchHome, Dc!Fault, Dc!server
<1>3. callPc' \in [Tasks -> CallStates]
  BY <1>1, CallFacts DEF CallStates
<1>4. \A u \in Tasks : callPc'[u] = callPc[u]
                       \/ (callPc'[u] = "cut" /\ callPc[u] \in {"call", "import"})
  BY <1>1
<1>5. open' \subseteq open /\ lost' \subseteq (1 .. Len(keyOf)) \ open' /\ lock' \in Tasks \union {0}
  <2>1. open \subseteq 1 .. Len(keyOf) /\ lost \subseteq (1 .. Len(keyOf)) \ open
    BY CallFacts
  <2>2. open' \subseteq open
    BY <1>1
  <2>3. lost' \subseteq (1 .. Len(keyOf)) \ open'
    BY <1>2, <2>1, <2>2
  <2>4. lock' \in Tasks \union {0}
    BY <1>1, CallFacts
  <2> QED
    BY <2>2, <2>3, <2>4
<1>6. \A u \in Tasks : callPc'[u] \in Opening => callPc[u] \in Opening /\ lock' = lock
  <2>1. CASE stop = {}
    BY <1>1, <1>4, <2>1 DEF Opening
  <2>2. CASE stop # {}
    <3>1. PICK v \in stop : callPc[v] = "import" /\ callPc'[v] = "cut"
      BY <2>2, <1>1
    <3>2. \A u \in Tasks : u # v => callPc[u] \notin Opening
      BY <3>1, OneOpener, <1>1 DEF Opening
    <3> QED
      BY <3>1, <3>2, <1>4 DEF Opening
  <2> QED
    BY <2>1, <2>2
<1> QED
  BY <1>2, <1>3, <1>4, <1>5, <1>6, UpsetKeeps

LEMMA ReconnectKeeps ==
  ASSUME Dc!DataCentresAssumption, CallInv, NEW s, Dc!Reconnect(s) PROVE CallInv'
<1>1. /\ s \in lost /\ lost' = lost \ {s} /\ open' = open \union {s}
      /\ UNCHANGED <<key, sender, keyOf, lock, callPc, mine, auth, again, began, file, made,
                     revoked, upsets, callFaults>>
  BY DEF Dc!Reconnect, Dc!task, Dc!server
<1>2. open' \subseteq 1 .. Len(keyOf) /\ lost' \subseteq lost \ open' /\ open \subseteq open'
  BY <1>1, CallFacts
<1>3. /\ open' \subseteq 1 .. Len(keyOf') /\ lost' \subseteq (1 .. Len(keyOf')) \ open'
      /\ \A u \in Tasks : Watched(u) => Watched(u)'
      /\ \A u \in Tasks : Clean(u) => Clean(u)'
  BY <1>1, <1>2, UpKeeps DEF Opening
<1>4. Dc!TypeOK' /\ CallTypes'
  BY <1>1, <1>3 DEF CallInv, Dc!TypeOK, CallTypes
<1>5. OpenersLock' /\ HasSender' /\ BeganBefore' /\ FirstTry' /\ RefusedKnows'
      /\ Dc!FailuresHaveCause'
  BY <1>1 DEF CallInv, OpenersLock, HasSender, BeganBefore, FirstTry, RefusedKnows, Opening,
              Dc!FailuresHaveCause
<1>6. Tracks'
  BY <1>1, <1>3 DEF CallInv, Tracks
<1> QED
  BY <1>4, <1>5, <1>6 DEF CallInv

\* The keys there are and the one a download brings.
LEMMA KeysKeep ==
  ASSUME Dc!DataCentresAssumption, CallInv,
         UNCHANGED <<sender, keyOf, open, lost, lock, callPc, mine, auth, again, began, upsets,
                     callFaults>>,
         made' \in Nat, made <= made', made' <= MaxKeys,
         {key, file}' \subseteq 0 .. made', revoked' \subseteq 1 .. made', revoked \subseteq revoked',
         key' = key \/ key' \notin revoked
  PROVE  CallInv'
<1>1. 0 .. made \subseteq 0 .. made' /\ 1 .. made \subseteq 1 .. made'
  BY CallFacts
<1>2. Dc!TypeOK'
  <2>1. keyOf' \in Seq(1 .. made')
    BY CallFacts, MoreKeys
  <2>2. lock \in Tasks \union {0} /\ sender \in 0 .. Len(keyOf) /\ Len(keyOf) <= MaxSenders
        /\ callPc \in [Tasks -> CallStates]
        /\ open \subseteq 1 .. Len(keyOf) /\ lost \subseteq (1 .. Len(keyOf)) \ open
    BY CallFacts DEF CallInv, Dc!TypeOK
  <2>3. made' \in 0 .. MaxKeys
    BY CallFacts
  <2> QED
    BY <2>1, <2>2, <2>3 DEF Dc!TypeOK, CallStates
<1>3. CallTypes'
  <2>1. auth \in [Tasks -> 0 .. made']
    BY <1>1 DEF CallInv, CallTypes
  <2>2. [revoked : SUBSET (1 .. made), upsets : Nat] \subseteq [revoked : SUBSET (1 .. made'), upsets : Nat]
    BY <1>1
  <2>3. began \in [Tasks -> [revoked : SUBSET (1 .. made'), upsets : Nat]]
    BY <2>2 DEF CallInv, CallTypes
  <2> QED
    BY <2>1, <2>3 DEF CallInv, CallTypes
<1>4. OpenersLock' /\ HasSender' /\ BeganBefore' /\ FirstTry' /\ RefusedKnows'
      /\ Dc!FailuresHaveCause'
  BY DEF CallInv, OpenersLock, HasSender, BeganBefore, FirstTry, RefusedKnows, Opening,
         Dc!FailuresHaveCause
<1>5. \A u \in Tasks : (Watched(u) => Watched(u)') /\ (Clean(u) => Clean(u)')
  BY DEF Watched, Clean, CallInv, BeganBefore
<1>6. Tracks'
  BY <1>5 DEF CallInv, Tracks
<1> QED
  BY <1>2, <1>3, <1>4, <1>6 DEF CallInv

LEMMA FileKeeps ==
  ASSUME Dc!DataCentresAssumption, CallInv, Dc!FileKey \/ Dc!FileImport PROVE CallInv'
<1>1. CASE Dc!FileKey
  <2>1. /\ made < MaxKeys /\ made' = made + 1 /\ file' = made' /\ key' = key /\ revoked' = revoked
        /\ UNCHANGED <<sender, keyOf, open, lost, lock, callPc, mine, auth, again, began, upsets,
                       callFaults>>
    BY <1>1 DEF Dc!FileKey, Dc!network, Dc!task
  <2>2. /\ made' \in Nat /\ made <= made' /\ made' <= MaxKeys
        /\ {key, file}' \subseteq 0 .. made' /\ revoked' \subseteq 1 .. made'
    BY <2>1, CallFacts
  <2> QED
    BY <2>1, <2>2, KeysKeep
<1>2. CASE Dc!FileImport
  <2>1. /\ file' = 0 /\ made' = made /\ revoked' = revoked
        /\ key' = key \/ (key' = file /\ file \notin revoked)
        /\ UNCHANGED <<sender, keyOf, open, lost, lock, callPc, mine, auth, again, began, upsets,
                       callFaults>>
    BY <1>2 DEF Dc!FileImport, Dc!network, Dc!task, Dc!server
  <2>2. made <= MaxKeys /\ {key, file}' \subseteq 0 .. made' /\ revoked' \subseteq 1 .. made'
    BY <2>1, CallFacts, SMTT(30) DEF CallInv, Dc!TypeOK
  <2> QED
    BY <2>1, <2>2, CallFacts, KeysKeep
<1> QED
  BY <1>1, <1>2

LEMMA CallRevokeKeeps ==
  ASSUME Dc!DataCentresAssumption, CallInv, NEW k, Dc!Revoke(k) PROVE CallInv'
<1>1. /\ k \in 1 .. made /\ revoked' = revoked \union {k}
      /\ UNCHANGED <<key, file, made, sender, keyOf, open, lost, lock, callPc, mine, auth, again,
                     began, upsets, callFaults>>
  BY DEF Dc!Revoke, Dc!network, Dc!task
<1>2. made <= MaxKeys /\ {key, file}' \subseteq 0 .. made' /\ revoked' \subseteq 1 .. made'
  BY <1>1, CallFacts, SMTT(30) DEF CallInv, Dc!TypeOK
<1> QED
  BY <1>1, <1>2, CallFacts, KeysKeep

LEMMA CallStutters ==
  ASSUME CallInv, UNCHANGED Dc!vars PROVE CallInv'
BY DEF CallInv, Dc!vars, Dc!network, Dc!server, Dc!task, Dc!TypeOK, CallTypes, OpenersLock,
       HasSender, BeganBefore, FirstTry, RefusedKnows, Tracks, Watched, Clean, Dc!FailuresHaveCause

LEMMA CallsStep ==
  ASSUME Dc!DataCentresAssumption, CallInv, [Dc!Next]_(Dc!vars) PROVE CallInv'
<1>1. CASE UNCHANGED Dc!vars
  BY <1>1, CallStutters
<1>2. CASE \E t \in Tasks : Dc!TaskStep(t) \/ Dc!Begin(t) \/ Dc!Fails(t)
  BY <1>2, EnterKeeps, DiscardKeeps, DiscardedKeeps, ConnectKeeps, ImportKeeps, OpenFailsKeeps,
     AnsweredKeeps, RefusedKeeps, BeginKeeps, FailsKeeps DEF Dc!TaskStep
<1>3. CASE \E s \in 1 .. Len(keyOf) : Dc!Lose(s) \/ Dc!Reconnect(s)
  BY <1>3, LoseKeeps, ReconnectKeeps
<1>4. CASE \E k \in 1 .. made : Dc!Revoke(k)
  BY <1>4, CallRevokeKeeps
<1>5. CASE Dc!SwitchHome \/ Dc!FileKey \/ Dc!FileImport
  BY <1>5, SwitchHomeKeeps, FileKeeps
<1> QED
  BY <1>1, <1>2, <1>3, <1>4, <1>5 DEF Dc!Next

\* No call gives up because of a key that was known to be bad when it began,
\* and none is cancelled for a key that was good (MTNet.call_dc).
THEOREM FailuresAreCaused == ASSUME Dc!DataCentresAssumption PROVE Dc!Spec => []CallInv
<1>1. Dc!Init => CallInv
  BY CallInit
<1>2. CallInv /\ [Dc!Next]_(Dc!vars) => CallInv'
  BY CallsStep
<1> QED
  BY <1>1, <1>2, PTL DEF Dc!Spec

-----------------------------------------------------------------------------
(* The parts together: whatever part is chosen, each of them behaves as its  *)
(* own specification says, the others by standing still.                     *)

LEMMA PartsStart ==
  Init => /\ Schema!Init /\ Dc!Init /\ Down!Init /\ Up!Init
          /\ Fsm!Init /\ Iter!Init /\ Vault!Init /\ Login!Init
BY DEF Init

\* The variables of each part, as its module groups them.
LEMMA PartsStandStill ==
  /\ UNCHANGED schemaVars => UNCHANGED Schema!vars
  /\ UNCHANGED dcVars => UNCHANGED Dc!vars
  /\ UNCHANGED downVars => UNCHANGED Down!vars
  /\ UNCHANGED upVars => UNCHANGED Up!vars
  /\ UNCHANGED fsmVars => UNCHANGED Fsm!vars
  /\ UNCHANGED iterVars => UNCHANGED Iter!vars
  /\ UNCHANGED vaultVars => UNCHANGED Vault!vars
  /\ UNCHANGED loginVars => UNCHANGED Login!vars
<1>1. UNCHANGED schemaVars => UNCHANGED Schema!vars
  BY DEF schemaVars, Schema!vars, Schema!disk, Schema!fetched, Schema!use
<1>2. UNCHANGED dcVars => UNCHANGED Dc!vars
  BY DEF dcVars, Dc!vars, Dc!network, Dc!server, Dc!task
<1>3. UNCHANGED downVars => UNCHANGED Down!vars
  BY DEF downVars, Down!vars, Down!choice, Down!work
<1>4. UNCHANGED upVars => UNCHANGED Up!vars
  BY DEF upVars, Up!vars, Up!choice
<1>5. UNCHANGED fsmVars => UNCHANGED Fsm!vars
  BY DEF fsmVars, Fsm!vars
<1>6. UNCHANGED iterVars => UNCHANGED Iter!vars
  BY DEF iterVars, Iter!vars, Iter!list, Iter!cursor, Iter!choice
<1>7. UNCHANGED vaultVars => UNCHANGED Vault!vars
  BY DEF vaultVars, Vault!vars, Vault!memory, Vault!server, Vault!history
<1>8. UNCHANGED loginVars => UNCHANGED Login!vars
  BY DEF loginVars, Login!vars, Login!qr, Login!phone, Login!slips
<1> QED
  BY <1>1, <1>2, <1>3, <1>4, <1>5, <1>6, <1>7, <1>8

LEMMA PartsStep ==
  [Next]_vars => /\ [Schema!Next]_(Schema!vars) /\ [Dc!Next]_(Dc!vars)
                 /\ [Down!Next]_(Down!vars) /\ [Up!Next]_(Up!vars)
                 /\ [Fsm!Next]_(Fsm!vars) /\ [Iter!Next]_(Iter!vars)
                 /\ [Vault!Next]_(Vault!vars) /\ [Login!Next]_(Login!vars)
<1> SUFFICES ASSUME [Next]_vars
             PROVE  /\ Schema!Next \/ UNCHANGED schemaVars
                    /\ Dc!Next \/ UNCHANGED dcVars
                    /\ Down!Next \/ UNCHANGED downVars
                    /\ Up!Next \/ UNCHANGED upVars
                    /\ Fsm!Next \/ UNCHANGED fsmVars
                    /\ Iter!Next \/ UNCHANGED iterVars
                    /\ Vault!Next \/ UNCHANGED vaultVars
                    /\ Login!Next \/ UNCHANGED loginVars
  BY PartsStandStill
<1>1. CASE UNCHANGED vars
  BY <1>1 DEF vars, transfer, session
<1>2. CASE Next
  BY <1>2 DEF Next, transfer, session
<1> QED
  BY <1>1, <1>2

\* Whatever part is chosen, the behaviour is one of every part: the others stand
\* still.
THEOREM PartsBehave ==
  Spec => /\ Schema!Spec /\ Dc!Spec /\ Down!Spec /\ Up!Spec
          /\ Fsm!Spec /\ Iter!Spec /\ Vault!Spec /\ Login!Spec
BY PartsStart, PartsStep, PTL
   DEF Spec, Schema!Spec, Dc!Spec, Down!Spec, Up!Spec, Fsm!Spec, Iter!Spec, Vault!Spec, Login!Spec

\* An etag never names a newer text than the file holds.
THEOREM EtagsStayBehind == Spec => []EtagsNotAhead
<1>1. Schema!Spec => []Schema!EtagsNotAhead
  BY PartsAssumption, EtagsNeverAhead
<1> QED
  BY <1>1, PartsBehave, PTL DEF EtagsNotAhead

\* A call fails for an authorisation that was good when it began, and is
\* cancelled only for one that is refused.
THEOREM CallsFailForCause == Spec => []FailuresHaveCause
<1>1. Dc!Spec => []CallInv
  BY PartsAssumption, FailuresAreCaused
<1>2. CallInv => FailuresHaveCause
  BY DEF CallInv, FailuresHaveCause
<1> QED
  BY <1>1, <1>2, PartsBehave, PTL

\* A restart finds the conversation states that live, the access hashes that were
\* known and a session that is authorised.
THEOREM RestartsSurvive == Spec => []SurvivesRestart
<1>1. Fsm!Spec => [](Fsm!TypeOK /\ Fsm!SurvivesRestart)
  BY PartsAssumption, RestartFindsTheLiving
<1>2. Vault!Spec => [](Vault!TypeOK /\ Vault!SessionSurvives)
  BY PartsAssumption, VaultIsSound
<1>3. Login!Spec => []LoginInv
  BY PartsAssumption, LoginIsSaved
<1>4. Fsm!SurvivesRestart /\ Vault!SessionSurvives /\ LoginInv => SurvivesRestart
  BY DEF LoginInv, SurvivesRestart
<1> QED
  BY <1>1, <1>2, <1>3, <1>4, PartsBehave, PTL

\* A download leaves the old file or the whole new one, a part is uploaded with
\* its own chunk, and a list that is fetched in batches misses and repeats
\* nothing that stays in its place.
THEOREM PiecesAreWhole == Spec => []PiecesMakeWhole
<1>1. Down!Spec => [](Down!TypeOK /\ Down!WholeFile)
  BY PartsAssumption, DownloadsAreWhole
<1>2. Up!Spec => [](Up!TypeOK /\ Up!PartsInPlace)
  BY PartsAssumption, PartsStayInPlace
<1>3. Iter!Spec => [](Iter!TypeOK /\ Iter!NothingSkipped)
  BY PartsAssumption, ListsAreWhole
<1>4. Down!WholeFile /\ Up!PartsInPlace /\ Iter!NothingSkipped => PiecesMakeWhole
  BY DEF PiecesMakeWhole
<1> QED
  BY <1>1, <1>2, <1>3, <1>4, PartsBehave, PTL

\* Every variable of every part has its type.
THEOREM PartsTypeCorrect == Spec => []TypeOK
<1>1. Schema!Spec => []CacheInv
  BY PartsAssumption, CacheIsConsistent
<1>2. Dc!Spec => []CallInv
  BY PartsAssumption, FailuresAreCaused
<1>3. Down!Spec => [](Down!TypeOK /\ Down!WholeFile)
  BY PartsAssumption, DownloadsAreWhole
<1>4. Up!Spec => [](Up!TypeOK /\ Up!PartsInPlace)
  BY PartsAssumption, PartsStayInPlace
<1>5. Fsm!Spec => [](Fsm!TypeOK /\ Fsm!SurvivesRestart)
  BY PartsAssumption, RestartFindsTheLiving
<1>6. Iter!Spec => [](Iter!TypeOK /\ Iter!NothingSkipped)
  BY PartsAssumption, ListsAreWhole
<1>7. Vault!Spec => [](Vault!TypeOK /\ Vault!SessionSurvives)
  BY PartsAssumption, VaultIsSound
<1>8. Login!Spec => []LoginInv
  BY PartsAssumption, LoginIsSaved
<1>9. CacheInv => Schema!TypeOK
  BY DEF CacheInv
<1>10. CallInv => Dc!TypeOK
  BY DEF CallInv
<1>11. LoginInv => Login!TypeOK
  BY DEF LoginInv
<1>12. /\ Schema!TypeOK /\ Dc!TypeOK /\ Down!TypeOK /\ Up!TypeOK
       /\ Fsm!TypeOK /\ Iter!TypeOK /\ Vault!TypeOK /\ Login!TypeOK
       => TypeOK
  BY DEF TypeOK
<1> QED
  BY <1>1, <1>2, <1>3, <1>4, <1>5, <1>6, <1>7, <1>8, <1>9, <1>10, <1>11, <1>12, PartsBehave, PTL
=============================================================================
