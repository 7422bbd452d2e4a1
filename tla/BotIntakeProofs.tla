-------------------------- MODULE BotIntakeProofs --------------------------
(***************************************************************************)
(* Proofs about the intake of Bot API updates, for any number of updates,  *)
(* failures and webhook requests, and any size of batches, of the bus and  *)
(* of the window of the webhook.                                           *)
(***************************************************************************)
EXTENDS BotIntake, FiniteSetTheorems, SequenceTheorems, TLAPS

\* What runs belongs to the configured mode, and a process that is down has
\* nothing in memory.
Modes ==
  /\ pc \in {"ask", "batch", "save", "error"} => mode = "poll"
  /\ pc = "serve" => mode = "hook"
  /\ pc = "down" => here = {} /\ batch = {}
  /\ pc # "serve" => seen = {} /\ highest = -1 /\ \A p \in Posts : post[p] = NoPost
  /\ pc \in {"ask", "error", "serve"} => batch = {}

\* Both offsets follow updates that have been pushed.
Offsets ==
  /\ off <= srv + 1 /\ file <= srv + 1
  /\ \A u \in 1 .. srv : u < off \/ u < file => u \in ever
  /\ mode = "poll" /\ pc # "down" => file <= off

\* A batch has no gaps before it, and lies behind the offsets.
Batches ==
  /\ \A b \in batch : off <= b
  /\ \A b \in batch : \A u \in 1 .. srv : u < b => u \in ever \/ u \in batch
  /\ pc = "save" => \A u \in batch : IsNext(u) => u \in ever

\* While it polls, what a process has pushed lies before its offset; the update
\* just pushed will.
Polled == mode = "poll" =>
  \A u \in here : u < off \/ (pc = "save" /\ IsNext(u))

\* Webhook requests: one pushes at a time, what it pushes has not been seen, and
\* what was pushed is either remembered or old.
Hooked ==
  /\ seen \subseteq ever
  /\ \A p \in Posts : post[p].at # "none" => post[p].upd \in 1 .. srv
  /\ \A p \in Posts : post[p].at = "reply" => post[p].upd \in ever
  /\ \A p \in Posts : post[p].at = "push" => post[p].upd \notin seen
  /\ \A p, q \in Posts : post[p].at = "push" /\ post[q].at = "push" => p = q
  /\ mode = "hook" => \A u \in here : u \in seen \/ u < highest - Keep

IntakeInv ==
  TypeOK /\ ForgottenWasPushed /\ Modes /\ Offsets /\ Batches /\ Polled /\ Hooked

-----------------------------------------------------------------------------
(* Lemmas about the helpers *)

PostType == [upd : 0 .. MaxUpd, at : {"none", "lock", "push", "reply"}]

\* The constants are numbers.
LEMMA Numbers ==
  /\ BatchMax \in Nat /\ BusMax \in Nat /\ SeenMax \in Nat /\ Keep \in Nat
  /\ Retries \in Nat /\ MaxUpd \in Nat /\ MaxFaults \in Nat
BY IntakeAssumption

\* The first n of a set: with one of them come those before it.
LEMMA FirstIsClosed ==
  ASSUME NEW m \in Nat, NEW S \in SUBSET (1 .. m), NEW n \in Nat,
         NEW u \in First(S, n), NEW v \in S, v < u
  PROVE  v \in First(S, n)
<1>1. IsFiniteSet(1 .. m) /\ IsFiniteSet(S)
  <2>1. IsFiniteSet(1 .. m)
    BY FS_Interval
  <2> QED
    BY <2>1, FS_Subset
<1> DEFINE U == {w \in S : w < u}
           V == {w \in S : w < v}
<1>2. IsFiniteSet(U) /\ V \subseteq U
  <2>1. U \subseteq S
    OBVIOUS
  <2>2. V \subseteq U
    <3>1. u \in S
      BY DEF First
    <3>2. ASSUME NEW w \in S, w < v PROVE w < u
      <4>1. u \in Int /\ v \in Int /\ w \in Int
        BY <3>1
      <4> QED
        BY <3>2, <4>1
    <3> QED
      BY <3>2
  <2> QED
    BY <1>1, <2>1, <2>2, FS_Subset
<1>3. Cardinality(V) <= Cardinality(U) /\ Cardinality(V) \in Nat /\ Cardinality(U) \in Nat
  <2> HIDE DEF U, V
  <2> QED
    BY <1>2, FS_Subset, FS_CardinalityType
<1>4. Cardinality(U) < n
  BY DEF First
<1>5. Cardinality(V) < n
  <2> HIDE DEF U, V
  <2> QED
    BY <1>3, <1>4
<1> QED
  BY <1>5 DEF First

\* Appending makes a sequence that is neither the old one nor a part of it.
LEMMA AppendIsNew ==
  ASSUME NEW S, NEW s \in Seq(S), NEW u \in S
  PROVE  /\ Append(s, u) # s /\ Append(s, u) # <<>>
         /\ s # <<>> => Append(s, u) # Tail(s)
         /\ \A v \in S : Append(s, v) = Append(s, u) => v = u
<1>1. Len(Append(s, u)) = Len(s) + 1 /\ Append(s, u)[Len(s) + 1] = u /\ Len(s) \in Nat
  BY AppendProperties, LenProperties
<1>2. s # <<>> => Len(Tail(s)) = Len(s) - 1
  BY HeadTailProperties
<1>3. \A v \in S : Append(s, v)[Len(s) + 1] = v
  BY AppendProperties
<1> QED
  BY <1>1, <1>2, <1>3, EmptySeq

\* What is below a mark is below a higher one.
LEMMA Below ==
  ASSUME NEW v \in Int, NEW a \in Int, NEW b \in Int, NEW k \in Int, v < a - k, a <= b
  PROVE  v < b - k
OBVIOUS

\* A push of an update other than an error report.
LEMMA PushTypes ==
  ASSUME TypeOK, NEW u \in 1 .. srv, Push(u)
  PROVE  /\ bus' \in Seq(0 .. MaxUpd) /\ here' = here \cup {u} /\ ever' = ever \cup {u}
         /\ here' \subseteq ever' /\ ever' \subseteq 1 .. srv
<1>1. u \in 0 .. MaxUpd /\ {u} \ {0} = {u}
  BY Numbers, SMT DEF TypeOK
<1>2. bus' \in Seq(0 .. MaxUpd)
  BY <1>1, AppendProperties DEF Push, TypeOK
<1> QED
  BY <1>1, <1>2 DEF Push, TypeOK

\* Faults are counted up to their bound.
LEMMA FaultTypes ==
  ASSUME TypeOK, Fault PROVE faults' \in 0 .. MaxFaults
BY Numbers, SMT DEF TypeOK, Fault

-----------------------------------------------------------------------------
(* The first state, and the steps *)

LEMMA InitIntake == Init => IntakeInv
<1> SUFFICES ASSUME Init PROVE IntakeInv
  OBVIOUS
<1>1. NoPost \in PostType /\ NoPost.at = "none"
  BY Numbers, SMT DEF NoPost, PostType
<1>2. <<>> \in Seq(0 .. MaxUpd)
  OBVIOUS
<1>3. TypeOK
  <2>1. 0 \in 0 .. MaxUpd /\ 0 \in 0 .. MaxUpd + 1 /\ 0 \in 0 .. Retries
        /\ 0 \in 0 .. MaxFaults /\ -1 \in -1 .. MaxUpd
    BY Numbers, SMT
  <2>2. post \in [Posts -> PostType]
    BY <1>1 DEF Init
  <2> QED
    BY <1>2, <2>1, <2>2 DEF Init, TypeOK, PostType
<1>4. ForgottenWasPushed /\ Modes
  BY SMT DEF Init, ForgottenWasPushed, Modes
<1>5. Offsets /\ Batches /\ Polled
  BY SMT DEF Init, Offsets, Batches, Polled
<1>6. Hooked
  BY <1>1 DEF Init, Hooked
<1> QED
  BY <1>3, <1>4, <1>5, <1>6 DEF IntakeInv

\* A new update is none of those that the offsets have passed.
LEMMA NewUpdateKeeps ==
  ASSUME IntakeInv, NewUpdate PROVE IntakeInv'
<1> USE DEF IntakeInv
<1>0. srv \in Nat /\ srv' = srv + 1 /\ srv' \in 0 .. MaxUpd
      /\ off \in Nat /\ file \in Nat
  BY Numbers, SMT DEF NewUpdate, TypeOK
<1>1. 1 .. srv' = (1 .. srv) \cup {srv'}
  BY <1>0, SMT
<1>2. /\ UNCHANGED <<hooked, mode, pc, attempt, off, file, batch, post, seen, highest,
                     bus, here, ever, faults>>
      /\ open' = open \cup {srv'}
  BY <1>0 DEF NewUpdate, poller, webhook, pushed
<1>3. TypeOK'
  BY <1>0, <1>1, <1>2 DEF TypeOK
<1>4. ForgottenWasPushed' /\ Modes'
  BY <1>1, <1>2 DEF ForgottenWasPushed, Modes
<1>5. Offsets'
  BY <1>0, <1>1, <1>2, SMT DEF Offsets
<1>6. Batches' /\ Polled'
  <2>1. \A b \in batch : ~(srv' < b)
    BY <1>0, SMT DEF TypeOK
  <2>2. Batches'
    BY <1>1, <1>2, <2>1 DEF Batches, IsNext
  <2> QED
    BY <1>2, <2>2 DEF Polled, IsNext
<1>7. Hooked'
  BY <1>1, <1>2 DEF Hooked
<1> QED
  BY <1>3, <1>4, <1>5, <1>6, <1>7

\* Steps that only change the answer to "is a webhook registered", the attempts,
\* the bus, the failures, or which waiting state the poller is in.
LEMMA IdleKeeps ==
  ASSUME IntakeInv, UNCHANGED <<srv, open, mode, off, file, batch, webhook, here, ever>>,
         pc' = pc \/ (pc \in {"ask", "error"} /\ pc' \in {"ask", "error"}),
         hooked' \in BOOLEAN, attempt' \in 0 .. Retries, bus' \in Seq(0 .. MaxUpd),
         faults' \in 0 .. MaxFaults
  PROVE  IntakeInv'
<1> USE DEF IntakeInv
<1>1. TypeOK'
  BY DEF TypeOK, webhook
<1>2. ForgottenWasPushed' /\ Modes' /\ Offsets'
  BY DEF ForgottenWasPushed, Modes, Offsets, webhook
<1>3. Batches' /\ Polled'
  BY DEF Batches, Polled, IsNext
<1>4. Hooked'
  BY DEF Hooked, webhook
<1> QED
  BY <1>1, <1>2, <1>3, <1>4

\* The steps that lemma covers.
LEMMA QuietIntakeKeeps ==
  ASSUME IntakeInv,
         RegisterElsewhere \/ Fetch \/ Conflict \/ RateLimited \/ ReportError
           \/ UNCHANGED vars
  PROVE  IntakeInv'
<1> USE DEF IntakeInv
<1>0. /\ attempt \in 0 .. Retries /\ 0 \in 0 .. Retries /\ hooked \in BOOLEAN
      /\ bus \in Seq(0 .. MaxUpd) /\ faults \in 0 .. MaxFaults
      /\ Fault => faults' \in 0 .. MaxFaults
  BY Numbers, FaultTypes, SMT DEF TypeOK
<1> HIDE DEF IntakeInv
<1>1. CASE RegisterElsewhere
  BY <1>0, <1>1, IdleKeeps DEF RegisterElsewhere, poller, pushed
<1>2. CASE Fetch
  <2>1. bus' \in Seq(0 .. MaxUpd)
    BY <1>0, <1>2, HeadTailProperties DEF Fetch
  <2> QED
    BY <1>0, <1>2, <2>1, IdleKeeps DEF Fetch, server, poller
<1>3. CASE Conflict
  BY <1>0, <1>3, IdleKeeps DEF Conflict, pushed
<1>4. CASE RateLimited
  <2>1. attempt' \in 0 .. Retries
    BY <1>0, <1>4, Numbers, SMT DEF RateLimited
  <2> QED
    BY <1>0, <1>4, <2>1, IdleKeeps DEF RateLimited, server, pushed
<1>5. CASE ReportError
  <2>1. 0 \in 0 .. MaxUpd /\ {0} \ {0} = {}
    BY Numbers, SMT
  <2>2. bus' \in Seq(0 .. MaxUpd) /\ UNCHANGED <<here, ever>>
    BY <1>0, <1>5, <2>1, AppendProperties DEF ReportError, Push
  <2> QED
    BY <1>0, <1>5, <2>2, IdleKeeps DEF ReportError, server, poller
<1>6. CASE UNCHANGED vars
  BY <1>0, <1>6, IdleKeeps DEF vars, server, poller, pushed
<1> QED
  BY <1>1, <1>2, <1>3, <1>4, <1>5, <1>6

\* Starting to poll takes the offset from the file; starting to serve likewise.
LEMMA StartKeeps ==
  ASSUME IntakeInv, StartPolling \/ StartWebhook PROVE IntakeInv'
<1> USE DEF IntakeInv
<1>1. /\ pc = "down" /\ UNCHANGED <<srv, open, mode, file, batch, webhook, pushed>>
      /\ off' = file
      /\ ((pc' = "ask" /\ mode = "poll") \/ (pc' = "serve" /\ mode = "hook"))
      /\ hooked' \in BOOLEAN /\ attempt' \in 0 .. Retries /\ faults' \in 0 .. MaxFaults
  <2>1. /\ hooked \in BOOLEAN /\ 0 \in 0 .. Retries /\ attempt \in 0 .. Retries
        /\ faults \in 0 .. MaxFaults
        /\ (Fault => faults' \in 0 .. MaxFaults)
    BY FaultTypes, Numbers DEF TypeOK
  <2> HIDE DEF IntakeInv
  <2> QED
    BY <2>1 DEF StartPolling, StartWebhook
<1>2. here = {} /\ batch = {}
  BY <1>1 DEF Modes
<1>3. TypeOK'
  <2>1. pc' \in {"ask", "serve"} /\ off' \in 0 .. MaxUpd + 1
    BY <1>1 DEF TypeOK
  <2> QED
    BY <1>1, <2>1 DEF TypeOK, webhook, pushed
<1>4. ForgottenWasPushed' /\ Modes'
  BY <1>1, <1>2 DEF ForgottenWasPushed, Modes, webhook, pushed
<1>5. Offsets'
  BY <1>1, SMT DEF Offsets, pushed, TypeOK
<1>6. Batches' /\ Polled' /\ Hooked'
  BY <1>1, <1>2 DEF Batches, Polled, Hooked, webhook, pushed
<1> QED
  BY <1>3, <1>4, <1>5, <1>6

\* The end of the process: the files and the server keep what they have.
LEMMA StopKeeps ==
  ASSUME IntakeInv, Stop PROVE IntakeInv'
<1> USE DEF IntakeInv
<1>1. /\ pc' = "down" /\ UNCHANGED <<srv, open, mode, file, ever>>
      /\ off' = 0 /\ batch' = {} /\ post' = [p \in Posts |-> NoPost]
      /\ seen' = {} /\ highest' = -1 /\ bus' = <<>> /\ here' = {} /\ attempt' = 0
  BY DEF Stop
<1>2. hooked' \in BOOLEAN /\ faults' \in 0 .. MaxFaults
  BY FaultTypes DEF Stop, TypeOK
<1>3. 0 \in 0 .. MaxUpd + 1 /\ 0 \in 0 .. Retries /\ -1 \in -1 .. MaxUpd
      /\ NoPost \in PostType /\ NoPost.at = "none"
  BY Numbers, SMT DEF NoPost, PostType
<1>4. TypeOK'
  <2>1. post' \in [Posts -> PostType]
    BY <1>1, <1>3
  <2> QED
    BY <1>1, <1>2, <1>3, <2>1 DEF TypeOK, PostType
<1>5. ForgottenWasPushed' /\ Modes'
  BY <1>1 DEF ForgottenWasPushed, Modes
<1>6. Offsets'
  <2>1. srv \in Nat
    BY DEF TypeOK
  <2> QED
    BY <1>1, <2>1, SMT DEF Offsets
<1>7. Batches' /\ Polled' /\ Hooked'
  BY <1>1, <1>3 DEF Batches, Polled, Hooked
<1> QED
  BY <1>4, <1>5, <1>6, <1>7

\* What a request with this offset confirms has been pushed.
LEMMA ConfirmKeeps ==
  ASSUME IntakeInv, Confirm, UNCHANGED <<srv, ever>>
  PROVE  open' \subseteq open /\ ForgottenWasPushed'
<1>1. ASSUME NEW u \in 1 .. srv, u \notin open' PROVE u \in ever
  BY <1>1, SMT DEF IntakeInv, Confirm, ForgottenWasPushed, Offsets, TypeOK
<1> QED
  BY <1>1 DEF Confirm, ForgottenWasPushed

\* getUpdates, answered or not.
LEMMA RequestKeeps ==
  ASSUME IntakeInv, GetUpdates \/ RequestFails PROVE IntakeInv'
<1>1. CASE GetUpdates
  <2>0. /\ pc = "ask" /\ Confirm /\ batch' = First(open', BatchMax)
        /\ pc' = IF batch' = {} THEN "ask" ELSE "batch"
        /\ attempt' = 0
        /\ UNCHANGED <<srv, hooked, mode, off, file, post, seen, highest, bus, here, ever,
                       faults>>
    BY <1>1 DEF GetUpdates, webhook, pushed
  <2>1. open' \subseteq open /\ ForgottenWasPushed'
    BY <2>0, ConfirmKeeps
  <2>2. batch' \subseteq open' /\ open \subseteq 1 .. srv /\ srv \in Nat
        /\ pc' \in {"ask", "batch"} /\ mode = "poll"
    BY <2>0 DEF First, IntakeInv, TypeOK, Modes
  <2>3. TypeOK'
    <3>1. 0 \in 0 .. Retries
      BY Numbers, SMT
    <3>2. open' \subseteq 1 .. srv' /\ batch' \subseteq 1 .. srv'
      BY <2>0, <2>1, <2>2
    <3> QED
      BY <2>0, <2>2, <3>1, <3>2 DEF IntakeInv, TypeOK
  <2>4. Modes'
    BY <2>0, <2>2 DEF IntakeInv, Modes
  <2>5. Offsets'
    BY <2>0 DEF IntakeInv, Offsets
  <2>6. Batches'
    <3>1. \A b \in batch' : off' <= b
      BY <2>0, <2>2 DEF Confirm
    <3>2. ASSUME NEW b \in batch', NEW u \in 1 .. srv, u < b
          PROVE  u \in ever \/ u \in batch'
      <4>1. CASE u \in open'
        <5>1. BatchMax \in Nat /\ open' \in SUBSET (1 .. srv)
          BY <2>1, <2>2, Numbers
        <5>2. b \in First(open', BatchMax)
          BY <2>0
        <5> QED
          BY <2>0, <2>2, <3>2, <4>1, <5>1, <5>2, FirstIsClosed
      <4>2. CASE u \notin open'
        BY <2>0, <2>1, <4>2 DEF ForgottenWasPushed
      <4> QED
        BY <4>1, <4>2
    <3> QED
      BY <2>0, <2>2, <3>1, <3>2 DEF Batches
  <2>7. Polled' /\ Hooked'
    BY <2>0 DEF IntakeInv, Polled, Hooked
  <2> QED
    BY <2>1, <2>3, <2>4, <2>5, <2>6, <2>7 DEF IntakeInv
<1>2. CASE RequestFails
  <2>0. /\ pc = "ask" /\ pc' = "error" /\ attempt' = 0
        /\ UNCHANGED <<srv, hooked, mode, off, file, batch, post, seen, highest, bus, here,
                       ever>>
    BY <1>2 DEF RequestFails, webhook, pushed
  <2>1. open' \subseteq open /\ ForgottenWasPushed'
    BY <1>2, <2>0, ConfirmKeeps DEF RequestFails, IntakeInv, ForgottenWasPushed
  <2>2. faults' \in 0 .. MaxFaults
    BY <1>2, FaultTypes DEF RequestFails, IntakeInv
  <2>3. TypeOK'
    BY <2>0, <2>1, <2>2, Numbers, SMT DEF IntakeInv, TypeOK
  <2>4. Modes' /\ Offsets'
    BY <2>0 DEF IntakeInv, Modes, Offsets
  <2>5. Batches' /\ Polled' /\ Hooked'
    BY <2>0 DEF IntakeInv, Batches, Polled, Hooked, IsNext
  <2> QED
    BY <2>1, <2>3, <2>4, <2>5 DEF IntakeInv
<1> QED
  BY <1>1, <1>2

\* The next update of the batch goes on the bus.
LEMMA PushNextKeeps ==
  ASSUME IntakeInv, NEW u \in batch, PushNext(u) PROVE IntakeInv'
<1> USE DEF IntakeInv
<1>0. /\ pc = "batch" /\ pc' = "save" /\ IsNext(u) /\ Push(u) /\ mode = "poll"
      /\ UNCHANGED <<srv, open, hooked, mode, attempt, off, file, batch, post, seen,
                     highest, faults>>
  BY DEF PushNext, Modes, server, poller, webhook
<1>1. /\ bus' \in Seq(0 .. MaxUpd) /\ here' = here \cup {u} /\ ever' = ever \cup {u}
      /\ here' \subseteq ever' /\ ever' \subseteq 1 .. srv
  BY <1>0, PushTypes DEF TypeOK
<1>2. ASSUME NEW v \in batch, IsNext(v) PROVE v = u
  BY <1>0, <1>2, SMT DEF IsNext, TypeOK
<1>3. TypeOK'
  BY <1>0, <1>1 DEF TypeOK
<1>4. ForgottenWasPushed' /\ Modes' /\ Offsets'
  BY <1>0, <1>1 DEF ForgottenWasPushed, Modes, Offsets
<1>5. Batches'
  BY <1>0, <1>1, <1>2 DEF Batches, IsNext
<1>6. Polled'
  BY <1>0, <1>1 DEF Polled, IsNext
<1>7. Hooked'
  BY <1>0, <1>1 DEF Hooked
<1> QED
  BY <1>3, <1>4, <1>5, <1>6, <1>7

\* The offset moves behind it, in memory and, unless that fails, in the file.
LEMMA SaveOffsetKeeps ==
  ASSUME IntakeInv, NEW u \in batch, SaveOffset(u) PROVE IntakeInv'
<1> USE DEF IntakeInv
<1>0. /\ pc = "save" /\ IsNext(u) /\ off' = u + 1 /\ mode = "poll"
      /\ (file' = u + 1 /\ batch' = batch \ {u} /\ pc' \in {"ask", "batch"}
             /\ (pc' = "ask" => batch' = {}) /\ UNCHANGED faults)
         \/ (batch' = {} /\ pc' = "error" /\ UNCHANGED file /\ Fault)
      /\ UNCHANGED <<srv, open, hooked, mode, attempt, post, seen, highest, bus, here,
                     ever>>
  BY DEF SaveOffset, Modes, server, webhook, pushed
<1>1. /\ u \in 1 .. srv /\ srv \in 0 .. MaxUpd /\ batch' \subseteq batch
      /\ off \in 0 .. MaxUpd + 1 /\ file \in 0 .. MaxUpd + 1 /\ MaxUpd \in Nat
      /\ batch \subseteq 1 .. srv /\ off <= u /\ file <= off
  BY <1>0, Numbers DEF TypeOK, Batches, Offsets
<1>2. u \in ever /\ \A v \in batch : u <= v
  BY <1>0 DEF Batches, IsNext
<1>3. \A v \in 1 .. srv : v < u + 1 => v \in ever
  <2>1. \A v \in 1 .. srv : v < u => v \in ever \/ v \in batch
    BY DEF Batches
  <2>2. \A v \in 1 .. srv : v < u => v \notin batch
    BY <1>1, <1>2, SMT
  <2>3. \A v \in 1 .. srv : v < u + 1 => v < u \/ v = u
    BY <1>1, SMT
  <2> QED
    BY <1>2, <2>1, <2>2, <2>3
<1>4. /\ off' \in 0 .. MaxUpd + 1 /\ off' <= srv + 1 /\ file' \in 0 .. MaxUpd + 1
      /\ file' <= srv + 1 /\ file' <= off'
  BY <1>0, <1>1, SMT
<1>5. TypeOK'
  <2>1. faults' \in 0 .. MaxFaults /\ pc' \in {"ask", "batch", "error"}
    BY <1>0, FaultTypes DEF TypeOK
  <2> QED
    BY <1>0, <1>1, <1>4, <2>1 DEF TypeOK
<1>6. ForgottenWasPushed' /\ Modes'
  BY <1>0 DEF ForgottenWasPushed, Modes
<1>7. Offsets'
  <2>1. \A v \in 1 .. srv : v < off' \/ v < file' => v \in ever
    BY <1>0, <1>1, <1>3, <1>4, SMT
  <2> QED
    BY <1>0, <1>4, <2>1 DEF Offsets
<1>8. Batches'
  <2>1. ASSUME NEW b \in batch' PROVE off' <= b
    <3>1. b \in batch /\ b # u
      BY <1>0, <2>1
    <3> QED
      BY <1>0, <1>1, <1>2, <3>1, SMT
  <2>2. ASSUME NEW b \in batch', NEW v \in 1 .. srv, v < b
        PROVE  v \in ever \/ v \in batch'
    BY <1>0, <1>1, <1>2, <2>2 DEF Batches
  <2> QED
    BY <1>0, <2>1, <2>2 DEF Batches
<1>9. Polled'
  <2>1. ASSUME NEW v \in here PROVE v < off'
    <3>1. v < off \/ v = u
      <4>1. v < off \/ (v \in batch /\ \A w \in batch : v <= w)
        BY <1>0 DEF Polled, IsNext
      <4>2. v \in batch /\ (\A w \in batch : v <= w) => v = u
        BY <1>1, <1>2, SMT
      <4> QED
        BY <4>1, <4>2
    <3>2. v \in Int
      BY DEF TypeOK
    <3> QED
      BY <1>0, <1>1, <3>1, <3>2, SMT
  <2> QED
    BY <1>0, <2>1 DEF Polled
<1>10. Hooked'
  BY <1>0 DEF Hooked
<1> QED
  BY <1>5, <1>6, <1>7, <1>8, <1>9, <1>10

\* The webhook: a delivery, and the lock.
LEMMA DeliverKeeps ==
  ASSUME IntakeInv, NEW p \in Posts,
         (\E u \in Updates : Deliver(p, u)) \/ Lock(p)
  PROVE  IntakeInv'
<1> USE DEF IntakeInv
<1>0. /\ post \in [Posts -> PostType]
      /\ \A q \in Posts : post[q].at # "none" => pc = "serve"
  BY DEF TypeOK, PostType, Modes, NoPost
<1>1. ASSUME UNCHANGED <<server, mode, pc, poller, seen, highest, pushed, faults>>,
             pc = "serve", NEW s \in PostType, post' = [post EXCEPT ![p] = s],
             s.at # "none", s.upd \in 1 .. srv, s.at = "reply" => s.upd \in ever,
             s.at = "push" => s.upd \notin seen /\ \A q \in Posts : post[q].at # "push"
      PROVE  IntakeInv'
  <2>0. /\ UNCHANGED <<srv, open, hooked, attempt, off, file, batch, bus, here, ever>>
        /\ post'[p] = s /\ \A q \in Posts \ {p} : post'[q] = post[q]
        /\ post' \in [Posts -> PostType]
    BY <1>0, <1>1 DEF server, poller, pushed
  <2>1. TypeOK'
    BY <1>1, <2>0 DEF TypeOK, PostType
  <2>2. ForgottenWasPushed' /\ Modes' /\ Offsets'
    BY <1>1, <2>0 DEF ForgottenWasPushed, Modes, Offsets
  <2>3. Batches' /\ Polled'
    BY <1>1, <2>0 DEF Batches, Polled, IsNext
  <2>4. Hooked'
    BY <1>1, <2>0 DEF Hooked
  <2> QED
    BY <2>1, <2>2, <2>3, <2>4
<1>2. ASSUME NEW u \in Updates, Deliver(p, u) PROVE IntakeInv'
  <2> DEFINE s == [upd |-> u, at |-> "lock"]
  <2>1. u \in 1 .. srv /\ u \in 0 .. MaxUpd
    BY <1>2, Numbers DEF Deliver, TypeOK, Updates
  <2>2. s \in PostType /\ s.at = "lock" /\ s.upd = u
    BY <2>1 DEF PostType
  <2>3. post' = [post EXCEPT ![p] = s] /\ pc = "serve"
    BY <1>2 DEF Deliver
  <2>4. UNCHANGED <<server, mode, pc, poller, seen, highest, pushed, faults>>
    BY <1>2 DEF Deliver
  <2> HIDE DEF s
  <2> HIDE DEF IntakeInv
  <2> QED
    BY <1>1, <2>1, <2>2, <2>3, <2>4
<1>3. CASE Lock(p)
  <2> DEFINE where == IF post[p].upd \in seen THEN "reply" ELSE "push"
             s == [post[p] EXCEPT !.at = where]
  <2>1. post[p] \in PostType /\ post[p].at = "lock" /\ where \in {"reply", "push"}
    BY <1>0, <1>3 DEF Lock
  <2>2. s \in PostType /\ s.at = where /\ s.upd = post[p].upd
    BY <2>1 DEF PostType
  <2>3. post' = [post EXCEPT ![p] = s] /\ pc = "serve"
    BY <1>0, <1>3, <2>1 DEF Lock, At
  <2>4. UNCHANGED <<server, mode, pc, poller, seen, highest, pushed, faults>>
        /\ \A q \in Posts : post[q].at # "push"
    BY <1>3 DEF Lock
  <2>5. s.upd \in 1 .. srv /\ (s.at = "reply" => s.upd \in ever)
        /\ (s.at = "push" => s.upd \notin seen)
    BY <2>1, <2>2 DEF Hooked
  <2>6. s.at # "none"
    BY <2>1, <2>2
  <2> HIDE DEF s, where
  <2> HIDE DEF IntakeInv
  <2> QED
    BY <1>1, <2>2, <2>3, <2>4, <2>5, <2>6
<1> HIDE DEF IntakeInv
<1> QED
  BY <1>2, <1>3

\* The update of a webhook request goes on the bus.
LEMMA PushPostedKeeps ==
  ASSUME IntakeInv, NEW p \in Posts, PushPosted(p) PROVE IntakeInv'
<1> USE DEF IntakeInv
<1> DEFINE u == post[p].upd
           s == [post[p] EXCEPT !.at = "reply"]
<1>0. /\ post \in [Posts -> PostType] /\ post[p] \in PostType /\ post[p].at = "push"
      /\ pc = "serve" /\ mode = "hook" /\ u \in 1 .. srv
  <2>1. post \in [Posts -> PostType] /\ post[p].at = "push"
    BY DEF TypeOK, PostType, PushPosted
  <2>2. pc = "serve"
    BY <2>1 DEF Modes, NoPost
  <2> QED
    BY <2>1, <2>2 DEF Modes, Hooked
<1>1. /\ Push(u) /\ highest' = Max2(highest, u)
      /\ seen' = Trimmed(seen \cup {u}, highest')
      /\ post' = [post EXCEPT ![p] = s]
      /\ UNCHANGED <<srv, open, hooked, mode, pc, attempt, off, file, batch, faults>>
  BY DEF PushPosted, At, server, poller
<1>2. s \in PostType /\ s.at = "reply" /\ s.upd = u
  BY <1>0 DEF PostType
<1>3. /\ post'[p] = s /\ \A q \in Posts \ {p} : post'[q] = post[q]
      /\ post' \in [Posts -> PostType]
  <2> HIDE DEF s
  <2> QED
    BY <1>0, <1>1, <1>2
<1> HIDE DEF u, s
<1>4. /\ bus' \in Seq(0 .. MaxUpd) /\ here' = here \cup {u} /\ ever' = ever \cup {u}
      /\ here' \subseteq ever' /\ ever' \subseteq 1 .. srv
  BY <1>0, <1>1, PushTypes
<1>5. /\ highest \in Int /\ u \in Int /\ Keep \in Nat /\ srv \in 0 .. MaxUpd
      /\ highest' \in -1 .. MaxUpd /\ highest <= highest' /\ u <= highest'
  BY <1>0, <1>1, Numbers, SMT DEF TypeOK, Max2
<1>6. seen' \subseteq seen \cup {u}
  BY <1>1 DEF Trimmed
<1>7. ASSUME NEW v \in seen \cup {u} PROVE v \in seen' \/ v < highest' - Keep
  <2>1. v \in Int
    BY <1>5, <1>7 DEF TypeOK, Updates
  <2> QED
    BY <1>1, <1>5, <1>7, <2>1 DEF Trimmed
<1>8. TypeOK'
  <2>1. seen' \subseteq Updates
    <3>1. u \in Updates
      BY <1>0, <1>5, Numbers DEF Updates
    <3> QED
      BY <1>6, <3>1 DEF TypeOK
  <2> QED
    BY <1>1, <1>3, <1>4, <1>5, <2>1 DEF TypeOK, PostType
<1>9. ForgottenWasPushed' /\ Modes' /\ Offsets'
  BY <1>0, <1>1, <1>4 DEF ForgottenWasPushed, Modes, Offsets
<1>10. Batches' /\ Polled'
  BY <1>0, <1>1, <1>4 DEF Batches, Polled, IsNext
<1>11. Hooked'
  <2>1. seen' \subseteq ever'
    BY <1>4, <1>6 DEF Hooked
  <2>2. \A q \in Posts : post'[q].at # "push"
    BY <1>0, <1>2, <1>3 DEF Hooked
  <2>3. \A q \in Posts : post'[q].at # "none" => post'[q].upd \in 1 .. srv'
    BY <1>0, <1>1, <1>2, <1>3 DEF Hooked
  <2>4. \A q \in Posts : post'[q].at = "reply" => post'[q].upd \in ever'
    BY <1>2, <1>3, <1>4 DEF Hooked
  <2>5. ASSUME NEW v \in here' PROVE v \in seen' \/ v < highest' - Keep
    <3>1. v \in seen \cup {u} \/ (v \in here /\ v < highest - Keep)
      BY <1>0, <1>4 DEF Hooked
    <3>2. v \in Int /\ highest' \in Int
      BY <1>4, <1>5
    <3>3. ASSUME v < highest - Keep PROVE v < highest' - Keep
      <4>1. highest \in Int /\ Keep \in Int /\ highest <= highest'
        BY <1>5
      <4> QED
        BY <3>2, <3>3, <4>1, Below
    <3> QED
      BY <1>7, <3>1, <3>3
  <2> QED
    BY <2>1, <2>2, <2>3, <2>4, <2>5 DEF Hooked
<1> QED
  BY <1>8, <1>9, <1>10, <1>11

\* The server forgets an update whose request is answered.
LEMMA ReplyKeeps ==
  ASSUME IntakeInv, NEW p \in Posts, Reply(p) PROVE IntakeInv'
<1> USE DEF IntakeInv
<1>0. /\ post \in [Posts -> PostType] /\ post[p].at = "reply" /\ post[p].upd \in ever
      /\ post' = [post EXCEPT ![p] = NoPost]
      /\ open' \in {open, open \ {post[p].upd}}
      /\ UNCHANGED <<srv, hooked, mode, pc, attempt, off, file, batch, bus, here, ever,
                     seen, highest>>
  BY DEF Reply, TypeOK, PostType, Hooked, poller, pushed
<1>1. NoPost \in PostType /\ NoPost.at = "none"
  BY Numbers DEF NoPost, PostType
<1>2. /\ post'[p] = NoPost /\ \A q \in Posts \ {p} : post'[q] = post[q]
      /\ post' \in [Posts -> PostType]
  BY <1>0, <1>1
<1>3. TypeOK'
  <2>1. faults' \in 0 .. MaxFaults
    BY FaultTypes DEF Reply, TypeOK
  <2> QED
    BY <1>0, <1>2, <2>1 DEF TypeOK, PostType
<1>4. ForgottenWasPushed' /\ Modes' /\ Offsets'
  BY <1>0, <1>2 DEF ForgottenWasPushed, Modes, Offsets
<1>5. Batches' /\ Polled' /\ Hooked'
  BY <1>0, <1>1, <1>2 DEF Batches, Polled, Hooked, IsNext
<1> QED
  BY <1>3, <1>4, <1>5

\* Every step.
LEMMA NextKeepsIntake == IntakeInv /\ [Next]_vars => IntakeInv'
<1> SUFFICES ASSUME IntakeInv, [Next]_vars PROVE IntakeInv'
  OBVIOUS
<1>1. CASE Polling
  BY <1>1, QuietIntakeKeeps, RequestKeeps, PushNextKeeps, SaveOffsetKeeps DEF Polling
<1>2. CASE Serving
  BY <1>2, DeliverKeeps, PushPostedKeeps, ReplyKeeps DEF Serving
<1>3. CASE NewUpdate \/ RegisterElsewhere \/ Fetch \/ UNCHANGED vars
  BY <1>3, NewUpdateKeeps, QuietIntakeKeeps
<1>4. CASE StartPolling \/ StartWebhook \/ Stop
  BY <1>4, StartKeeps, StopKeeps
<1>5. CASE \E p \in Posts, u \in Updates : Deliver(p, u)
  BY <1>5, DeliverKeeps
<1> QED
  BY <1>1, <1>2, <1>3, <1>4, <1>5 DEF Next

-----------------------------------------------------------------------------
(* Theorems *)

\* The invariant, in every state.
THEOREM IntakeInvariant == Spec => []IntakeInv
<1>1. Init => IntakeInv
  BY InitIntake
<1> QED
  BY <1>1, NextKeepsIntake, PTL DEF Spec

\* The types of the variables.
THEOREM IntakeTypeCorrect == Spec => []TypeOK
<1>1. IntakeInv => TypeOK
  BY DEF IntakeInv
<1> QED
  BY <1>1, IntakeInvariant, PTL

\* The server never forgets an update that was not put on the bus.
THEOREM NothingForgotten == Spec => []ForgottenWasPushed
<1>1. IntakeInv => ForgottenWasPushed
  BY DEF IntakeInv
<1> QED
  BY <1>1, IntakeInvariant, PTL

\* Only these two steps put an update on the bus.
LEMMA WhoPushes ==
  ASSUME IntakeInv, Next, NEW u \in Updates, Pushes(u)
  PROVE  \/ u \in batch /\ PushNext(u)
         \/ \E p \in Posts : u = post[p].upd /\ PushPosted(p)
<1>1. bus \in Seq(0 .. MaxUpd) /\ u \in 0 .. MaxUpd /\ u # 0 /\ 0 \in 0 .. MaxUpd
  BY Numbers, SMT DEF IntakeInv, TypeOK, Updates
<1>2. /\ bus' # bus /\ bus' # <<>> /\ (bus # <<>> => bus' # Tail(bus))
      /\ \A v \in 0 .. MaxUpd : bus' = Append(bus, v) => v = u
  BY <1>1, AppendIsNew DEF Pushes
<1>3. ~(NewUpdate \/ RegisterElsewhere \/ Fetch \/ StartPolling \/ StartWebhook \/ Stop)
  BY <1>2 DEF NewUpdate, RegisterElsewhere, Fetch, StartPolling, StartWebhook, Stop, pushed
<1>4. ~(GetUpdates \/ Conflict \/ RateLimited \/ RequestFails)
  BY <1>2 DEF GetUpdates, Conflict, RateLimited, RequestFails, pushed
<1>5. ~ReportError /\ ~(\E v \in batch : SaveOffset(v))
  BY <1>1, <1>2 DEF ReportError, Push, SaveOffset, pushed
<1>6. ~(\E p \in Posts, v \in Updates : Deliver(p, v)) /\ ~(\E p \in Posts : Lock(p) \/ Reply(p))
  BY <1>2 DEF Deliver, Lock, Reply, pushed
<1>7. ASSUME NEW v \in batch, PushNext(v) PROVE v = u
  <2>1. v \in 0 .. MaxUpd
    BY <1>7, Numbers, SMT DEF IntakeInv, TypeOK
  <2> QED
    BY <1>2, <1>7, <2>1 DEF PushNext, Push
<1>8. ASSUME NEW p \in Posts, PushPosted(p) PROVE post[p].upd = u
  <2>1. post[p].upd \in 0 .. MaxUpd
    BY <1>8 DEF IntakeInv, TypeOK
  <2> QED
    BY <1>2, <1>8, <2>1 DEF PushPosted, Push
<1> QED
  BY <1>3, <1>4, <1>5, <1>6, <1>7, <1>8 DEF Next, Polling, Serving

\* A process pushes an update once, unless it comes over the webhook after its
\* id has left the window.
THEOREM NothingTwice == Spec => PushedOnce
<1>1. IntakeInv /\ [Next]_vars =>
        [\A u \in here : Pushes(u) => mode = "hook" /\ u < highest - Keep]_vars
  <2> SUFFICES ASSUME IntakeInv, Next, NEW u \in here, Pushes(u)
               PROVE  mode = "hook" /\ u < highest - Keep
    OBVIOUS
  <2>1. u \in Updates /\ u \in Int
    BY Numbers, SMT DEF IntakeInv, TypeOK, Updates
  <2>2. CASE u \in batch /\ PushNext(u)
    <3>1. pc = "batch" /\ mode = "poll"
      BY <2>2 DEF PushNext, IntakeInv, Modes
    <3>2. u < off
      BY <3>1 DEF IntakeInv, Polled
    <3>3. off <= u /\ off \in Int
      BY <2>2 DEF IntakeInv, Batches, TypeOK
    <3> QED
      BY <2>1, <3>2, <3>3, SMT
  <2>3. ASSUME NEW p \in Posts, u = post[p].upd, PushPosted(p)
        PROVE  mode = "hook" /\ u < highest - Keep
    <3>1. post[p].at = "push"
      BY <2>3 DEF PushPosted
    <3>2. mode = "hook"
      BY <3>1 DEF IntakeInv, Modes, NoPost
    <3>3. u \notin seen
      BY <2>3, <3>1 DEF IntakeInv, Hooked
    <3> QED
      BY <3>2, <3>3 DEF IntakeInv, Hooked
  <2> QED
    BY <2>1, <2>2, <2>3, WhoPushes
<1> QED
  BY <1>1, IntakeInvariant, PTL DEF Spec, PushedOnce

\* An update that the offset file has passed is not polled again.
THEOREM NothingSavedRepeated == Spec => SavedIsNotRepeated
<1>1. IntakeInv /\ [Next]_vars =>
        [\A u \in Updates : mode = "poll" /\ Pushes(u) => u >= file]_vars
  <2> SUFFICES ASSUME IntakeInv, Next, NEW u \in Updates, mode = "poll", Pushes(u)
               PROVE  u >= file
    OBVIOUS
  <2>1. ~(\E p \in Posts : PushPosted(p))
    <3>1. pc # "serve" /\ \A p \in Posts : post[p] = NoPost
      BY DEF IntakeInv, Modes
    <3>2. NoPost.at # "push"
      BY DEF NoPost
    <3> QED
      BY <3>1, <3>2 DEF PushPosted
  <2>2. u \in batch /\ PushNext(u)
    BY <2>1, WhoPushes
  <2>3. off <= u /\ file <= off
    BY <2>2 DEF PushNext, IntakeInv, Batches, Offsets
  <2>4. u \in Int /\ off \in Int /\ file \in Int
    BY DEF Updates, IntakeInv, TypeOK
  <2> QED
    BY <2>3, <2>4, SMT
<1> QED
  BY <1>1, IntakeInvariant, PTL DEF Spec, SavedIsNotRepeated
=============================================================================
