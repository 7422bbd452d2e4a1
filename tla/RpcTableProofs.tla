--------------------------- MODULE RpcTableProofs ---------------------------
(***************************************************************************)
(* Proofs about RpcTable for every set of calls, every set of containers   *)
(* and every bound.                                                        *)
(***************************************************************************)
EXTENDS RpcTable, FiniteSetTheorems, TLAPS

\* The initial state satisfies IInv.
LEMMA InitIInv == Init => IInv
<1> SUFFICES ASSUME Init PROVE IInv
  OBVIOUS
<1>1. CallTypes
  BY BoundsAssumption DEF CallTypes, Init
<1>2. TableTypes
  BY BoundsAssumption DEF TableTypes, Init, Ids
<1>3. TaskTypes
  BY BoundsAssumption DEF TaskTypes, Init
<1>4. ServerTypes
  BY DEF ServerTypes, Init
<1>5. FreshIds /\ EntriesFaithful /\ ServerFaithful /\ OnlyNewestCounts
  BY DEF FreshIds, EntriesFaithful, ServerFaithful, OnlyNewestCounts, Init
<1>6. MessagesFaithful
  <2>1. \A b \in Batches : container[b].pc # "draining"
    BY DEF Init
  <2>2. \A c \in Singles : phase[c] # "queued"
    BY DEF Init, Calls
  <2>3. sent = {} /\ resends = {} /\ \A i \in Ids : owner[i] = NoCall
    BY DEF Init
  <2> QED
    BY <2>1, <2>2, <2>3 DEF MessagesFaithful
<1>7. OpenIsPending /\ FuturesAgree /\ IdsOfCalls
  BY DEF OpenIsPending, FuturesAgree, IdsOfCalls, Init
<1>8. BatchesAgree
  BY DEF BatchesAgree, Calls, Batched, Init
<1> QED
  BY <1>1, <1>2, <1>3, <1>4, <1>5, <1>6, <1>7, <1>8 DEF IInv, TypeOK

\* Every use of Allocate takes fresh ids for the requests of body, and one more
\* for the message unless body is a single request.
Allocating(id, body) ==
    /\ Allocate(id, body)
    /\ nextId <= id
    /\ DOMAIN body \subseteq nextId .. id
    /\ DOMAIN body # {}
    /\ id \in DOMAIN body => DOMAIN body = {id}
    /\ \A i \in DOMAIN body : body[i] \in Calls

\* What the allocation of ids for a message leaves alone, and what it adds.
LEMMA AllocateFacts ==
    ASSUME IInv, NEW id, NEW body, Allocating(id, body)
    PROVE  /\ nextId' = id + 1 /\ id \in Ids /\ DOMAIN body \subseteq Ids
           /\ nextId' \in 1 .. (MaxId + 1)
           /\ owner' \in [Ids -> Calls \cup {NoCall}]
           /\ carries' \in [Ids -> SUBSET Ids]
           /\ \A i \in Ids : i < nextId => owner'[i] = owner[i] /\ carries'[i] = carries[i]
           /\ \A i \in DOMAIN body : owner'[i] = body[i]
           /\ \A i \in Ids : i >= nextId /\ i \notin DOMAIN body => owner'[i] = NoCall
           /\ carries'[id] = DOMAIN body
           /\ \A i \in Ids : i >= nextId' => owner'[i] = NoCall /\ carries'[i] = {}
           /\ \A k \in Ids : \A i \in carries'[k] : owner'[i] # NoCall
           /\ \A i \in Ids : owner'[i] # NoCall => carries'[i] \subseteq {i}
           /\ \A m : m.id \in Ids /\ Faithful(m) => Faithful(m)'
           /\ \A m : m.id = id /\ m.body = body => Faithful(m)'
<1>0. /\ nextId <= id /\ DOMAIN body \subseteq nextId .. id /\ DOMAIN body # {}
      /\ id \in DOMAIN body => DOMAIN body = {id}
      /\ \A i \in DOMAIN body : body[i] \in Calls
  BY DEF Allocating
<1>1. /\ id \in Ids /\ nextId' = id + 1
      /\ owner' = [i \in Ids |-> IF i \in DOMAIN body THEN body[i] ELSE owner[i]]
      /\ carries' = [carries EXCEPT ![id] = DOMAIN body]
  BY DEF Allocating, Allocate
<1>2. /\ nextId \in 1 .. (MaxId + 1) /\ MaxId \in Nat
      /\ owner \in [Ids -> Calls \cup {NoCall}] /\ carries \in [Ids -> SUBSET Ids]
  BY BoundsAssumption DEF IInv, TypeOK, TableTypes
<1>3. /\ DOMAIN body \subseteq Ids /\ nextId' \in 1 .. (MaxId + 1)
      /\ \A i \in DOMAIN body : i >= nextId
  BY <1>0, <1>1, <1>2 DEF Ids
<1>4. /\ owner' \in [Ids -> Calls \cup {NoCall}]
      /\ carries' \in [Ids -> SUBSET Ids]
  BY <1>0, <1>1, <1>2, <1>3
<1>5. /\ \A i \in Ids : i >= nextId => owner[i] = NoCall /\ carries[i] = {}
      /\ \A k \in Ids : \A i \in carries[k] : owner[i] # NoCall
  BY DEF IInv, FreshIds
<1>6. \A i \in Ids : i < nextId => owner'[i] = owner[i] /\ carries'[i] = carries[i]
  BY <1>0, <1>1, <1>2, <1>3 DEF Ids
<1>7. /\ \A i \in DOMAIN body : owner'[i] = body[i]
      /\ \A i \in Ids : i >= nextId /\ i \notin DOMAIN body => owner'[i] = NoCall
      /\ carries'[id] = DOMAIN body
      /\ \A i \in Ids : i # id => carries'[i] = carries[i]
  BY <1>0, <1>1, <1>2, <1>3, <1>5
<1>8. \A i \in Ids : i >= nextId' => owner'[i] = NoCall /\ carries'[i] = {}
  BY <1>0, <1>1, <1>2, <1>5, <1>7 DEF Ids
<1>9. NoCall \notin Calls
  BY CallsAssumption
<1>10. \A k \in Ids : \A i \in carries'[k] : owner'[i] # NoCall
  <2> SUFFICES ASSUME NEW k \in Ids, NEW i \in carries'[k] PROVE owner'[i] # NoCall
    OBVIOUS
  <2>1. CASE k = id
    BY <1>0, <1>7, <1>9, <2>1
  <2>2. CASE k # id
    BY <1>0, <1>1, <1>2, <1>5, <1>7, <1>9, <2>2
  <2> QED
    BY <2>1, <2>2
<1>11. \A i \in Ids : owner'[i] # NoCall => carries'[i] \subseteq {i}
  <2> SUFFICES ASSUME NEW i \in Ids, owner'[i] # NoCall PROVE carries'[i] \subseteq {i}
    OBVIOUS
  <2>1. CASE i = id
    <3>1. id \in DOMAIN body
      BY <1>0, <1>1, <1>2, <1>7, <2>1
    <3> QED
      BY <1>0, <1>7, <2>1, <3>1
  <2>2. CASE i # id /\ i < nextId
    BY <1>0, <1>6, <1>7, <2>2 DEF IInv, MessagesFaithful
  <2>3. CASE i # id /\ ~ (i < nextId)
    BY <1>2, <1>5, <1>7, <2>3 DEF Ids
  <2> QED
    BY <2>1, <2>2, <2>3
<1>12. ASSUME NEW m, m.id \in Ids, Faithful(m) PROVE Faithful(m)'
  <2>1. m.id # id
    BY <1>0, <1>1, <1>5, <1>12 DEF Faithful
  <2>2. \A i \in DOMAIN m.body : owner[i] # NoCall /\ i \in Ids
    BY <1>2, <1>5, <1>12 DEF Faithful
  <2>3. \A i \in DOMAIN m.body : owner'[i] = owner[i]
    BY <1>0, <1>1, <1>3, <1>5, <2>2
  <2> QED
    BY <1>0, <1>7, <1>12, <2>1, <2>3 DEF Faithful
<1>13. ASSUME NEW m, m.id = id, m.body = body PROVE Faithful(m)'
  BY <1>0, <1>7, <1>13 DEF Faithful
<1> QED
  BY <1>0, <1>1, <1>3, <1>4, <1>6, <1>7, <1>8, <1>10, <1>11, <1>12, <1>13

\* The server's side survives the allocation of new ids.
LEMMA AllocateKeepsServer ==
    ASSUME IInv, UNCHANGED <<executed, rejected, replies>>,
           \A i \in Ids : owner[i] # NoCall => owner'[i] = owner[i],
           \A i \in Ids : carries[i] # {} => carries'[i] = carries[i]
    PROVE  ServerFaithful'
<1>1. executed \subseteq Ids /\ replies \subseteq Replies
  BY DEF IInv, TypeOK, ServerTypes
<1>2. ServerFaithful
  BY DEF IInv
<1>3. \A i \in executed : owner'[i] # NoCall
  BY <1>1, <1>2 DEF ServerFaithful
<1>4. ASSUME NEW r \in replies, r.type \in {"result", "error", "pong"}
      PROVE  r.req \in executed /\ r.value = owner'[r.req]
  BY <1>1, <1>2, <1>4 DEF ServerFaithful
<1>5. ASSUME NEW r \in replies, r.type \in {"bad_salt", "bad_msg"}
      PROVE  r.ids # {} /\ r.ids = carries'[r.req] /\ r.ids \subseteq rejected
  <2>1. r.req \in Ids
    BY <1>1, <1>5 DEF Replies
  <2> QED
    BY <1>2, <1>5, <2>1 DEF ServerFaithful
<1> QED
  BY <1>2, <1>3, <1>4, <1>5 DEF ServerFaithful

\* StartCall preserves IInv.
LEMMA StartCallStep ==
    ASSUME IInv, NEW c \in Singles, StartCall(c)
    PROVE  IInv'
<1> DEFINE id == nextId
<1>0. /\ c \in Calls /\ c # NoCall /\ id \in Ids /\ id \notin DOMAIN pending
      /\ owner[id] = NoCall /\ executed \subseteq Ids /\ rejected \subseteq Ids
  BY CallsAssumption DEF IInv, TypeOK, TableTypes, ServerTypes, FreshIds, StartCall,
     Allocate, Calls, Ids
<1>1. /\ DOMAIN pending' = DOMAIN pending \cup {id}
      /\ pending'[id] = CallEntry(c)
      /\ \A i \in DOMAIN pending : pending'[i] = pending[i]
  BY <1>0 DEF StartCall, With
<1>2. /\ nextId' = id + 1 /\ nextId' \in 1 .. (MaxId + 1)
      /\ owner' \in [Ids -> Calls \cup {NoCall}]
      /\ carries' \in [Ids -> SUBSET Ids]
      /\ \A i \in Ids : i < id => owner'[i] = owner[i] /\ carries'[i] = carries[i]
      /\ owner'[id] = c
      /\ \A i \in Ids : i >= id /\ i # id => owner'[i] = NoCall
      /\ carries'[id] = {id}
      /\ \A i \in Ids : i >= nextId' => owner'[i] = NoCall /\ carries'[i] = {}
      /\ \A k \in Ids : \A i \in carries'[k] : owner'[i] # NoCall
      /\ \A i \in Ids : owner'[i] # NoCall => carries'[i] \subseteq {i}
      /\ \A m : m.id \in Ids /\ Faithful(m) => Faithful(m)'
  <2> DEFINE body == Single(id, c)
  <2>1. /\ DOMAIN body = {id} /\ body[id] = c /\ Allocate(id, body)
    BY DEF Single, StartCall
  <2>2. id \in Nat /\ id .. id = {id}
    BY <1>0, BoundsAssumption DEF Ids
  <2> HIDE DEF body
  <2>3. Allocating(id, body)
    BY <1>0, <2>1, <2>2 DEF Allocating
  <2> QED
    BY <2>1, <2>3, AllocateFacts
<1>3. /\ phase' = [phase EXCEPT ![c] = "queued"]
      /\ fut' = [fut EXCEPT ![c] = "open"]
      /\ reqId' = [reqId EXCEPT ![c] = id]
      /\ phase[c] = "idle"
      /\ UNCHANGED <<answerTo, outcome, container, resends, sent, executed, rejected, replies>>
  BY DEF StartCall, srvVars
<1>4. CallTypes /\ TableTypes /\ OpenIsPending /\ FuturesAgree /\ IdsOfCalls
      /\ BatchesAgree
  BY DEF IInv, TypeOK
<1>5. \A i \in Ids : i # id => owner'[i] = owner[i]
  BY <1>0, <1>2, <1>4 DEF IInv, FreshIds, TableTypes, Ids
<1>t1. CallTypes'
  BY <1>0, <1>3, <1>4 DEF CallTypes, Ids
<1>t2. TableTypes'
  <2>1. CallEntry(c) \in Entries
    BY <1>0 DEF CallEntry, Entries
  <2> QED
    BY <1>0, <1>1, <1>2, <1>4, <2>1 DEF TableTypes
<1>t3. TaskTypes' /\ ServerTypes'
  BY DEF IInv, TypeOK, TaskTypes, ServerTypes, StartCall, srvVars
<1>a. FreshIds'
  BY <1>0, <1>1, <1>2, <1>4 DEF IInv, FreshIds, TableTypes, Ids
<1>b. MessagesFaithful'
  <2>1. \A m \in sent \cup resends : m.id \in Ids
    BY DEF IInv, TypeOK, TaskTypes, Messages, Tasks
  <2>2. \A d \in Singles : phase'[d] = "queued" =>
         reqId'[d] \in Ids /\ owner'[reqId'[d]] = d /\ carries'[reqId'[d]] = {reqId'[d]}
    BY <1>0, <1>2, <1>3, <1>4 DEF IInv, MessagesFaithful, FreshIds, TableTypes, CallTypes, Calls, Ids
  <2>3. \A b \in Batches : container'[b].pc = "draining" =>
         /\ container'[b].id \in Ids /\ container'[b].id < nextId'
         /\ owner'[container'[b].id] = NoCall
         /\ container'[b].ids = carries'[container'[b].id]
    BY <1>0, <1>2, <1>3, <1>4 DEF IInv, MessagesFaithful, TableTypes, Ids
  <2> QED
    BY <1>2, <1>3, <2>1, <2>2, <2>3 DEF IInv, MessagesFaithful
<1>c. EntriesFaithful'
  BY <1>0, <1>1, <1>2, <1>4 DEF IInv, EntriesFaithful, FreshIds, TableTypes, CallEntry
<1>d. ServerFaithful'
  <2>1. \A i \in Ids : carries[i] # {} => i < id
    BY <1>0, <1>4 DEF IInv, FreshIds, TableTypes, Ids
  <2> QED
    BY <1>0, <1>2, <1>3, <1>5, <2>1, AllocateKeepsServer
<1>e. OnlyNewestCounts'
  <2>1. \A i \in Ids : i # id => owner'[i] # c
    BY <1>0, <1>3, <1>4, <1>5 DEF FuturesAgree, IdsOfCalls
  <2>2. \A i \in Ids : i # id => IsCall(i)' = IsCall(i)
    BY <1>0, <1>1 DEF IsCall
  <2> SUFFICES ASSUME NEW i \in Ids, NEW j \in Ids, i < j,
                      owner'[i] # NoCall, owner'[i] = owner'[j]
               PROVE  i \in rejected' /\ ~ IsCall(i)'
    BY DEF OnlyNewestCounts
  <2>3. i # id /\ j # id
    BY <1>0, <1>2, <2>1 DEF Ids
  <2> QED
    BY <1>3, <1>5, <2>2, <2>3 DEF IInv, OnlyNewestCounts
<1>f. OpenIsPending'
  BY <1>0, <1>1, <1>3, <1>4 DEF OpenIsPending, CallTypes
<1>g. FuturesAgree'
  BY <1>0, <1>3, <1>4 DEF FuturesAgree, CallTypes
<1>h. IdsOfCalls'
  BY <1>0, <1>1, <1>2, <1>3, <1>4, <1>5 DEF IInv, IdsOfCalls, CallTypes, TableTypes, CallEntry
<1>i. BatchesAgree'
  <2>1. c \notin Batched
    BY CallsAssumption
  <2>2. \A b \in Batches : \A d \in Range(b) : d \in Batched
    BY DEF Batched
  <2> QED
    BY <1>0, <1>3, <1>4, <2>1, <2>2 DEF BatchesAgree, CallTypes, Calls
<1> QED
  BY <1>t1, <1>t2, <1>t3, <1>a, <1>b, <1>c, <1>d, <1>e, <1>f, <1>g, <1>h, <1>i DEF IInv, TypeOK

-----------------------------------------------------------------------------
(* Frames: what most actions leave alone                                   *)

\* Entries are removed, only of calls that are not open afterwards, and no
\* future becomes open.
LEMMA TableShrinks ==
    ASSUME IInv, UNCHANGED idVars,
           DOMAIN pending' \subseteq DOMAIN pending,
           \A i \in DOMAIN pending' : pending'[i] = pending[i],
           rejected \subseteq rejected',
           \A c \in Calls : fut'[c] = "open" => fut[c] = "open",
           \A c \in Calls : fut'[c] = "none" => fut[c] = "none",
           \A i \in DOMAIN pending \ DOMAIN pending' :
                IsCall(i) => fut'[pending[i].call] # "open",
           \A i \in DOMAIN pending' : IsCall(i) => phase'[pending[i].call] # "returned"
    PROVE  /\ TableTypes' /\ FreshIds' /\ EntriesFaithful'
           /\ OnlyNewestCounts' /\ OpenIsPending' /\ IdsOfCalls'
<1>1. TableTypes /\ FreshIds /\ EntriesFaithful /\ OnlyNewestCounts
      /\ OpenIsPending /\ IdsOfCalls
  BY DEF IInv, TypeOK
<1>2. owner' = owner /\ carries' = carries /\ nextId' = nextId
  BY DEF idVars
<1>3. TableTypes' /\ FreshIds' /\ EntriesFaithful'
  BY <1>1, <1>2 DEF TableTypes, FreshIds, EntriesFaithful
<1>4. OnlyNewestCounts'
  BY <1>1, <1>2 DEF OnlyNewestCounts, IsCall
<1>5. OpenIsPending'
  <2> SUFFICES ASSUME NEW c \in Calls, fut'[c] = "open"
               PROVE  \E i \in DOMAIN pending' : pending'[i] = CallEntry(c)
    BY DEF OpenIsPending
  <2>1. PICK i \in DOMAIN pending : pending[i] = CallEntry(c)
    BY <1>1 DEF OpenIsPending
  <2>2. i \in DOMAIN pending'
    BY <2>1 DEF IsCall, CallEntry
  <2> QED
    BY <2>1, <2>2
<1>6. IdsOfCalls'
  <2>1. \A i \in Ids : owner[i] # NoCall => owner[i] \in Calls
    BY <1>1 DEF TableTypes
  <2>2. \A i \in DOMAIN pending' : pending'[i].kind = "call" => phase'[pending'[i].call] # "returned"
    BY DEF IsCall
  <2> QED
    BY <1>1, <1>2, <2>1, <2>2 DEF IdsOfCalls
<1> QED
  BY <1>3, <1>4, <1>5, <1>6

\* No id is allocated and no coroutine gets something new to write.
LEMMA TasksKept ==
    ASSUME IInv, UNCHANGED idVars,
           \A m \in sent' : Faithful(m), \A t \in resends' : Faithful(t),
           \A c \in Singles : phase'[c] = "queued" =>
                phase[c] = "queued" /\ reqId'[c] = reqId[c],
           \A b \in Batches : container'[b].pc = "draining" => container'[b] = container[b]
    PROVE  MessagesFaithful'
<1>1. MessagesFaithful
  BY DEF IInv
<1>2. owner' = owner /\ carries' = carries /\ nextId' = nextId
  BY DEF idVars
<1>3. \A m : Faithful(m) => Faithful(m)'
  BY <1>2 DEF Faithful
<1> QED
  BY <1>1, <1>2, <1>3 DEF MessagesFaithful

\* Every step that allocates no id and adds no entry.
LEMMA ShrinkingStep ==
    ASSUME IInv, CallTypes', TaskTypes', ServerTypes', ServerFaithful', FuturesAgree',
           UNCHANGED idVars, rejected \subseteq rejected',
           DOMAIN pending' \subseteq DOMAIN pending,
           \A i \in DOMAIN pending' : pending'[i] = pending[i],
           \A c \in Calls : fut'[c] = "open" => fut[c] = "open",
           \A c \in Calls : fut'[c] = "none" => fut[c] = "none",
           \A i \in DOMAIN pending \ DOMAIN pending' :
                IsCall(i) => fut'[pending[i].call] # "open",
           \A i \in DOMAIN pending' : IsCall(i) => phase'[pending[i].call] # "returned",
           \A c \in Batched : phase'[c] = phase[c],
           \A c \in Singles : phase'[c] = "queued" => phase[c] = "queued",
           reqId' = reqId,
           \A b \in Batches : container'[b] = container[b] \/ container'[b].pc = "done",
           \A m \in sent' : m \in sent \/ Faithful(m),
           \A t \in resends' : t \in resends \/ Faithful(t)
    PROVE  IInv'
<1>1. /\ TableTypes' /\ FreshIds' /\ EntriesFaithful'
      /\ OnlyNewestCounts' /\ OpenIsPending' /\ IdsOfCalls'
  BY TableShrinks
<1>2. \A m \in sent' \cup resends' : Faithful(m)
  BY DEF IInv, MessagesFaithful
<1>3. MessagesFaithful'
  BY <1>2, TasksKept
<1>4. BatchesAgree'
  <2>1. BatchesAgree /\ \A b \in Batches : \A d \in Range(b) : d \in Batched
    BY DEF IInv, Batched
  <2> QED
    BY <2>1 DEF BatchesAgree
<1> QED
  BY <1>1, <1>3, <1>4 DEF IInv, TypeOK

\* No step of the client changes what the server knows.
LEMMA ServerKept ==
    ASSUME IInv, UNCHANGED idVars, UNCHANGED srvVars
    PROVE  ServerFaithful' /\ rejected \subseteq rejected'
BY DEF IInv, ServerFaithful, idVars, srvVars

\* The entry of a call belongs to a call that has not returned.
LEMMA EntryFacts ==
    ASSUME IInv, NEW i \in DOMAIN pending, IsCall(i)
    PROVE  /\ pending[i].call \in Calls /\ i \in Ids
           /\ phase[pending[i].call] # "returned"
           /\ pending[i] = CallEntry(pending[i].call)
<1>1. pending[i] \in Entries /\ pending[i].kind = "call" /\ i \in Ids
  BY DEF IInv, TypeOK, TableTypes, IsCall
<1>2. pending[i] \in [kind : {"call"}, call : Calls]
  BY <1>1 DEF Entries
<1> QED
  BY <1>1, <1>2 DEF IInv, IdsOfCalls, CallEntry

\* A coroutine moves on, and neither the table nor the futures change.
LEMMA PhaseStep ==
    ASSUME IInv, UNCHANGED <<fut, answerTo, outcome, reqId, container, pending, resends>>,
           UNCHANGED <<idVars, srvVars, salt, connected, handled>>,
           NEW c \in Singles, NEW p \in {"draining", "waiting"},
           phase[c] # "idle", phase[c] # "returned",
           phase' = [phase EXCEPT ![c] = p],
           sent' \subseteq Messages, \A m \in sent' : m \in sent \/ Faithful(m)
    PROVE  IInv'
<1>0. c \in Calls /\ c \notin Batched
  BY CallsAssumption DEF Calls
<1>1. CallTypes /\ TaskTypes /\ ServerTypes /\ FuturesAgree
  BY DEF IInv, TypeOK
<1>2. CallTypes' /\ TaskTypes' /\ ServerTypes'
  BY <1>0, <1>1 DEF CallTypes, TaskTypes, ServerTypes, srvVars
<1>3. FuturesAgree'
  BY <1>0, <1>1 DEF FuturesAgree, CallTypes
<1>4. \A i \in DOMAIN pending' : IsCall(i) => phase'[pending[i].call] # "returned"
  BY <1>0, <1>1, EntryFacts DEF CallTypes
<1>5. /\ \A d \in Batched : phase'[d] = phase[d]
      /\ \A d \in Singles : phase'[d] = "queued" => phase[d] = "queued"
  BY <1>0, <1>1 DEF CallTypes, Calls
<1> QED
  BY <1>2, <1>3, <1>4, <1>5, ShrinkingStep, ServerKept

\* The message of a single request is well-formed.
LEMMA SingleTyped ==
    ASSUME NEW id \in Ids, NEW c \in Calls
    PROVE  Single(id, c) \in Bodies /\ DOMAIN Single(id, c) = {id} /\ Single(id, c)[id] = c
<1>1. Single(id, c) \in [{id} -> Calls] /\ {id} \in SUBSET Ids
  BY DEF Single
<1> QED
  BY <1>1 DEF Single, Bodies

-----------------------------------------------------------------------------
(* _rpc_call                                                               *)

\* WriteCall preserves IInv.
LEMMA WriteCallStep ==
    ASSUME IInv, NEW c \in Singles, WriteCall(c)
    PROVE  IInv'
<1> DEFINE body == Single(reqId[c], c)
           new == Message(reqId[c], body)
<1>1. /\ phase[c] = "queued" /\ phase' = [phase EXCEPT ![c] = "draining"]
      /\ sent' = sent \cup {new}
      /\ UNCHANGED <<fut, answerTo, outcome, reqId, container, pending, resends>>
      /\ UNCHANGED <<idVars, srvVars, salt, connected, handled>>
  BY DEF WriteCall, tableVars
<1>2. salt \in Nat /\ sent \subseteq Messages /\ c \in Calls
  BY DEF IInv, TypeOK, TaskTypes, ServerTypes, Calls
<1>3. reqId[c] \in Ids /\ owner[reqId[c]] = c /\ carries[reqId[c]] = {reqId[c]}
  BY <1>1 DEF IInv, MessagesFaithful
<1>4. body \in Bodies /\ DOMAIN body = {reqId[c]} /\ body[reqId[c]] = c
  BY <1>2, <1>3, SingleTyped
<1>5. new \in Messages /\ Faithful(new)
  <2> HIDE DEF body
  <2>1. new.id = reqId[c] /\ new.body = body
    BY DEF Message
  <2>2. new \in Messages
    BY <1>2, <1>3, <1>4 DEF Message, Messages
  <2> QED
    BY <1>3, <1>4, <2>1, <2>2 DEF Faithful
<1> HIDE DEF new
<1> QED
  BY <1>1, <1>2, <1>5, PhaseStep

\* CallDrained preserves IInv.
LEMMA CallDrainedStep ==
    ASSUME IInv, NEW c \in Singles, CallDrained(c)
    PROVE  IInv'
<1>1. /\ phase[c] = "draining" /\ phase' = [phase EXCEPT ![c] = "waiting"]
      /\ UNCHANGED <<fut, answerTo, outcome, reqId, container, pending, resends, sent>>
      /\ UNCHANGED <<idVars, srvVars, salt, connected, handled>>
  BY DEF CallDrained, tableVars
<1>2. sent' \subseteq Messages
  BY <1>1 DEF IInv, TypeOK, TaskTypes
<1> QED
  BY <1>1, <1>2, PhaseStep

\* What becomes of the futures when some calls fail.
Ending ==
    /\ fut' \in [Calls -> {"none", "open", "answered", "failed"}]
    /\ \A c \in Calls : fut'[c] = fut[c] \/ (fut[c] = "open" /\ fut'[c] = "failed")

\* Failing ends the open futures of some calls and leaves the others alone.
LEMMA FailingFacts ==
    ASSUME IInv, NEW cs, fut' = Failing(cs)
    PROVE  /\ Ending
           /\ \A c \in Calls \cap cs : fut'[c] # "open"
BY DEF Failing, Ending, IInv, TypeOK, CallTypes

\* A client step that fails some calls and drops entries of calls not open.
LEMMA FailStep ==
    ASSUME IInv, Ending,
           DOMAIN pending' \subseteq DOMAIN pending,
           \A i \in DOMAIN pending' : pending'[i] = pending[i],
           \A i \in DOMAIN pending \ DOMAIN pending' :
                IsCall(i) => fut'[pending[i].call] # "open",
           UNCHANGED <<callVars, answerTo, idVars, srvVars>>,
           TaskTypes', salt' \in Nat, connected' \in BOOLEAN, handled' \subseteq replies,
           \A b \in Batches : container'[b] = container[b] \/ container'[b].pc = "done",
           \A m \in sent' : m \in sent \/ Faithful(m),
           \A t \in resends' : t \in resends \/ Faithful(t)
    PROVE  IInv'
<1>0. CallTypes /\ ServerTypes /\ FuturesAgree
  BY DEF IInv, TypeOK
<1>1. /\ UNCHANGED <<phase, outcome, reqId>> /\ UNCHANGED <<srvSalt, executed, rejected, replies>>
      /\ UNCHANGED idVars /\ UNCHANGED srvVars
  BY DEF callVars, srvVars
<1>2. CallTypes' /\ ServerTypes'
  BY <1>0, <1>1 DEF CallTypes, ServerTypes, Ending
<1>3. FuturesAgree'
  BY <1>0, <1>1 DEF FuturesAgree, Ending
<1>4. /\ \A c \in Calls : fut'[c] = "open" => fut[c] = "open"
      /\ \A c \in Calls : fut'[c] = "none" => fut[c] = "none"
  BY DEF Ending
<1>5. \A i \in DOMAIN pending' : IsCall(i) => phase'[pending[i].call] # "returned"
  BY <1>1, EntryFacts
<1>6. /\ \A c \in Batched : phase'[c] = phase[c]
      /\ \A c \in Singles : phase'[c] = "queued" => phase[c] = "queued"
  BY <1>1
<1>7. ServerFaithful' /\ rejected \subseteq rejected'
  BY <1>1, ServerKept
<1> QED
  BY <1>1, <1>2, <1>3, <1>4, <1>5, <1>6, <1>7, ShrinkingStep

\* StopWaiting preserves IInv.
LEMMA StopWaitingStep ==
    ASSUME IInv, NEW c \in Singles, StopWaiting(c)
    PROVE  IInv'
<1>1. /\ fut' = Failing({c})
      /\ UNCHANGED <<callVars, answerTo, idVars, srvVars>>
      /\ UNCHANGED <<pending, container, resends, salt, connected, sent, handled>>
  BY DEF StopWaiting
<1>2. TaskTypes' /\ salt' \in Nat /\ connected' \in BOOLEAN /\ handled' \subseteq replies
  BY <1>1 DEF IInv, TypeOK, TaskTypes, ServerTypes
<1>3. Ending
  BY <1>1, FailingFacts
<1> QED
  BY <1>1, <1>2, <1>3, FailStep

\* Cleanup preserves IInv.
LEMMA CleanupStep ==
    ASSUME IInv, NEW c \in Singles, NEW result \in {"answered", "failed"},
           phase[c] \in {"queued", "draining", "waiting"},
           result = "answered" => fut[c] = "answered",
           Cleanup(c, result)
    PROVE  IInv'
<1>0. CallTypes /\ TaskTypes /\ ServerTypes /\ FuturesAgree
  BY DEF IInv, TypeOK
<1>1. c \in Calls /\ c \notin Batched
  BY CallsAssumption DEF Calls
<1>2. /\ phase' = [phase EXCEPT ![c] = "returned"]
      /\ outcome' = [outcome EXCEPT ![c] = result]
      /\ fut' = Failing({c})
      /\ UNCHANGED <<answerTo, reqId, container, resends, salt, connected, sent, handled>>
      /\ UNCHANGED <<idVars, srvVars>>
  BY DEF Cleanup
<1>3. /\ DOMAIN pending' = DOMAIN pending \ EntriesOf(c)
      /\ \A i \in DOMAIN pending' : pending'[i] = pending[i]
  <2>1. pending' = Without(pending, EntriesOf(c))
    BY DEF Cleanup
  <2> QED
    BY <2>1 DEF Without, Restrict
<1>4. Ending /\ fut'[c] # "open"
  BY <1>1, <1>2, FailingFacts
<1>5. CallTypes' /\ TaskTypes' /\ ServerTypes'
  BY <1>0, <1>1, <1>2, <1>4 DEF CallTypes, TaskTypes, ServerTypes, srvVars, Ending
<1>6. FuturesAgree'
  <2> SUFFICES ASSUME NEW d \in Calls
               PROVE  /\ fut'[d] = "none" <=> phase'[d] = "idle"
                      /\ fut'[d] = "answered" => answerTo'[d] = d
                      /\ phase'[d] = "returned" =>
                           /\ fut'[d] \in {"answered", "failed"}
                           /\ outcome'[d] = "answered" => fut'[d] = "answered"
    BY DEF FuturesAgree
  <2>1. fut'[d] = IF d = c /\ fut[d] = "open" THEN "failed" ELSE fut[d]
    BY <1>2 DEF Failing
  <2>2. fut[d] \in {"none", "open", "answered", "failed"}
    BY <1>0 DEF CallTypes
  <2>3. CASE d = c
    BY <1>0, <1>1, <1>2, <2>1, <2>2, <2>3 DEF FuturesAgree, CallTypes
  <2>4. CASE d # c
    BY <1>0, <1>2, <2>1, <2>4 DEF FuturesAgree, CallTypes
  <2> QED
    BY <2>3, <2>4
<1>7. /\ \A d \in Calls : fut'[d] = "open" => fut[d] = "open"
      /\ \A d \in Calls : fut'[d] = "none" => fut[d] = "none"
      /\ fut'[c] # "open"
  BY <1>4 DEF Ending
<1>8. ASSUME NEW i \in DOMAIN pending \ DOMAIN pending', IsCall(i)
      PROVE  fut'[pending[i].call] # "open"
  BY <1>3, <1>7 DEF EntriesOf, CallEntry
<1>9. ASSUME NEW i \in DOMAIN pending', IsCall(i)
      PROVE  phase'[pending[i].call] # "returned"
  <2>1. pending[i].call # c /\ pending[i].call \in Calls /\ phase[pending[i].call] # "returned"
    BY <1>3, <1>9, EntryFacts DEF EntriesOf
  <2> QED
    BY <1>0, <1>2, <2>1 DEF CallTypes
<1>10. /\ \A d \in Batched : phase'[d] = phase[d]
      /\ \A d \in Singles : phase'[d] = "queued" => phase[d] = "queued"
  BY <1>0, <1>1, <1>2 DEF CallTypes, Calls
<1>11. ServerFaithful' /\ rejected \subseteq rejected'
  BY <1>2, ServerKept
<1> QED
  BY <1>2, <1>3, <1>6, <1>7, <1>8, <1>9, <1>10, <1>5, <1>11, ShrinkingStep

\* FinishCall preserves IInv.
LEMMA FinishCallStep ==
    ASSUME IInv, NEW c \in Singles, FinishCall(c)
    PROVE  IInv'
BY CleanupStep DEF FinishCall

\* AbortCall preserves IInv.
LEMMA AbortCallStep ==
    ASSUME IInv, NEW c \in Singles, AbortCall(c)
    PROVE  IInv'
BY CleanupStep DEF AbortCall

-----------------------------------------------------------------------------
(* Steps that touch no future, or end some                                 *)

\* A step that touches no future ends none.
LEMMA NoFuture ==
    ASSUME IInv, fut' = fut
    PROVE  Ending
BY DEF Ending, IInv, TypeOK, CallTypes

\* BatchDrainFails preserves IInv.
LEMMA BatchDrainFailsStep ==
    ASSUME IInv, NEW b \in Batches, BatchDrainFails(b)
    PROVE  IInv'
<1>1. /\ container[b].pc = "draining"
      /\ container' = [container EXCEPT ![b].pc = "done"]
      /\ UNCHANGED <<callVars, answerTo, idVars, srvVars>>
      /\ UNCHANGED <<fut, pending, resends, salt, connected, sent, handled>>
  BY DEF BatchDrainFails, tableVars
<1>2. TaskTypes /\ ServerTypes
  BY DEF IInv, TypeOK
<1>3. TaskTypes' /\ salt' \in Nat /\ connected' \in BOOLEAN /\ handled' \subseteq replies
  BY <1>1, <1>2 DEF TaskTypes, ServerTypes
<1>4. \A d \in Batches : container'[d] = container[d] \/ container'[d].pc = "done"
  BY <1>1, <1>2 DEF TaskTypes
<1>5. Ending
  BY <1>1, NoFuture
<1> QED
  BY <1>1, <1>3, <1>4, <1>5, FailStep

\* ResendWrites preserves IInv.
LEMMA ResendWritesStep ==
    ASSUME IInv, NEW t \in resends, ResendWrites(t)
    PROVE  IInv'
<1> DEFINE new == Message(t.id, t.body)
           run == [t EXCEPT !.written = TRUE]
<1>1. /\ sent' = sent \cup {new}
      /\ resends' = (resends \ {t}) \cup {run}
      /\ UNCHANGED <<callVars, answerTo, idVars, srvVars>>
      /\ UNCHANGED <<fut, pending, container, salt, connected, handled>>
  BY DEF ResendWrites, tableVars
<1>2. TaskTypes /\ ServerTypes /\ t \in Tasks /\ Faithful(t) /\ salt \in Nat
  BY DEF IInv, TypeOK, TaskTypes, ServerTypes, MessagesFaithful
<1>3. new \in Messages /\ new.id = t.id /\ new.body = t.body
  BY <1>2 DEF Message, Messages, Tasks
<1>4. run \in Tasks /\ run.id = t.id /\ run.body = t.body
  BY <1>2 DEF Tasks
<1> HIDE DEF new, run
<1>5. Faithful(new) /\ Faithful(run)
  BY <1>2, <1>3, <1>4 DEF Faithful
<1>6. TaskTypes' /\ salt' \in Nat /\ connected' \in BOOLEAN /\ handled' \subseteq replies
  BY <1>1, <1>2, <1>3, <1>4 DEF TaskTypes, ServerTypes
<1>7. Ending
  BY <1>1, NoFuture
<1> QED
  BY <1>1, <1>5, <1>6, <1>7, FailStep

\* ResendDone preserves IInv.
LEMMA ResendDoneStep ==
    ASSUME IInv, NEW t \in resends, ResendDone(t)
    PROVE  IInv'
<1>1. /\ resends' = resends \ {t}
      /\ UNCHANGED <<callVars, answerTo, idVars, srvVars>>
      /\ UNCHANGED <<fut, pending, container, salt, connected, sent, handled>>
  BY DEF ResendDone, tableVars
<1>2. TaskTypes' /\ salt' \in Nat /\ connected' \in BOOLEAN /\ handled' \subseteq replies
  BY <1>1 DEF IInv, TypeOK, TaskTypes, ServerTypes
<1>3. Ending
  BY <1>1, NoFuture
<1> QED
  BY <1>1, <1>2, <1>3, FailStep

\* Dropping some ids, after failing the calls under them.
LEMMA DropFacts ==
    ASSUME IInv, NEW ids, pending' = Without(pending, ids), fut' = Failing(CallsIn(ids))
    PROVE  /\ Ending
           /\ DOMAIN pending' \subseteq DOMAIN pending
           /\ \A i \in DOMAIN pending' : pending'[i] = pending[i]
           /\ \A i \in DOMAIN pending \ DOMAIN pending' :
                IsCall(i) => fut'[pending[i].call] # "open"
<1>1. /\ DOMAIN pending' = DOMAIN pending \ ids
      /\ \A i \in DOMAIN pending' : pending'[i] = pending[i]
  BY DEF Without, Restrict
<1>2. Ending /\ \A c \in Calls \cap CallsIn(ids) : fut'[c] # "open"
  BY FailingFacts
<1>3. ASSUME NEW i \in DOMAIN pending \ DOMAIN pending', IsCall(i)
      PROVE  fut'[pending[i].call] # "open"
  <2>1. i \in ids \cap DOMAIN pending
    BY <1>1
  <2>2. pending[i].call \in Calls /\ pending[i] = CallEntry(pending[i].call)
    BY <1>3, EntryFacts
  <2> QED
    BY <1>2, <2>1, <2>2 DEF CallsIn
<1> QED
  BY <1>1, <1>2, <1>3

\* ResendFails preserves IInv.
LEMMA ResendFailsStep ==
    ASSUME IInv, NEW t \in resends, ResendFails(t)
    PROVE  IInv'
<1>1. /\ resends' = resends \ {t}
      /\ fut' = Failing(CallsIn(DOMAIN t.body))
      /\ pending' = Without(pending, {t.id} \cup DOMAIN t.body)
      /\ UNCHANGED <<callVars, answerTo, idVars, srvVars>>
      /\ UNCHANGED <<container, salt, connected, sent, handled>>
  BY DEF ResendFails
<1>2. TaskTypes' /\ salt' \in Nat /\ connected' \in BOOLEAN /\ handled' \subseteq replies
  BY <1>1 DEF IInv, TypeOK, TaskTypes, ServerTypes
<1>3. \A i \in {t.id} \cup DOMAIN t.body : IsCall(i) => i \in DOMAIN t.body
  <2> SUFFICES ASSUME IsCall(t.id) PROVE t.id \in DOMAIN t.body
    OBVIOUS
  <2>1. Faithful(t) /\ t.id \in Ids /\ NoCall \notin Calls
    BY CallsAssumption DEF IInv, MessagesFaithful, TypeOK, TaskTypes, Tasks
  <2>2. owner[t.id] \in Calls
    <3>1. t.id \in DOMAIN pending
      BY DEF IsCall
    <3> QED
      BY <3>1, EntryFacts DEF IInv, EntriesFaithful, IsCall
  <2>3. carries[t.id] \subseteq {t.id}
    BY <2>1, <2>2 DEF IInv, MessagesFaithful
  <2> QED
    BY <2>1, <2>3 DEF Faithful
<1>4. /\ Ending
      /\ DOMAIN pending' \subseteq DOMAIN pending
      /\ \A i \in DOMAIN pending' : pending'[i] = pending[i]
      /\ \A i \in DOMAIN pending \ DOMAIN pending' :
           IsCall(i) => fut'[pending[i].call] # "open"
  <2> DEFINE ids == {t.id} \cup DOMAIN t.body
  <2>1. CallsIn(ids) = CallsIn(DOMAIN t.body)
    BY <1>3 DEF CallsIn, IsCall, CallEntry
  <2>2. pending' = Without(pending, ids) /\ fut' = Failing(CallsIn(ids))
    BY <1>1, <2>1
  <2> HIDE DEF ids
  <2> QED
    BY <2>2, DropFacts
<1> QED
  BY <1>1, <1>2, <1>4, FailStep

\* HandleBadMsg preserves IInv.
LEMMA HandleBadMsgStep ==
    ASSUME IInv, NEW r \in replies, HandleBadMsg(r)
    PROVE  IInv'
<1> DEFINE ids == {r.req}
<1>1. /\ fut' = Failing(CallsIn(ids))
      /\ pending' = Without(pending, ids)
      /\ handled' = handled \cup {r}
      /\ UNCHANGED <<callVars, answerTo, idVars, srvVars>>
      /\ UNCHANGED <<container, resends, salt, connected, sent>>
  BY DEF HandleBadMsg
<1>2. TaskTypes' /\ salt' \in Nat /\ connected' \in BOOLEAN /\ handled' \subseteq replies
  BY <1>1 DEF IInv, TypeOK, TaskTypes, ServerTypes
<1> HIDE DEF ids
<1>3. /\ Ending
      /\ DOMAIN pending' \subseteq DOMAIN pending
      /\ \A i \in DOMAIN pending' : pending'[i] = pending[i]
      /\ \A i \in DOMAIN pending \ DOMAIN pending' :
           IsCall(i) => fut'[pending[i].call] # "open"
  BY <1>1, DropFacts
<1> QED
  BY <1>1, <1>2, <1>3, FailStep

\* HandleNewSession preserves IInv.
LEMMA HandleNewSessionStep ==
    ASSUME IInv, NEW r \in replies, HandleNewSession(r)
    PROVE  IInv'
<1>1. /\ r.type = "new_session" /\ salt' = r.salt
      /\ UNCHANGED <<callVars, answerTo, idVars, srvVars>>
      /\ UNCHANGED <<fut, pending, container, resends, connected, sent, handled>>
  BY DEF HandleNewSession, tableVars
<1>2. salt' \in Nat
  BY <1>1 DEF IInv, TypeOK, ServerTypes, Replies
<1>3. TaskTypes' /\ connected' \in BOOLEAN /\ handled' \subseteq replies
  BY <1>1 DEF IInv, TypeOK, TaskTypes, ServerTypes
<1>4. Ending
  BY <1>1, NoFuture
<1> QED
  BY <1>1, <1>2, <1>3, <1>4, FailStep

\* ConnectionLost preserves IInv.
LEMMA ConnectionLostStep ==
    ASSUME IInv, ConnectionLost
    PROVE  IInv'
<1>1. /\ connected' = FALSE
      /\ fut' = Failing(CallsIn(Ids))
      /\ pending' = [i \in {} |-> NoCall]
      /\ UNCHANGED <<callVars, answerTo, idVars, srvVars>>
      /\ UNCHANGED <<container, resends, salt, sent, handled>>
  BY DEF ConnectionLost
<1>2. TaskTypes' /\ salt' \in Nat /\ connected' \in BOOLEAN /\ handled' \subseteq replies
  BY <1>1 DEF IInv, TypeOK, TaskTypes, ServerTypes
<1>3. Ending /\ \A c \in Calls \cap CallsIn(Ids) : fut'[c] # "open"
  BY <1>1, FailingFacts
<1>4. ASSUME NEW i \in DOMAIN pending, IsCall(i)
      PROVE  fut'[pending[i].call] # "open"
  <2>1. pending[i].call \in Calls /\ i \in Ids /\ pending[i] = CallEntry(pending[i].call)
    BY <1>4, EntryFacts
  <2> QED
    BY <1>3, <2>1 DEF CallsIn
<1>5. DOMAIN pending' = {}
  BY <1>1
<1> QED
  BY <1>1, <1>2, <1>3, <1>4, <1>5, FailStep

\* Reconnected preserves IInv.
LEMMA ReconnectedStep ==
    ASSUME IInv, Reconnected
    PROVE  IInv'
<1>1. /\ connected' = TRUE
      /\ UNCHANGED <<callVars, answerTo, idVars, srvVars>>
      /\ UNCHANGED <<fut, pending, container, resends, salt, sent, handled>>
  BY DEF Reconnected, tableVars
<1>2. TaskTypes' /\ salt' \in Nat /\ connected' \in BOOLEAN /\ handled' \subseteq replies
  BY <1>1 DEF IInv, TypeOK, TaskTypes, ServerTypes
<1>3. Ending
  BY <1>1, NoFuture
<1> QED
  BY <1>1, <1>2, <1>3, FailStep

-----------------------------------------------------------------------------
(* Answers                                                                 *)

\* HandleAnswer preserves IInv.
LEMMA HandleAnswerStep ==
    ASSUME IInv, NEW r \in replies, HandleAnswer(r)
    PROVE  IInv'
<1> DEFINE open == {c \in CallsIn({r.req}) : fut[c] = "open"}
           popped == Without(pending, {r.req})
<1>0. CallTypes /\ TaskTypes /\ ServerTypes /\ FuturesAgree
  BY DEF IInv, TypeOK
<1>1. /\ UNCHANGED <<phase, outcome, reqId>>
      /\ UNCHANGED idVars /\ UNCHANGED srvVars
      /\ UNCHANGED <<container, resends, salt, connected, sent, handled>>
      /\ r.type \in {"result", "error", "pong"} /\ r.req \in DOMAIN pending
      /\ fut' = [c \in Calls |-> IF c \in open THEN "answered" ELSE fut[c]]
      /\ answerTo' = [c \in Calls |-> IF c \in open THEN r.value ELSE answerTo[c]]
      /\ pending' = popped \/ pending' = Without(popped, Collected(popped))
  BY DEF HandleAnswer, Answer, callVars
<1>2. r.value = owner[r.req]
  BY <1>1 DEF IInv, ServerFaithful
<1>3. r.value \in Calls \cup {NoCall} /\ \A c \in open : r.value = c
  <2>1. EntriesFaithful /\ r.req \in DOMAIN pending
    BY <1>1 DEF IInv
  <2>2. ASSUME NEW c \in open
        PROVE  r.value = c
    <3>1. pending[r.req] = CallEntry(c)
      BY <2>2 DEF CallsIn
    <3>2. pending[r.req].kind = "call" /\ pending[r.req].call = c
      BY <3>1 DEF CallEntry
    <3> QED
      BY <1>2, <2>1, <3>2 DEF EntriesFaithful
  <2>3. r.value \in Calls \cup {NoCall}
    <3>1. TableTypes /\ r.req \in DOMAIN pending
      BY <1>1 DEF IInv, TypeOK
    <3> QED
      BY <1>2, <3>1 DEF TableTypes
  <2> QED
    BY <2>2, <2>3
<1>4. /\ DOMAIN popped = DOMAIN pending \ {r.req}
      /\ \A i \in DOMAIN popped : popped[i] = pending[i]
      /\ \A i \in Collected(popped) : i \in DOMAIN popped /\ popped[i].kind = "container"
  BY DEF Without, Restrict, Collected
<1>5. /\ DOMAIN pending' \subseteq DOMAIN pending
      /\ \A i \in DOMAIN pending' : pending'[i] = pending[i]
      /\ \A i \in DOMAIN pending \ DOMAIN pending' : i = r.req \/ ~ IsCall(i)
  <2> HIDE DEF popped
  <2>1. CASE pending' = popped
    BY <1>4, <2>1
  <2>2. CASE pending' = Without(popped, Collected(popped))
    <3>1. /\ DOMAIN pending' = DOMAIN popped \ Collected(popped)
          /\ \A i \in DOMAIN pending' : pending'[i] = popped[i]
      BY <2>2 DEF Without, Restrict
    <3> QED
      BY <1>4, <3>1 DEF IsCall
  <2> QED
    BY <1>1, <2>1, <2>2
<1>6. \A c \in open : c \in Calls /\ fut[c] = "open"
  BY DEF CallsIn
<1>7. ASSUME NEW i \in DOMAIN pending \ DOMAIN pending', IsCall(i)
      PROVE  fut'[pending[i].call] # "open"
  <2>1. i = r.req
    BY <1>5, <1>7
  <2>2. pending[i].call \in Calls /\ pending[i] = CallEntry(pending[i].call)
    BY <1>7, EntryFacts
  <2>3. pending[i].call \in CallsIn({r.req})
    BY <2>1, <2>2 DEF CallsIn
  <2> QED
    BY <1>1, <2>2, <2>3
<1> HIDE DEF open, popped
<1>8. CallTypes' /\ TaskTypes' /\ ServerTypes'
  BY <1>0, <1>1, <1>3 DEF CallTypes, TaskTypes, ServerTypes, srvVars
<1>9. FuturesAgree'
  BY <1>0, <1>1, <1>3, <1>6 DEF FuturesAgree
<1>10. /\ \A c \in Calls : fut'[c] = "open" => fut[c] = "open"
       /\ \A c \in Calls : fut'[c] = "none" => fut[c] = "none"
  BY <1>1
<1>11. \A i \in DOMAIN pending' : IsCall(i) => phase'[pending[i].call] # "returned"
  BY <1>1, <1>5, EntryFacts
<1>12. ServerFaithful' /\ rejected \subseteq rejected'
  BY <1>1, ServerKept
<1> QED
  BY <1>1, <1>5, <1>7, <1>8, <1>9, <1>10, <1>11, <1>12, ShrinkingStep

-----------------------------------------------------------------------------
(* The server                                                              *)

\* A step of the server changes nothing of the client.
LEMMA ServerMoves ==
    ASSUME IInv, ServerTypes', ServerFaithful', rejected \subseteq rejected',
           UNCHANGED <<callVars, tableVars, container, resends, salt, connected,
                       sent, handled>>
    PROVE  IInv'
<1>1. /\ UNCHANGED <<phase, outcome, reqId, fut, answerTo, pending>>
      /\ UNCHANGED idVars /\ UNCHANGED <<container, resends, sent>>
  BY DEF callVars, tableVars
<1>2. CallTypes' /\ TaskTypes' /\ FuturesAgree'
  BY <1>1 DEF IInv, TypeOK, CallTypes, TaskTypes, FuturesAgree
<1>3. \A i \in DOMAIN pending' : IsCall(i) => phase'[pending[i].call] # "returned"
  BY <1>1, EntryFacts
<1> QED
  BY <1>1, <1>2, <1>3, ShrinkingStep

\* What is known of every message that has been written.
LEMMA SentFacts ==
    ASSUME IInv, NEW m \in sent
    PROVE  /\ m.id \in Ids /\ DOMAIN m.body \subseteq Ids /\ DOMAIN m.body # {}
           /\ DOMAIN m.body = carries[m.id] /\ m.salt \in Nat
           /\ \A i \in DOMAIN m.body : m.body[i] = owner[i] /\ owner[i] # NoCall /\ m.body[i] \in Calls
<1>1. m \in Messages /\ Faithful(m)
  BY DEF IInv, TypeOK, TaskTypes, MessagesFaithful
<1>2. m.id \in Ids /\ m.body \in Bodies /\ m.salt \in Nat
  BY <1>1 DEF Messages
<1>3. PICK ids \in SUBSET Ids : m.body \in [ids -> Calls]
  BY <1>2 DEF Bodies
<1>4. NoCall \notin Calls
  BY CallsAssumption
<1> QED
  BY <1>1, <1>2, <1>3, <1>4 DEF Faithful

\* ServerAnswers preserves IInv.
LEMMA ServerAnswersStep ==
    ASSUME IInv, NEW m \in sent, NEW i \in DOMAIN m.body,
           NEW type \in {"result", "error", "pong"}, ServerAnswers(m, i, type)
    PROVE  IInv'
<1> DEFINE new == [type |-> type, req |-> i, value |-> m.body[i]]
<1>1. /\ i \notin executed \cup rejected
      /\ executed' = executed \cup {i} /\ replies' = replies \cup {new}
      /\ UNCHANGED <<callVars, tableVars, container, resends, salt, connected,
                     sent, handled>>
      /\ UNCHANGED <<srvSalt, rejected, salt, connected, handled, owner, carries>>
  BY DEF ServerAnswers, tableVars, idVars
<1>2. /\ i \in Ids /\ m.body[i] \in Calls /\ m.body[i] = owner[i] /\ owner[i] # NoCall
  BY SentFacts
<1>3. ServerTypes /\ ServerFaithful
  BY DEF IInv, TypeOK
<1>4. ServerTypes'
  <2>1. new \in Replies
    BY <1>2 DEF Replies
  <2> QED
    BY <1>1, <1>2, <1>3, <2>1 DEF ServerTypes
<1>5. ServerFaithful'
  <2>1. /\ new.type \in {"result", "error", "pong"}
        /\ new.req \in executed' /\ new.value = owner'[new.req]
    BY <1>1, <1>2
  <2> QED
    BY <1>1, <1>2, <1>3, <2>1 DEF ServerFaithful
<1> QED
  BY <1>1, <1>4, <1>5, ServerMoves

\* The server refuses a message that it has not begun to run, and says so.
LEMMA RefuseStep ==
    ASSUME IInv, NEW m \in sent, NEW r \in Replies, Refuse(m, r),
           r.type \in {"bad_salt", "bad_msg"}, r.req = m.id, r.ids = DOMAIN m.body
    PROVE  IInv'
<1>1. /\ DOMAIN m.body \cap (executed \cup rejected) = {}
      /\ rejected' = rejected \cup DOMAIN m.body /\ replies' = replies \cup {r}
      /\ UNCHANGED <<callVars, tableVars, container, resends, salt, connected,
                     sent, handled>>
      /\ UNCHANGED <<srvSalt, executed, salt, connected, handled, owner, carries>>
  BY DEF Refuse, Untouched, tableVars, idVars
<1>2. DOMAIN m.body \subseteq Ids /\ DOMAIN m.body # {} /\ DOMAIN m.body = carries[m.id]
  BY SentFacts
<1>3. ServerTypes /\ ServerFaithful
  BY DEF IInv, TypeOK
<1>4. ServerTypes'
  BY <1>1, <1>2, <1>3 DEF ServerTypes
<1>5. ServerFaithful'
  BY <1>1, <1>2, <1>3 DEF ServerFaithful
<1> QED
  BY <1>1, <1>4, <1>5, ServerMoves

\* ServerRefusesSalt preserves IInv.
LEMMA ServerRefusesSaltStep ==
    ASSUME IInv, NEW m \in sent, ServerRefusesSalt(m)
    PROVE  IInv'
<1> DEFINE r == [type |-> "bad_salt", req |-> m.id, ids |-> DOMAIN m.body,
                 salt |-> srvSalt]
<1>1. r \in Replies
  BY SentFacts DEF Replies, IInv, TypeOK, ServerTypes
<1> QED
  BY <1>1, RefuseStep DEF ServerRefusesSalt

\* ServerRefusesMessage preserves IInv.
LEMMA ServerRefusesMessageStep ==
    ASSUME IInv, NEW m \in sent, ServerRefusesMessage(m)
    PROVE  IInv'
<1> DEFINE r == [type |-> "bad_msg", req |-> m.id, ids |-> DOMAIN m.body]
<1>1. r \in Replies
  BY SentFacts DEF Replies
<1> QED
  BY <1>1, RefuseStep DEF ServerRefusesMessage

\* ServerChangesSalt preserves IInv.
LEMMA ServerChangesSaltStep ==
    ASSUME IInv, ServerChangesSalt
    PROVE  IInv'
<1> DEFINE new == [type |-> "new_session", salt |-> srvSalt']
<1>1. /\ srvSalt' = srvSalt + 1 /\ replies' \in {replies, replies \cup {new}}
      /\ UNCHANGED <<callVars, tableVars, container, resends, salt, connected,
                     sent, handled>>
      /\ UNCHANGED <<executed, rejected, salt, connected, handled, owner, carries>>
  BY DEF ServerChangesSalt, tableVars, idVars
<1>2. ServerTypes /\ ServerFaithful
  BY DEF IInv, TypeOK
<1>3. srvSalt' \in Nat /\ new \in Replies
  BY <1>1, <1>2 DEF ServerTypes, Replies
<1>4. ServerTypes'
  BY <1>1, <1>2, <1>3 DEF ServerTypes
<1>5. ServerFaithful'
  BY <1>1, <1>2 DEF ServerFaithful
<1> QED
  BY <1>1, <1>4, <1>5, ServerMoves

-----------------------------------------------------------------------------
(* Steps that add entries                                                  *)

\* BatchDrained preserves IInv.
LEMMA BatchDrainedStep ==
    ASSUME IInv, NEW b \in Batches, BatchDrained(b)
    PROVE  IInv'
<1> DEFINE id == container[b].id
           ids == container[b].ids
<1>1. /\ container[b].pc = "draining"
      /\ container' = [container EXCEPT ![b].pc = "done"]
      /\ UNCHANGED <<phase, outcome, reqId, fut, answerTo>>
      /\ UNCHANGED idVars /\ UNCHANGED srvVars
      /\ UNCHANGED <<resends, salt, connected, sent, handled, owner, carries, nextId, rejected>>
  BY DEF BatchDrained, callVars, idVars, srvVars
<1>2. CallTypes /\ TableTypes /\ TaskTypes /\ ServerTypes /\ OpenIsPending
      /\ EntriesFaithful /\ FreshIds /\ OnlyNewestCounts /\ FuturesAgree /\ IdsOfCalls /\ BatchesAgree
  BY DEF IInv, TypeOK
<1>3. /\ id \in Ids /\ id < nextId /\ owner[id] = NoCall /\ ids = carries[id]
  BY <1>1 DEF IInv, MessagesFaithful
<1>4. /\ DOMAIN pending' = DOMAIN pending \cup {id}
      /\ pending'[id] = GroupEntry(ids)
      /\ \A i \in DOMAIN pending : i # id => pending'[i] = pending[i]
  BY DEF BatchDrained, With
<1>5. ids \in SUBSET Ids
  BY <1>2, <1>3 DEF TableTypes
<1> HIDE DEF id, ids
<1>6. CallTypes' /\ TaskTypes' /\ ServerTypes'
  BY <1>1, <1>2 DEF CallTypes, TaskTypes, ServerTypes, srvVars
<1>7. TableTypes'
  <2>1. GroupEntry(ids) \in Entries
    BY <1>5 DEF GroupEntry, Entries
  <2> QED
    BY <1>1, <1>2, <1>3, <1>4, <2>1 DEF TableTypes
<1>8. FreshIds' /\ EntriesFaithful'
  BY <1>1, <1>2, <1>3, <1>4 DEF FreshIds, EntriesFaithful, GroupEntry
<1>9. ~ IsCall(id) /\ \A i \in DOMAIN pending' : IsCall(i)' <=> IsCall(i)
  <2>1. ~ IsCall(id)
    <3> SUFFICES ASSUME IsCall(id) PROVE FALSE
      OBVIOUS
    <3>1. id \in DOMAIN pending /\ NoCall \notin Calls
      BY CallsAssumption DEF IsCall
    <3> QED
      BY <1>2, <1>3, <3>1, EntryFacts DEF EntriesFaithful, IsCall
  <2> QED
    BY <1>4, <2>1 DEF IsCall, GroupEntry
<1>10. OnlyNewestCounts'
  BY <1>1, <1>2, <1>9 DEF OnlyNewestCounts, IsCall
<1>11. OpenIsPending'
  BY <1>1, <1>2, <1>4, <1>9 DEF OpenIsPending, IsCall, CallEntry
<1>12. FuturesAgree'
  BY <1>1, <1>2 DEF FuturesAgree
<1>13. IdsOfCalls'
  <2>1. \A i \in DOMAIN pending' : pending'[i].kind = "call" => phase'[pending'[i].call] # "returned"
    BY <1>1, <1>2, <1>4 DEF IdsOfCalls, GroupEntry
  <2> QED
    BY <1>1, <1>2, <2>1 DEF IdsOfCalls
<1>14. BatchesAgree'
  BY <1>1, <1>2 DEF BatchesAgree, TaskTypes
<1>15. MessagesFaithful'
  <2>1. \A m \in sent' \cup resends' : Faithful(m)
    BY <1>1 DEF IInv, MessagesFaithful
  <2>2. \A d \in Batches : container'[d] = container[d] \/ container'[d].pc = "done"
    BY <1>1, <1>2 DEF TaskTypes
  <2> QED
    BY <1>1, <2>1, <2>2, TasksKept
<1>16. ServerFaithful'
  BY <1>1, ServerKept
<1> QED
  BY <1>6, <1>7, <1>8, <1>10, <1>11, <1>12, <1>13, <1>14, <1>15, <1>16 DEF IInv, TypeOK

-----------------------------------------------------------------------------
(* Steps that allocate ids                                                 *)

\* What is written and what will be written stays faithful.
LEMMA AllocateMessages ==
    ASSUME IInv, NEW id, NEW body, Allocating(id, body),
           \A c \in Singles : phase'[c] = "queued" => phase[c] = "queued",
           reqId' = reqId,
           \A b \in Batches : container'[b].pc = "draining" =>
             \/ container'[b] = container[b]
             \/ /\ container'[b].id = id /\ id \notin DOMAIN body
                /\ container'[b].ids = DOMAIN body,
           \A m \in sent' \cup resends' :
             m \in sent \/ m \in resends \/ (m.id = id /\ m.body = body)
    PROVE  MessagesFaithful'
<1>1. /\ nextId' = id + 1 /\ id \in Ids /\ nextId <= id
      /\ \A i \in Ids : i < nextId => owner'[i] = owner[i] /\ carries'[i] = carries[i]
      /\ \A i \in Ids : i >= nextId /\ i \notin DOMAIN body => owner'[i] = NoCall
      /\ carries'[id] = DOMAIN body
      /\ \A i \in Ids : owner'[i] # NoCall => carries'[i] \subseteq {i}
      /\ \A m : m.id \in Ids /\ Faithful(m) => Faithful(m)'
      /\ \A m : m.id = id /\ m.body = body => Faithful(m)'
  BY AllocateFacts DEF Allocating
<1>2. MessagesFaithful /\ FreshIds /\ TaskTypes /\ TableTypes
  BY DEF IInv, TypeOK
<1>3. \A m \in sent' \cup resends' : Faithful(m)'
  <2> SUFFICES ASSUME NEW m \in sent' \cup resends' PROVE Faithful(m)'
    OBVIOUS
  <2>1. CASE m \in sent \/ m \in resends
    <3>1. m.id \in Ids
      BY <1>2, <2>1 DEF TaskTypes, Messages, Tasks
    <3>2. Faithful(m)
      BY <1>2, <2>1 DEF MessagesFaithful
    <3> QED
      BY <1>1, <3>1, <3>2
  <2>2. CASE m.id = id /\ m.body = body
    BY <1>1, <2>2
  <2> QED
    BY <2>1, <2>2
<1>4. \A i \in Ids : owner[i] # NoCall => i < nextId
  BY <1>2 DEF FreshIds, TableTypes, Ids
<1>5. ASSUME NEW c \in Singles, phase'[c] = "queued"
      PROVE  /\ reqId'[c] \in Ids /\ owner'[reqId'[c]] = c
             /\ carries'[reqId'[c]] = {reqId'[c]}
  <2>1. /\ reqId[c] \in Ids /\ owner[reqId[c]] = c /\ carries[reqId[c]] = {reqId[c]}
        /\ c # NoCall
    BY <1>2, <1>5, CallsAssumption DEF MessagesFaithful, Calls
  <2> QED
    BY <1>1, <1>4, <2>1
<1>6. ASSUME NEW b \in Batches, container'[b].pc = "draining"
      PROVE  /\ container'[b].id \in Ids /\ container'[b].id < nextId'
             /\ owner'[container'[b].id] = NoCall
             /\ container'[b].ids = carries'[container'[b].id]
  <2>1. nextId \in Nat /\ \A i \in Ids : i \in Nat
    BY <1>2 DEF TableTypes, Ids
  <2>2. CASE container'[b] = container[b]
    BY <1>1, <1>2, <1>6, <2>1, <2>2 DEF MessagesFaithful
  <2>3. CASE container'[b].id = id /\ id \notin DOMAIN body /\ container'[b].ids = DOMAIN body
    BY <1>1, <2>1, <2>3
  <2> QED
    BY <1>6, <2>2, <2>3
<1> QED
  BY <1>1, <1>3, <1>5, <1>6 DEF MessagesFaithful

\* Open requests that the server has refused get new ids, in a new message.
\* g maps the new ids to the old ones.
LEMMA Renewal ==
    ASSUME IInv, NEW id, NEW g, NEW body, Allocating(id, body),
           body \in Bodies, DOMAIN body = DOMAIN g,
           \A i \in DOMAIN g : /\ Open(g[i]) /\ g[i] \in rejected
                               /\ g[i] \notin DOMAIN pending'
                               /\ i \in DOMAIN pending' /\ pending'[i] = pending[g[i]]
                               /\ body[i] = pending[g[i]].call,
           \A i, j \in DOMAIN g : g[i] = g[j] => i = j,
           \A i \in DOMAIN pending' : i \notin DOMAIN g =>
             \/ i \in DOMAIN pending /\ pending'[i] = pending[i]
             \/ /\ i = id /\ pending'[i] = GroupEntry(DOMAIN g),
           \A i \in DOMAIN pending \ DOMAIN pending' : Open(i) => \E j \in DOMAIN g : g[j] = i,
           UNCHANGED <<callVars, fut, answerTo, container, connected, sent, srvVars>>,
           salt' \in Nat, handled' \subseteq replies,
           resends' = resends \cup {[id |-> id, body |-> body, written |-> FALSE]}
    PROVE  IInv'
<1>1. UNCHANGED <<phase, outcome, reqId>> /\ UNCHANGED <<srvSalt, executed, rejected, replies>>
  BY DEF callVars, srvVars
<1>2. /\ nextId' = id + 1 /\ id \in Ids /\ nextId <= id /\ DOMAIN g \subseteq Ids
      /\ nextId' \in 1 .. (MaxId + 1)
      /\ owner' \in [Ids -> Calls \cup {NoCall}]
      /\ carries' \in [Ids -> SUBSET Ids]
      /\ \A i \in Ids : i < nextId => owner'[i] = owner[i] /\ carries'[i] = carries[i]
      /\ \A i \in DOMAIN g : owner'[i] = body[i] /\ i >= nextId /\ i <= id
      /\ \A i \in Ids : i >= nextId /\ i \notin DOMAIN g => owner'[i] = NoCall
      /\ carries'[id] = DOMAIN g
      /\ \A i \in Ids : i >= nextId' => owner'[i] = NoCall /\ carries'[i] = {}
      /\ \A k \in Ids : \A i \in carries'[k] : owner'[i] # NoCall
  <2>1. nextId \in Nat
    BY DEF IInv, TypeOK, TableTypes
  <2>2. nextId <= id /\ DOMAIN g \subseteq nextId .. id
    BY DEF Allocating
  <2>3. /\ nextId' = id + 1 /\ id \in Ids /\ DOMAIN body \subseteq Ids
        /\ nextId' \in 1 .. (MaxId + 1)
        /\ owner' \in [Ids -> Calls \cup {NoCall}]
        /\ carries' \in [Ids -> SUBSET Ids]
        /\ \A i \in Ids : i < nextId => owner'[i] = owner[i] /\ carries'[i] = carries[i]
        /\ \A i \in DOMAIN body : owner'[i] = body[i]
        /\ \A i \in Ids : i >= nextId /\ i \notin DOMAIN body => owner'[i] = NoCall
        /\ carries'[id] = DOMAIN body
        /\ \A i \in Ids : i >= nextId' => owner'[i] = NoCall /\ carries'[i] = {}
        /\ \A k \in Ids : \A i \in carries'[k] : owner'[i] # NoCall
    BY AllocateFacts
  <2>4. \A i \in DOMAIN g : i >= nextId /\ i <= id
    BY <2>1, <2>2, <2>3 DEF Ids
  <2> QED
    BY <2>2, <2>3, <2>4
<1>3. /\ CallTypes /\ TableTypes /\ TaskTypes /\ ServerTypes /\ OpenIsPending /\ FreshIds
      /\ EntriesFaithful /\ OnlyNewestCounts /\ FuturesAgree /\ IdsOfCalls /\ BatchesAgree
  BY DEF IInv, TypeOK
<1>4. /\ NoCall \notin Calls /\ nextId \in Nat /\ \A i \in Ids : i \in Nat
      /\ DOMAIN pending \subseteq Ids /\ \A i \in DOMAIN pending : i < nextId
  BY <1>3, CallsAssumption DEF TableTypes, FreshIds, Ids
<1>5. ASSUME NEW i \in DOMAIN g
      PROVE  /\ g[i] \in DOMAIN pending /\ g[i] \in Ids /\ g[i] < nextId
             /\ body[i] \in Calls /\ pending[g[i]] = CallEntry(body[i])
             /\ owner[g[i]] = body[i] /\ owner'[g[i]] = body[i]
             /\ fut[body[i]] = "open" /\ phase[body[i]] # "returned"
  <2>1. g[i] \in DOMAIN pending /\ IsCall(g[i]) /\ body[i] = pending[g[i]].call
    BY <1>5 DEF Open, IsCall
  <2>2. /\ body[i] \in Calls /\ pending[g[i]] = CallEntry(body[i])
        /\ phase[body[i]] # "returned" /\ g[i] \in Ids
    BY <2>1, EntryFacts
  <2>3. owner[g[i]] = body[i]
    BY <1>3, <2>1 DEF EntriesFaithful, IsCall
  <2>4. fut[body[i]] = "open"
    BY <2>1 DEF Open
  <2> QED
    BY <1>2, <1>4, <2>1, <2>2, <2>3, <2>4
<1>6. \A i \in Ids : owner[i] # NoCall => i < nextId
  BY <1>3, <1>4 DEF FreshIds
<1>7. ASSUME NEW i \in DOMAIN pending'
      PROVE  \/ i \in DOMAIN g /\ pending'[i] = CallEntry(body[i])
             \/ /\ i \notin DOMAIN g /\ i \in DOMAIN pending
                /\ pending'[i] = pending[i] /\ i < nextId
             \/ i \notin DOMAIN g /\ i = id /\ pending'[i] = GroupEntry(DOMAIN g)
  BY <1>4, <1>5, <1>7
<1>8. CallTypes'
  BY <1>1, <1>3 DEF CallTypes
<1>9. TableTypes'
  <2>1. ASSUME NEW i \in DOMAIN pending' PROVE i \in Ids /\ pending'[i] \in Entries
    BY <1>2, <1>3, <1>4, <1>5, <1>7, <2>1 DEF TableTypes, CallEntry, GroupEntry, Entries
  <2> QED
    BY <1>2, <2>1 DEF TableTypes
<1>10. TaskTypes' /\ ServerTypes'
  <2>1. [id |-> id, body |-> body, written |-> FALSE] \in Tasks
    BY <1>2 DEF Tasks
  <2> QED
    BY <1>1, <1>3, <2>1 DEF TaskTypes, ServerTypes
<1>11. FreshIds'
  <2>1. ASSUME NEW i \in DOMAIN pending' PROVE i < nextId'
    BY <1>2, <1>4, <1>7, <2>1
  <2> QED
    BY <1>2, <2>1 DEF FreshIds
<1>12. EntriesFaithful'
  <2> SUFFICES ASSUME NEW i \in DOMAIN pending'
               PROVE  IF pending'[i].kind = "call" THEN pending'[i].call = owner'[i]
                      ELSE owner'[i] = NoCall /\ pending'[i].ids = carries'[i]
    BY DEF EntriesFaithful
  <2>1. CASE i \in DOMAIN g /\ pending'[i] = CallEntry(body[i])
    BY <1>2, <2>1 DEF CallEntry
  <2>2. CASE i \notin DOMAIN g /\ i \in DOMAIN pending /\ pending'[i] = pending[i] /\ i < nextId
    BY <1>2, <1>3, <1>4, <2>2 DEF EntriesFaithful
  <2>3. CASE i \notin DOMAIN g /\ i = id /\ pending'[i] = GroupEntry(DOMAIN g)
    BY <1>2, <2>3 DEF GroupEntry
  <2> QED
    BY <1>7, <2>1, <2>2, <2>3
<1>13. ServerFaithful'
  <2>1. \A i \in Ids : carries[i] # {} => i < nextId
    BY <1>3, <1>4 DEF FreshIds
  <2> QED
    BY <1>1, <1>2, <1>6, <2>1, AllocateKeepsServer
<1>14. OnlyNewestCounts'
  <2> SUFFICES ASSUME NEW i \in Ids, NEW j \in Ids, i < j,
                      owner'[i] # NoCall, owner'[i] = owner'[j]
               PROVE  i \in rejected' /\ ~ IsCall(i)'
    BY DEF OnlyNewestCounts
  <2>1. \A k \in Ids : owner'[k] # NoCall => k < nextId \/ k \in DOMAIN g
    BY <1>2, <1>4
  <2>2. ASSUME i < nextId PROVE IsCall(i)' => IsCall(i)
    BY <1>2, <1>4, <1>7, <2>2 DEF IsCall, GroupEntry
  <2>3. CASE i < nextId /\ j < nextId
    BY <1>1, <1>2, <1>3, <2>2, <2>3 DEF OnlyNewestCounts
  <2>4. CASE i < nextId /\ j \in DOMAIN g
    <3>1. owner[i] = owner[g[j]] /\ owner[i] # NoCall /\ g[j] \in Ids /\ IsCall(g[j])
      BY <1>2, <1>5, <2>4 DEF Open
    <3>2. g[j] \in rejected /\ g[j] \notin DOMAIN pending' /\ g[j] \in Nat /\ i \in Nat
      BY <1>4, <2>4, <3>1
    <3>3. CASE i = g[j]
      BY <1>1, <3>2, <3>3 DEF IsCall
    <3>4. CASE i < g[j]
      BY <1>1, <1>3, <2>2, <2>4, <3>1, <3>4 DEF OnlyNewestCounts
    <3>5. CASE i > g[j]
      BY <1>3, <3>1, <3>5 DEF OnlyNewestCounts
    <3> QED
      BY <3>2, <3>3, <3>4, <3>5
  <2>5. CASE i \in DOMAIN g
    <3>1. j \in DOMAIN g
      BY <1>2, <1>4, <2>1, <2>5
    <3>2. /\ g[i] \in Ids /\ g[j] \in Ids /\ IsCall(g[i]) /\ IsCall(g[j])
          /\ owner[g[i]] = owner[g[j]] /\ owner[g[i]] # NoCall
      BY <1>2, <1>4, <1>5, <2>5, <3>1 DEF Open
    <3>3. g[i] = g[j]
      BY <1>3, <1>4, <3>2 DEF OnlyNewestCounts
    <3> QED
      BY <1>4, <2>5, <3>1, <3>3
  <2> QED
    BY <2>1, <2>3, <2>4, <2>5
<1>15. OpenIsPending'
  <2> SUFFICES ASSUME NEW c \in Calls, fut[c] = "open"
               PROVE  \E i \in DOMAIN pending' : pending'[i] = CallEntry(c)
    BY DEF OpenIsPending
  <2>1. PICK k \in DOMAIN pending : pending[k] = CallEntry(c)
    BY <1>3 DEF OpenIsPending
  <2>2. CASE k \in DOMAIN pending'
    <3>1. pending'[k] = pending[k] \/ (k = id /\ k \notin DOMAIN g) \/ k \in DOMAIN g
      BY <2>2
    <3> QED
      BY <1>2, <1>4, <2>1, <2>2, <3>1
  <2>3. CASE k \notin DOMAIN pending'
    <3>1. Open(k)
      BY <2>1 DEF Open, IsCall, CallEntry
    <3>2. PICK j \in DOMAIN g : g[j] = k
      BY <2>3, <3>1
    <3> QED
      BY <2>1, <3>2
  <2> QED
    BY <2>2, <2>3
<1>16. FuturesAgree'
  BY <1>1, <1>3 DEF FuturesAgree
<1>17. IdsOfCalls'
  <2>1. ASSUME NEW i \in Ids, owner'[i] # NoCall PROVE fut'[owner'[i]] # "none"
    BY <1>2, <1>3, <1>4, <1>5, <2>1 DEF IdsOfCalls
  <2>2. ASSUME NEW i \in DOMAIN pending', pending'[i].kind = "call"
        PROVE  phase'[pending'[i].call] # "returned"
    BY <1>1, <1>3, <1>5, <1>7, <2>2 DEF IdsOfCalls, CallEntry, GroupEntry
  <2> QED
    BY <2>1, <2>2 DEF IdsOfCalls
<1>18. BatchesAgree'
  BY <1>1, <1>3 DEF BatchesAgree
<1>19. MessagesFaithful'
  BY <1>1, AllocateMessages
<1> QED
  BY <1>8, <1>9, <1>10, <1>11, <1>12, <1>13, <1>14, <1>15, <1>16, <1>17, <1>18, <1>19 DEF IInv, TypeOK

\* The entries that bad_server_salt removes.
LEMMA PoppedFacts ==
    ASSUME IInv, NEW id
    PROVE  /\ DOMAIN Popped(id) \subseteq DOMAIN pending
           /\ \A i \in DOMAIN Popped(id) : Popped(id)[i] = pending[i]
           /\ id \notin DOMAIN Popped(id)
           /\ Live(id) \cap DOMAIN Popped(id) = {}
           /\ \A i \in DOMAIN pending \ DOMAIN Popped(id) : Open(i) => i \in Live(id)
           /\ \A i \in Live(id) : i \in DOMAIN pending /\ Open(i)
<1> DEFINE gone == {id} \cup IF IsGroup(id) THEN {i \in pending[id].ids : IsCall(i)} ELSE {}
<1>1. /\ DOMAIN Popped(id) = DOMAIN pending \ gone
      /\ \A i \in DOMAIN Popped(id) : Popped(id)[i] = pending[i]
  BY DEF Popped, Without, Restrict
<1>2. \A i \in Live(id) : i \in DOMAIN pending /\ Open(i) /\ i \in gone
  BY DEF Live, Open, IsCall
<1>3. \A i \in gone : Open(i) => i \in Live(id)
  BY DEF Live, Open, IsCall, IsGroup
<1> HIDE DEF gone
<1>4. id \in gone
  BY DEF gone
<1> QED
  BY <1>1, <1>2, <1>3, <1>4

\* What bad_server_salt for a message says about the ids it makes live.
LEMMA RejectedFacts ==
    ASSUME IInv, NEW r \in replies, r.type = "bad_salt"
    PROVE  /\ \A i \in Live(r.req) : i \in rejected
           /\ r.salt \in Nat
<1>1. r \in Replies /\ r.ids # {} /\ r.ids = carries[r.req] /\ r.ids \subseteq rejected
  BY DEF IInv, TypeOK, ServerTypes, ServerFaithful
<1>2. r.salt \in Nat
  BY <1>1 DEF Replies
<1>3. ASSUME NEW i \in Live(r.req) PROVE i \in rejected
  <2>1. CASE IsGroup(r.req)
    <3>1. i \in pending[r.req].ids /\ r.req \in DOMAIN pending /\ pending[r.req].kind = "container"
      BY <1>3, <2>1 DEF Live, IsGroup
    <3>2. pending[r.req].ids = carries[r.req]
      BY <3>1 DEF IInv, EntriesFaithful
    <3> QED
      BY <1>1, <3>1, <3>2
  <2>2. CASE ~ IsGroup(r.req)
    <3>1. i = r.req /\ IsCall(i) /\ i \in DOMAIN pending
      BY <1>3, <2>2 DEF Live, Open, IsCall
    <3>2. owner[i] \in Calls /\ owner[i] # NoCall /\ i \in Ids
      BY <3>1, EntryFacts, CallsAssumption DEF IInv, EntriesFaithful, IsCall
    <3>3. carries[i] \subseteq {i}
      BY <3>2 DEF IInv, MessagesFaithful
    <3> QED
      BY <1>1, <3>1, <3>3
  <2> QED
    BY <2>1, <2>2
<1> QED
  BY <1>2, <1>3

\* HandleBadSalt preserves IInv.
LEMMA HandleBadSaltStep ==
    ASSUME IInv, NEW r \in replies, HandleBadSalt(r)
    PROVE  IInv'
<1> DEFINE id == r.req
<1>1. /\ handled' = handled \cup {r} /\ salt' = r.salt
      /\ UNCHANGED <<callVars, fut, answerTo, container, connected, sent, srvVars>>
      /\ ResaltNothing(id) \/ ResaltCall(id) \/ ResaltContainer(id)
  BY DEF HandleBadSalt
<1>2. /\ \A i \in Live(id) : i \in rejected
      /\ salt' \in Nat
  BY <1>1, RejectedFacts DEF HandleBadSalt
<1>3. handled' \subseteq replies
  BY <1>1 DEF IInv, TypeOK, ServerTypes
<1> HIDE DEF id
<1>4. /\ DOMAIN Popped(id) \subseteq DOMAIN pending
      /\ \A i \in DOMAIN Popped(id) : Popped(id)[i] = pending[i]
      /\ id \notin DOMAIN Popped(id)
      /\ Live(id) \cap DOMAIN Popped(id) = {}
      /\ \A i \in DOMAIN pending \ DOMAIN Popped(id) : Open(i) => i \in Live(id)
      /\ \A i \in Live(id) : i \in DOMAIN pending /\ Open(i)
  BY PoppedFacts
<1>5. CASE ResaltNothing(id)
  <2>1. /\ Live(id) = {} /\ pending' = Popped(id) /\ UNCHANGED idVars /\ UNCHANGED resends
    BY <1>5 DEF ResaltNothing, idVars
  <2>2. TaskTypes' /\ connected' \in BOOLEAN
    BY <1>1, <2>1 DEF IInv, TypeOK, TaskTypes, ServerTypes
  <2>3. Ending
    BY <1>1, NoFuture
  <2>4. \A i \in DOMAIN pending \ DOMAIN pending' : IsCall(i) => fut'[pending[i].call] # "open"
    BY <1>1, <1>4, <2>1 DEF Open
  <2>5. UNCHANGED <<callVars, answerTo, idVars, srvVars>> /\ UNCHANGED <<container, sent, resends>>
    BY <1>1, <2>1
  <2> QED
    BY <1>2, <1>3, <1>4, <2>1, <2>2, <2>3, <2>4, <2>5, FailStep
<1>6. /\ nextId \notin DOMAIN pending /\ \A i \in DOMAIN pending : i < nextId /\ i \in Nat
      /\ nextId \in Nat /\ \A i \in Ids : i \in Nat
  BY DEF IInv, TypeOK, TableTypes, FreshIds, Ids
<1>7. CASE ResaltCall(id)
  <2> DEFINE c == pending[id].call
             body == Single(nextId, c)
             g == [i \in {nextId} |-> id]
  <2>1. /\ Open(id) /\ Allocate(nextId, body)
        /\ pending' = With(Popped(id), [i \in {nextId} |-> pending[id]])
        /\ resends' = resends \cup {[id |-> nextId, body |-> body, written |-> FALSE]}
    BY <1>7 DEF ResaltCall, Resending
  <2>2. id \in DOMAIN pending /\ IsCall(id) /\ c \in Calls /\ nextId \in Ids
    BY <2>1, EntryFacts DEF Open, IsCall, Allocate
  <2>3. body \in Bodies /\ DOMAIN body = {nextId} /\ body[nextId] = c
    BY <2>2, SingleTyped
  <2>4. Live(id) = {id}
    BY <2>1, <2>2 DEF Live, IsGroup, IsCall
  <2>5. /\ DOMAIN pending' = DOMAIN Popped(id) \cup {nextId}
        /\ pending'[nextId] = pending[id]
        /\ \A i \in DOMAIN Popped(id) : i # nextId => pending'[i] = Popped(id)[i]
    BY <2>1 DEF With
  <2>6. DOMAIN g = {nextId} /\ g[nextId] = id
    OBVIOUS
  <2> HIDE DEF g, body
  <2>7. Allocating(nextId, body)
    BY <1>6, <2>1, <2>2, <2>3 DEF Allocating
  <2>8. \A i \in DOMAIN g : /\ Open(g[i]) /\ g[i] \in rejected
                            /\ g[i] \notin DOMAIN pending'
                            /\ i \in DOMAIN pending' /\ pending'[i] = pending[g[i]]
                            /\ body[i] = pending[g[i]].call
    BY <1>2, <1>4, <1>6, <2>1, <2>2, <2>3, <2>4, <2>5, <2>6
  <2>9. \A i, j \in DOMAIN g : g[i] = g[j] => i = j
    BY <2>6
  <2>10. \A i \in DOMAIN pending' : i \notin DOMAIN g =>
           \/ i \in DOMAIN pending /\ pending'[i] = pending[i]
           \/ i = nextId /\ pending'[i] = GroupEntry(DOMAIN g)
    BY <1>4, <2>5, <2>6
  <2>11. \A i \in DOMAIN pending \ DOMAIN pending' : Open(i) => \E j \in DOMAIN g : g[j] = i
    BY <1>4, <2>4, <2>5, <2>6
  <2>12. DOMAIN body = DOMAIN g
    BY <2>3, <2>6
  <2> QED
    BY <1>1, <1>2, <1>3, <2>1, <2>3, <2>7, <2>8, <2>9, <2>10, <2>11, <2>12, Renewal
<1>8. nextId >= 1
  BY DEF IInv, TypeOK, TableTypes
<1>9. CASE ResaltContainer(id)
  <2> DEFINE cid == nextId + Cardinality(Live(id))
  <2>1. PICK g \in Bijection(nextId .. (cid - 1), Live(id)) :
             /\ Allocate(cid, [i \in DOMAIN g |-> pending[g[i]].call])
             /\ pending' = With(With(Popped(id), [i \in DOMAIN g |-> pending[g[i]]]),
                                [i \in {cid} |-> GroupEntry(DOMAIN g)])
             /\ Resending(cid, ResentBody(g))
    BY <1>9 DEF ResaltContainer
  <2> DEFINE body == [i \in DOMAIN g |-> pending[g[i]].call]
             table == With(Popped(id), [i \in DOMAIN g |-> pending[g[i]]])
  <2>2. /\ Allocate(cid, body)
        /\ pending' = With(table, [i \in {cid} |-> GroupEntry(DOMAIN g)])
        /\ resends' = resends \cup {[id |-> cid, body |-> body, written |-> FALSE]}
    BY <2>1 DEF Resending, ResentBody
  <2>3. /\ DOMAIN g = nextId .. (cid - 1)
        /\ \A i \in DOMAIN g : g[i] \in Live(id)
        /\ \A i, j \in DOMAIN g : g[i] = g[j] => i = j
        /\ \A k \in Live(id) : \E i \in DOMAIN g : g[i] = k
    BY DEF Bijection, Injection, Surjection, IsInjective
  <2>4. cid \in Ids /\ cid \in Nat
    BY <1>6, <2>1 DEF Allocate
  <2>5. Live(id) # {}
    BY <1>9 DEF ResaltContainer
  <2>6. /\ DOMAIN table = DOMAIN Popped(id) \cup DOMAIN g
        /\ \A i \in DOMAIN g : table[i] = pending[g[i]]
        /\ \A i \in DOMAIN Popped(id) \ DOMAIN g : table[i] = Popped(id)[i]
    BY DEF With
  <2> HIDE DEF table
  <2>7. /\ DOMAIN pending' = DOMAIN table \cup {cid}
        /\ pending'[cid] = GroupEntry(DOMAIN g)
        /\ \A i \in DOMAIN table : i # cid => pending'[i] = table[i]
    BY <2>2 DEF With
  <2> HIDE DEF cid
  <2>8. /\ nextId <= cid /\ DOMAIN g \subseteq nextId .. cid /\ cid \notin DOMAIN g
        /\ \A i \in DOMAIN g : i >= nextId /\ i < cid /\ i \in Ids
    <3>1. nextId .. (cid - 1) \subseteq nextId .. cid /\ cid \notin nextId .. (cid - 1)
      BY <1>6, <2>4
    <3>2. PICK k \in DOMAIN g : TRUE
      BY <2>3, <2>5
    <3>3. nextId <= cid
      BY <1>6, <2>3, <2>4, <3>2
    <3>4. ASSUME NEW i \in nextId .. (cid - 1)
          PROVE  i >= nextId /\ i < cid /\ i \in Ids
      BY <1>6, <1>8, <2>4, BoundsAssumption DEF Ids
    <3> QED
      BY <2>3, <3>1, <3>3, <3>4
  <2>9. \A i \in DOMAIN g : /\ g[i] \in DOMAIN pending /\ IsCall(g[i]) /\ Open(g[i])
                            /\ pending[g[i]].call \in Calls
    BY <1>4, <2>3, EntryFacts DEF Open
  <2>10. body \in Bodies /\ DOMAIN body = DOMAIN g
    <3>1. DOMAIN g \in SUBSET Ids /\ body \in [DOMAIN g -> Calls]
      BY <2>8, <2>9
    <3> QED
      BY <3>1 DEF Bodies
  <2>11. \A i \in DOMAIN g : body[i] = pending[g[i]].call /\ body[i] \in Calls
    BY <2>9
  <2> HIDE DEF body
  <2>12. Allocating(cid, body)
    BY <2>2, <2>3, <2>5, <2>8, <2>10, <2>11 DEF Allocating
  <2>13. \A i \in DOMAIN g : /\ Open(g[i]) /\ g[i] \in rejected
                             /\ g[i] \notin DOMAIN pending'
                             /\ i \in DOMAIN pending' /\ pending'[i] = pending[g[i]]
                             /\ body[i] = pending[g[i]].call
    <3> SUFFICES ASSUME NEW i \in DOMAIN g
                 PROVE  /\ Open(g[i]) /\ g[i] \in rejected
                        /\ g[i] \notin DOMAIN pending'
                        /\ i \in DOMAIN pending' /\ pending'[i] = pending[g[i]]
                        /\ body[i] = pending[g[i]].call
      OBVIOUS
    <3>1. g[i] \in Live(id) /\ g[i] \in DOMAIN pending /\ g[i] < nextId /\ g[i] \in Nat
      BY <1>6, <2>3, <2>9
    <3>2. g[i] \notin DOMAIN g /\ g[i] # cid
      BY <1>6, <2>4, <2>8, <3>1
    <3>3. g[i] \notin DOMAIN pending'
      BY <1>4, <2>6, <2>7, <3>1, <3>2
    <3>4. i \in DOMAIN pending' /\ pending'[i] = pending[g[i]]
      BY <2>6, <2>7, <2>8
    <3> QED
      BY <1>2, <2>9, <2>11, <3>1, <3>3, <3>4
  <2>14. \A i \in DOMAIN pending' : i \notin DOMAIN g =>
           \/ i \in DOMAIN pending /\ pending'[i] = pending[i]
           \/ i = cid /\ pending'[i] = GroupEntry(DOMAIN g)
    BY <1>4, <2>6, <2>7
  <2>15. \A i \in DOMAIN pending \ DOMAIN pending' : Open(i) => \E j \in DOMAIN g : g[j] = i
    BY <1>4, <2>3, <2>6, <2>7
  <2> QED
    BY <1>1, <1>2, <1>3, <2>2, <2>3, <2>10, <2>12, <2>13, <2>14, <2>15, Renewal
<1> QED
  BY <1>1, <1>5, <1>7, <1>9 DEF id

\* The requests of a container, under consecutive ids.
LEMMA BatchBody ==
    ASSUME NEW b \in Batches, NEW first \in Nat
    PROVE  LET body == Numbered(b, first) IN
           /\ Len(b) \in Nat \ {0}
           /\ Range(b) \subseteq Batched
           /\ DOMAIN body = first .. (first + Len(b) - 1)
           /\ \A i \in DOMAIN body : body[i] \in Range(b)
           /\ \A i, j \in DOMAIN body : body[i] = body[j] => i = j
           /\ \A c \in Range(b) : \E i \in DOMAIN body : body[i] = c
<1> DEFINE body == Numbered(b, first)
<1>1. b \in Seq(Batched) /\ b # << >> /\ IsInjective(b)
  BY CallsAssumption
<1>2. Len(b) \in Nat \ {0} /\ DOMAIN b = 1 .. Len(b)
  BY <1>1
<1>3. Range(b) \subseteq Batched
  BY DEF Batched
<1>4. ASSUME NEW i \in DOMAIN body PROVE i - first + 1 \in DOMAIN b /\ body[i] = b[i - first + 1]
  BY <1>2 DEF Numbered
<1>5. DOMAIN body = first .. (first + Len(b) - 1)
  BY DEF Numbered
<1> HIDE DEF body
<1>6. \A i \in DOMAIN body : body[i] \in Range(b)
  BY <1>4 DEF Range
<1>7. ASSUME NEW i \in DOMAIN body, NEW j \in DOMAIN body, body[i] = body[j] PROVE i = j
  <2>1. i - first + 1 = j - first + 1
    BY <1>1, <1>4, <1>7 DEF IsInjective
  <2> QED
    BY <1>2, <1>5, <2>1
<1>8. ASSUME NEW c \in Range(b) PROVE \E i \in DOMAIN body : body[i] = c
  <2>1. PICK k \in DOMAIN b : b[k] = c
    BY DEF Range
  <2>2. PICK i \in DOMAIN body : i - first + 1 = k
    <3> DEFINE j == k + first - 1
    <3>1. j \in DOMAIN body /\ j - first + 1 = k
      BY <1>2, <1>5
    <3> HIDE DEF j
    <3> QED
      BY <3>1
  <2> QED
    BY <1>4, <2>1, <2>2
<1> QED
  BY <1>2, <1>3, <1>5, <1>6, <1>7, <1>8 DEF body

\* StartBatch preserves IInv.
LEMMA StartBatchStep ==
    ASSUME IInv, NEW b \in Batches, StartBatch(b)
    PROVE  IInv'
<1> DEFINE n == Len(b)
           cid == nextId + n
           body == Numbered(b, nextId)
           new == Message(cid, body)
<1>1. /\ container[b].pc = "idle" /\ Allocate(cid, body)
      /\ phase' = [c \in Calls |-> IF c \in Range(b) THEN "batched" ELSE phase[c]]
      /\ fut' = [c \in Calls |-> IF c \in Range(b) THEN "open" ELSE fut[c]]
      /\ pending' = With(pending, [i \in DOMAIN body |-> CallEntry(body[i])])
      /\ \/ /\ sent' = sent \cup {new}
            /\ container' = [container EXCEPT ![b] =
                  [pc |-> "draining", id |-> cid, ids |-> DOMAIN body]]
         \/ sent' = sent /\ container' = [container EXCEPT ![b].pc = "done"]
      /\ UNCHANGED <<answerTo, outcome, reqId, resends, salt, connected, handled>>
      /\ UNCHANGED <<srvSalt, executed, rejected, replies>>
  BY DEF StartBatch, srvVars
<1>2. /\ CallTypes /\ TableTypes /\ TaskTypes /\ ServerTypes /\ OpenIsPending /\ FreshIds
      /\ EntriesFaithful /\ OnlyNewestCounts /\ FuturesAgree /\ IdsOfCalls /\ BatchesAgree
  BY DEF IInv, TypeOK
<1>3. /\ nextId \in Nat /\ nextId >= 1 /\ \A i \in Ids : i \in Nat
      /\ DOMAIN pending \subseteq Ids /\ \A i \in DOMAIN pending : i < nextId
      /\ NoCall \notin Calls /\ Batched \subseteq Calls
  BY <1>2, CallsAssumption DEF TableTypes, FreshIds, Ids, Calls
<1>4. /\ n \in Nat \ {0} /\ Range(b) \subseteq Batched /\ Range(b) \subseteq Calls
      /\ DOMAIN body = nextId .. (nextId + n - 1)
      /\ \A i \in DOMAIN body : body[i] \in Range(b)
      /\ \A i, j \in DOMAIN body : body[i] = body[j] => i = j
      /\ \A c \in Range(b) : \E i \in DOMAIN body : body[i] = c
  BY <1>3, BatchBody
<1>5. /\ DOMAIN pending' = DOMAIN pending \cup DOMAIN body
      /\ \A i \in DOMAIN body : pending'[i] = CallEntry(body[i])
      /\ \A i \in DOMAIN pending \ DOMAIN body : pending'[i] = pending[i]
  BY <1>1 DEF With
<1> HIDE DEF n, body
<1>6. /\ nextId <= cid /\ DOMAIN body \subseteq nextId .. cid /\ DOMAIN body # {}
      /\ cid \notin DOMAIN body /\ cid \in Ids
      /\ \A i \in DOMAIN body : i >= nextId /\ i < cid /\ i \in Ids
  <2>1. cid \in Ids
    BY <1>1 DEF Allocate
  <2>2. nextId \in DOMAIN body
    BY <1>3, <1>4
  <2>3. \A i \in DOMAIN body : i >= nextId /\ i < cid /\ i \in 1 .. MaxId
    BY <1>3, <1>4, <2>1, BoundsAssumption DEF Ids
  <2>4. nextId <= cid /\ DOMAIN body \subseteq nextId .. cid /\ cid \notin DOMAIN body
    BY <1>3, <1>4
  <2> QED
    BY <2>1, <2>2, <2>3, <2>4 DEF Ids
<1>7. Allocating(cid, body)
  BY <1>1, <1>4, <1>6 DEF Allocating
<1>8. cid \in Nat
  BY <1>3, <1>4
<1> HIDE DEF cid
<1>9. /\ nextId' = cid + 1 /\ nextId' \in 1 .. (MaxId + 1)
      /\ owner' \in [Ids -> Calls \cup {NoCall}]
      /\ carries' \in [Ids -> SUBSET Ids]
      /\ \A i \in Ids : i < nextId => owner'[i] = owner[i] /\ carries'[i] = carries[i]
      /\ \A i \in DOMAIN body : owner'[i] = body[i]
      /\ \A i \in Ids : i >= nextId /\ i \notin DOMAIN body => owner'[i] = NoCall
      /\ carries'[cid] = DOMAIN body
      /\ \A i \in Ids : i >= nextId' => owner'[i] = NoCall /\ carries'[i] = {}
      /\ \A k \in Ids : \A i \in carries'[k] : owner'[i] # NoCall
  BY <1>7, AllocateFacts
<1>10. \A i \in Ids : owner[i] # NoCall => i < nextId
  BY <1>2, <1>3 DEF FreshIds
<1>11. ASSUME NEW c \in Range(b)
       PROVE  /\ phase[c] = "idle" /\ fut[c] = "none"
              /\ \A i \in Ids : owner[i] # c
  <2>1. phase[c] = "idle" /\ fut[c] = "none" /\ c # NoCall
    BY <1>1, <1>2, <1>3, <1>4 DEF BatchesAgree, FuturesAgree
  <2> QED
    BY <1>2, <2>1 DEF IdsOfCalls
<1>12. ASSUME NEW i \in DOMAIN pending'
       PROVE  \/ i \in DOMAIN body /\ pending'[i] = CallEntry(body[i])
              \/ /\ i \notin DOMAIN body /\ i \in DOMAIN pending
                 /\ pending'[i] = pending[i] /\ i < nextId
  BY <1>3, <1>5, <1>12
<1>13. CallTypes'
  BY <1>1, <1>2, <1>4 DEF CallTypes
<1>14. TableTypes'
  <2>1. ASSUME NEW i \in DOMAIN pending' PROVE i \in Ids /\ pending'[i] \in Entries
    BY <1>2, <1>3, <1>4, <1>6, <1>12, <2>1 DEF TableTypes, CallEntry, Entries
  <2> QED
    BY <1>9, <2>1 DEF TableTypes
<1>15. TaskTypes' /\ ServerTypes'
  <2>1. body \in Bodies
    <3>1. \A i \in DOMAIN body : body[i] \in Calls
      BY <1>4
    <3>2. body = [i \in DOMAIN body |-> body[i]]
      BY DEF body, Numbered
    <3> HIDE DEF body
    <3> QED
      BY <1>6, <3>1, <3>2 DEF Bodies
  <2>2. new \in Messages
    BY <1>2, <1>6, <2>1 DEF Message, Messages, ServerTypes
  <2>3. DOMAIN body \in SUBSET Ids
    BY <1>6
  <2> HIDE DEF new
  <2> QED
    BY <1>1, <1>2, <1>6, <2>2, <2>3 DEF TaskTypes, ServerTypes, Ids
<1>16. FreshIds'
  <2>1. ASSUME NEW i \in DOMAIN pending' PROVE i < nextId'
    <3>1. i \in DOMAIN body \/ i \in DOMAIN pending
      BY <1>12, <2>1
    <3>2. CASE i \in DOMAIN body
      <4>1. i \in Nat /\ i < cid
        BY <1>3, <1>6, <3>2
      <4> QED
        BY <1>8, <1>9, <4>1
    <3>3. CASE i \in DOMAIN pending
      <4>1. i \in Nat /\ i < nextId /\ nextId \in Nat /\ nextId <= cid
        BY <1>3, <1>6, <3>3
      <4> QED
        BY <1>8, <1>9, <4>1
    <3> QED
      BY <3>1, <3>2, <3>3
  <2> QED
    BY <1>9, <2>1 DEF FreshIds
<1>17. EntriesFaithful'
  <2> SUFFICES ASSUME NEW i \in DOMAIN pending'
               PROVE  IF pending'[i].kind = "call" THEN pending'[i].call = owner'[i]
                      ELSE owner'[i] = NoCall /\ pending'[i].ids = carries'[i]
    BY DEF EntriesFaithful
  <2>1. CASE i \in DOMAIN body /\ pending'[i] = CallEntry(body[i])
    BY <1>9, <2>1 DEF CallEntry
  <2>2. CASE i \notin DOMAIN body /\ i \in DOMAIN pending /\ pending'[i] = pending[i] /\ i < nextId
    BY <1>2, <1>3, <1>9, <2>2 DEF EntriesFaithful
  <2> QED
    BY <1>12, <2>1, <2>2
<1>18. ServerFaithful'
  <2>1. \A i \in Ids : carries[i] # {} => i < nextId
    BY <1>2, <1>3 DEF FreshIds
  <2> QED
    BY <1>1, <1>9, <1>10, <2>1, AllocateKeepsServer
<1>19. OnlyNewestCounts'
  <2> SUFFICES ASSUME NEW i \in Ids, NEW j \in Ids, i < j,
                      owner'[i] # NoCall, owner'[i] = owner'[j]
               PROVE  i \in rejected' /\ ~ IsCall(i)'
    BY DEF OnlyNewestCounts
  <2>1. \A k \in Ids : owner'[k] # NoCall =>
           \/ k < nextId /\ owner'[k] = owner[k] /\ owner'[k] \notin Range(b)
           \/ k \in DOMAIN body /\ owner'[k] = body[k] /\ owner'[k] \in Range(b)
    BY <1>3, <1>4, <1>9, <1>11
  <2>2. CASE i < nextId /\ j < nextId
    BY <1>1, <1>2, <1>3, <1>6, <1>9, <1>12, <2>2 DEF OnlyNewestCounts, IsCall
  <2>3. CASE i \in DOMAIN body /\ j \in DOMAIN body
    BY <1>3, <1>4, <1>9, <2>3
  <2> QED
    BY <2>1, <2>2, <2>3
<1>20. OpenIsPending'
  <2> SUFFICES ASSUME NEW c \in Calls, fut'[c] = "open"
               PROVE  \E i \in DOMAIN pending' : pending'[i] = CallEntry(c)
    BY DEF OpenIsPending
  <2>1. CASE c \in Range(b)
    BY <1>4, <1>5, <2>1
  <2>2. CASE c \notin Range(b)
    <3>1. PICK k \in DOMAIN pending : pending[k] = CallEntry(c)
      BY <1>1, <1>2, <2>2 DEF OpenIsPending
    <3>2. k \notin DOMAIN body
      BY <1>3, <1>6
    <3> QED
      BY <1>5, <3>1, <3>2
  <2> QED
    BY <2>1, <2>2
<1>21. FuturesAgree'
  BY <1>1, <1>2, <1>11 DEF FuturesAgree
<1>22. IdsOfCalls'
  <2>1. ASSUME NEW i \in Ids, owner'[i] # NoCall PROVE fut'[owner'[i]] # "none"
    <3>1. CASE i < nextId
      <4>1. owner'[i] = owner[i] /\ owner[i] \in Calls /\ fut[owner[i]] # "none"
        BY <1>2, <1>9, <2>1, <3>1 DEF IdsOfCalls, TableTypes
      <4> QED
        BY <1>1, <4>1
    <3>2. CASE i \in DOMAIN body
      BY <1>1, <1>4, <1>9, <3>2
    <3> QED
      BY <1>3, <1>9, <2>1, <3>1, <3>2
  <2>2. ASSUME NEW i \in DOMAIN pending', pending'[i].kind = "call"
        PROVE  phase'[pending'[i].call] # "returned"
    <3>1. CASE i \in DOMAIN body /\ pending'[i] = CallEntry(body[i])
      BY <1>1, <1>4, <3>1 DEF CallEntry
    <3>2. CASE i \notin DOMAIN body /\ i \in DOMAIN pending /\ pending'[i] = pending[i] /\ i < nextId
      <4>1. pending'[i].call \in Calls /\ phase[pending'[i].call] # "returned"
        BY <2>2, <3>2, EntryFacts DEF IsCall
      <4> QED
        BY <1>1, <4>1
    <3> QED
      BY <1>12, <3>1, <3>2
  <2> QED
    BY <2>1, <2>2 DEF IdsOfCalls
<1>23. BatchesAgree'
  <2>1. ASSUME NEW d \in Batches, container'[d].pc = "idle", NEW c \in Range(d)
        PROVE  phase'[c] = "idle"
    <3>1. d # b /\ container[d].pc = "idle"
      BY <1>1, <1>2, <2>1 DEF TaskTypes
    <3>2. c \notin Range(b) /\ c \in Calls
      BY <1>3, <3>1, CallsAssumption DEF Batched
    <3> QED
      BY <1>1, <1>2, <3>1, <3>2 DEF BatchesAgree
  <2>2. \A c \in Batched : phase'[c] \in {"idle", "batched"}
    BY <1>1, <1>2, <1>3 DEF BatchesAgree
  <2> QED
    BY <2>1, <2>2 DEF BatchesAgree
<1>24. MessagesFaithful'
  <2>1. \A c \in Singles : phase'[c] = "queued" => phase[c] = "queued"
    BY <1>1 DEF Calls
  <2>2. \A d \in Batches : container'[d].pc = "draining" =>
             \/ container'[d] = container[d]
             \/ /\ container'[d].id = cid /\ cid \notin DOMAIN body
                /\ container'[d].ids = DOMAIN body
    BY <1>1, <1>2, <1>6 DEF TaskTypes
  <2>3. new.id = cid /\ new.body = body
    BY DEF Message
  <2> HIDE DEF new
  <2>4. \A m \in sent' \cup resends' :
             m \in sent \/ m \in resends \/ (m.id = cid /\ m.body = body)
    BY <1>1, <2>3
  <2> QED
    BY <1>1, <1>7, <2>1, <2>2, <2>4, AllocateMessages
<1> QED
  BY <1>13, <1>14, <1>15, <1>16, <1>17, <1>18, <1>19, <1>20, <1>21, <1>22, <1>23, <1>24 DEF IInv, TypeOK

-----------------------------------------------------------------------------
(* The theorems                                                            *)

\* A step that changes nothing preserves IInv.
LEMMA StutterStep ==
    ASSUME IInv, UNCHANGED vars
    PROVE  IInv'
<1>1. /\ UNCHANGED <<callVars, answerTo, idVars, srvVars>>
      /\ UNCHANGED <<fut, pending, container, resends, salt, connected, sent, handled>>
  BY DEF vars, callVars, idVars, srvVars
<1>2. TaskTypes' /\ salt' \in Nat /\ connected' \in BOOLEAN /\ handled' \subseteq replies
  BY <1>1 DEF IInv, TypeOK, TaskTypes, ServerTypes
<1>3. Ending
  BY <1>1, NoFuture
<1> QED
  BY <1>1, <1>2, <1>3, FailStep

\* IInv is inductive.
LEMMA NextIInv == IInv /\ [Next]_vars => IInv'
<1> SUFFICES ASSUME IInv, [Next]_vars PROVE IInv'
  OBVIOUS
<1>1. ASSUME NEW c \in Singles, StartCall(c) \/ CallStep(c) PROVE IInv'
  BY <1>1, StartCallStep, WriteCallStep, CallDrainedStep, StopWaitingStep,
     FinishCallStep, AbortCallStep DEF CallStep
<1>2. ASSUME NEW b \in Batches, StartBatch(b) \/ BatchDrained(b) \/ BatchDrainFails(b)
      PROVE  IInv'
  BY <1>2, StartBatchStep, BatchDrainedStep, BatchDrainFailsStep
<1>3. ASSUME NEW t \in resends, ResendWrites(t) \/ ResendDone(t) \/ ResendFails(t)
      PROVE  IInv'
  BY <1>3, ResendWritesStep, ResendDoneStep, ResendFailsStep
<1>4. ASSUME NEW r \in replies, Handle(r) PROVE IInv'
  BY <1>4, HandleAnswerStep, HandleBadSaltStep, HandleBadMsgStep,
     HandleNewSessionStep DEF Handle
<1>5. ASSUME ConnectionLost \/ Reconnected PROVE IInv'
  BY <1>5, ConnectionLostStep, ReconnectedStep
<1>6. ASSUME ServerStep PROVE IInv'
  BY <1>6, ServerAnswersStep, ServerRefusesSaltStep, ServerRefusesMessageStep,
     ServerChangesSaltStep DEF ServerStep
<1>7. CASE UNCHANGED vars
  BY <1>7, StutterStep
<1> QED
  BY <1>1, <1>2, <1>3, <1>4, <1>5, <1>6, <1>7 DEF Next

\* IInv holds in every state of every behaviour of the table.
THEOREM Invariance == Spec => []IInv
<1> QED
  BY InitIInv, NextIInv, PTL DEF Spec

\* Every variable keeps its type, whatever the server and the event loop do.
THEOREM TypeCorrect == Spec => []TypeOK
<1>1. IInv => TypeOK
  BY DEF IInv
<1> QED
  BY <1>1, Invariance, PTL

\* A future is only ever completed with the answer to its own call
\* (_handle_encrypted_packet, the rpc_result and bad_server_salt branches).
THEOREM AnswersAreOwn == Spec => []AnswerToOwnCall
<1>1. IInv => AnswerToOwnCall
  BY DEF IInv, FuturesAgree, AnswerToOwnCall
<1> QED
  BY <1>1, Invariance, PTL

\* Retrying after bad_server_salt never makes the server run a call twice.
THEOREM AtMostOnce == Spec => []RunAtMostOnce
<1>1. IInv => RunAtMostOnce
  <2> SUFFICES ASSUME IInv, NEW i \in executed, NEW j \in executed, owner[i] = owner[j]
               PROVE  i = j
    BY DEF RunAtMostOnce
  <2>1. i \in Ids /\ j \in Ids /\ owner[i] # NoCall /\ i \notin rejected /\ j \notin rejected
    BY DEF IInv, TypeOK, ServerTypes, ServerFaithful
  <2>2. ~ (i < j) /\ ~ (j < i)
    BY <2>1 DEF IInv, OnlyNewestCounts
  <2> QED
    BY <2>1, <2>2 DEF Ids
<1> QED
  BY <1>1, Invariance, PTL

\* An open call has exactly one entry in `pending`, a returned one has none
\* (_rpc_call, its finally block, and the re-keying by bad_server_salt).
THEOREM OneEntry == Spec => []OneEntryPerOpenCall
<1>1. IInv => OneEntryPerOpenCall
  <2> SUFFICES ASSUME IInv, NEW c \in Calls
               PROVE  /\ fut[c] = "open" => \E i \in DOMAIN pending : EntriesOf(c) = {i}
                      /\ phase[c] = "returned" => EntriesOf(c) = {}
    BY DEF OneEntryPerOpenCall
  <2>1. ASSUME NEW i \in EntriesOf(c)
        PROVE  i \in Ids /\ IsCall(i) /\ owner[i] = c /\ c # NoCall /\ phase[c] # "returned"
    <3>1. i \in DOMAIN pending /\ pending[i].kind = "call" /\ pending[i].call = c
      BY DEF EntriesOf, CallEntry
    <3>2. IsCall(i)
      BY <3>1 DEF IsCall
    <3> QED
      BY <3>1, <3>2, EntryFacts, CallsAssumption DEF IInv, EntriesFaithful
  <2>2. ASSUME NEW i \in EntriesOf(c), NEW j \in EntriesOf(c) PROVE i = j
    <3>1. ~ (i < j) /\ ~ (j < i)
      BY <2>1 DEF IInv, OnlyNewestCounts
    <3> QED
      BY <2>1, <3>1 DEF Ids
  <2>3. ASSUME fut[c] = "open" PROVE \E i \in DOMAIN pending : EntriesOf(c) = {i}
    <3>1. PICK i \in DOMAIN pending : pending[i] = CallEntry(c)
      BY <2>3 DEF IInv, OpenIsPending
    <3>2. i \in EntriesOf(c)
      BY <3>1 DEF EntriesOf
    <3>3. EntriesOf(c) = {i}
      BY <2>2, <3>2
    <3> QED
      BY <3>3
  <2> QED
    BY <2>1, <2>3
<1> QED
  BY <1>1, Invariance, PTL

\* What _rpc_call returns agrees with its future, and the future is done.
THEOREM OutcomesAgree == Spec => []OutcomeOfFuture
<1>1. IInv => OutcomeOfFuture
  BY DEF IInv, FuturesAgree, OutcomeOfFuture, Calls
<1> QED
  BY <1>1, Invariance, PTL

-----------------------------------------------------------------------------
(* The table implements AtMostOnceRpc                                      *)

Runs == {owner[i] : i \in executed}

\* Some open calls fail, or nothing happens.
LEMMA EndingRefines ==
    ASSUME IInv, Ending, Runs' = Runs
    PROVE  [Promise!Next]_(Promise!vars)
<1> DEFINE cs == {c \in Calls : fut[c] = "open" /\ fut'[c] = "failed"}
<1>1. fut \in [Calls -> {"none", "open", "answered", "failed"}]
  BY DEF IInv, TypeOK, CallTypes
<1>2. fut' = [c \in Calls |-> IF c \in cs THEN "failed" ELSE fut[c]]
  BY <1>1 DEF Ending
<1>3. cs \in SUBSET Calls /\ \A c \in cs : fut[c] = "open"
  OBVIOUS
<1> HIDE DEF cs
<1>4. Promise!Move(cs, "open", "failed")
  BY <1>2, <1>3 DEF Promise!Move, Runs
<1> QED
  BY <1>3, <1>4 DEF Promise!Next

\* The steps that leave the futures and the requests that have been run alone.
LEMMA QuietRefines ==
    ASSUME IInv, fut' = fut, UNCHANGED <<owner, executed>>
    PROVE  [Promise!Next]_(Promise!vars)
<1>1. Runs' = Runs /\ Ending
  BY NoFuture DEF Runs
<1> QED
  BY <1>1, EndingRefines

\* Allocating ids does not change what has been run.
LEMMA RunsKept ==
    ASSUME IInv, NEW id, NEW body, Allocate(id, body),
           DOMAIN body \cap executed = {}, executed' = executed
    PROVE  Runs' = Runs
<1>1. executed \subseteq Ids
  BY DEF IInv, TypeOK, ServerTypes
<1>2. \A i \in executed : owner'[i] = owner[i]
  BY <1>1 DEF Allocate
<1> QED
  BY <1>2 DEF Runs

\* The server has run only what has been sent.
LEMMA FreshNotExecuted ==
    ASSUME IInv, NEW i \in executed
    PROVE  i \in Nat /\ nextId \in Nat /\ i < nextId
<1>1. i \in Ids /\ owner[i] # NoCall
  BY DEF IInv, TypeOK, ServerTypes, ServerFaithful
<1>2. nextId \in Nat /\ i \in Nat
  BY <1>1 DEF IInv, TypeOK, TableTypes, Ids
<1> QED
  BY <1>1, <1>2 DEF IInv, FreshIds

\* Every step of the table is a step of AtMostOnceRpc, or none.
LEMMA StepRefines ==
    ASSUME IInv, IInv', [Next]_vars
    PROVE  [Promise!Next]_(Promise!vars)
<1>0. /\ CallTypes /\ ServerTypes /\ FuturesAgree /\ IdsOfCalls
      /\ fut \in [Calls -> {"none", "open", "answered", "failed"}]
  BY DEF IInv, TypeOK, CallTypes
<1>1. ASSUME NEW c \in Singles, StartCall(c)
      PROVE  [Promise!Next]_(Promise!vars)
  <2>1. c \in Calls /\ fut[c] = "none"
    BY <1>0, <1>1 DEF Calls, StartCall, FuturesAgree
  <2>2. fut' = [d \in Calls |-> IF d \in {c} THEN "open" ELSE fut[d]]
    BY <1>0, <1>1, <2>1 DEF StartCall
  <2>3. Runs' = Runs
    <3>1. DOMAIN Single(nextId, c) \cap executed = {}
      BY FreshNotExecuted DEF Single
    <3> QED
      BY <1>1, <3>1, RunsKept DEF StartCall, srvVars
  <2>4. Promise!Move({c}, "none", "open")
    BY <2>1, <2>2, <2>3 DEF Promise!Move, Runs
  <2> QED
    BY <2>1, <2>4 DEF Promise!Next
<1>2. ASSUME NEW c \in Singles, CallStep(c)
      PROVE  [Promise!Next]_(Promise!vars)
  <2>1. CASE WriteCall(c) \/ CallDrained(c)
    BY <2>1, QuietRefines DEF WriteCall, CallDrained, tableVars, idVars, srvVars
  <2>2. CASE StopWaiting(c) \/ FinishCall(c) \/ AbortCall(c)
    <3>1. fut' = Failing({c}) /\ UNCHANGED <<owner, executed>>
      BY <2>2 DEF StopWaiting, FinishCall, AbortCall, Cleanup, idVars, srvVars
    <3>2. Ending /\ Runs' = Runs
      BY <3>1, FailingFacts DEF Runs
    <3> QED
      BY <3>2, EndingRefines
  <2> QED
    BY <1>2, <2>1, <2>2 DEF CallStep
<1>3. ASSUME NEW b \in Batches, StartBatch(b)
      PROVE  [Promise!Next]_(Promise!vars)
  <2>1. container[b].pc = "idle" /\ Range(b) \subseteq Calls
    BY <1>3, CallsAssumption DEF StartBatch, Batched, Calls
  <2>2. \A c \in Range(b) : fut[c] = "none"
    BY <1>0, <2>1 DEF IInv, BatchesAgree, FuturesAgree
  <2>3. fut' = [d \in Calls |-> IF d \in Range(b) THEN "open" ELSE fut[d]]
    BY <1>3 DEF StartBatch
  <2>4. Runs' = Runs
    <3>1. DOMAIN Numbered(b, nextId) \cap executed = {}
      <4>1. \A i \in DOMAIN Numbered(b, nextId) : i >= nextId
        BY CallsAssumption DEF Numbered, IInv, TypeOK, TableTypes
      <4> QED
        BY <4>1, FreshNotExecuted
    <3>2. Allocate(nextId + Len(b), Numbered(b, nextId)) /\ executed' = executed
      BY <1>3 DEF StartBatch, srvVars
    <3> QED
      BY <3>1, <3>2, RunsKept
  <2>5. Promise!Move(Range(b), "none", "open")
    BY <2>2, <2>3, <2>4 DEF Promise!Move, Runs
  <2> QED
    BY <2>1, <2>5 DEF Promise!Next
<1>4. ASSUME NEW b \in Batches, BatchDrained(b) \/ BatchDrainFails(b)
      PROVE  [Promise!Next]_(Promise!vars)
  BY <1>4, QuietRefines DEF BatchDrained, BatchDrainFails, tableVars, idVars, srvVars
<1>5. ASSUME NEW t \in resends, ResendWrites(t) \/ ResendDone(t)
      PROVE  [Promise!Next]_(Promise!vars)
  BY <1>5, QuietRefines DEF ResendWrites, ResendDone, tableVars, idVars, srvVars
<1>6. ASSUME NEW cs, fut' = Failing(cs), UNCHANGED <<owner, executed>>
      PROVE  [Promise!Next]_(Promise!vars)
  <2>1. Ending /\ Runs' = Runs
    BY <1>6, FailingFacts DEF Runs
  <2> QED
    BY <2>1, EndingRefines
<1>7. ASSUME NEW t \in resends, ResendFails(t)
      PROVE  [Promise!Next]_(Promise!vars)
  BY <1>6, <1>7 DEF ResendFails, idVars, srvVars
<1>8. ASSUME NEW r \in replies, HandleAnswer(r)
      PROVE  [Promise!Next]_(Promise!vars)
  <2> DEFINE cs == {c \in CallsIn({r.req}) : fut[c] = "open"}
  <2>1. /\ fut' = [c \in Calls |-> IF c \in cs THEN "answered" ELSE fut[c]]
        /\ r.req \in DOMAIN pending /\ r.type \in {"result", "error", "pong"}
        /\ UNCHANGED <<owner, executed>>
    BY <1>8 DEF HandleAnswer, idVars, srvVars
  <2>2. r.req \in executed
    BY <2>1 DEF IInv, ServerFaithful
  <2>3. ASSUME NEW c \in cs
        PROVE  c \in Calls /\ fut[c] = "open" /\ c \in Runs
    <3>1. c \in Calls /\ pending[r.req] = CallEntry(c) /\ fut[c] = "open"
      BY DEF CallsIn
    <3>2. pending[r.req].kind = "call" /\ pending[r.req].call = c
      BY <3>1 DEF CallEntry
    <3>3. owner[r.req] = c
      BY <2>1, <3>2 DEF IInv, EntriesFaithful
    <3> QED
      BY <2>2, <3>1, <3>3 DEF Runs
  <2> HIDE DEF cs
  <2>4. cs \cap Runs = cs /\ cs \in SUBSET Calls /\ Runs' = Runs
    BY <2>1, <2>3 DEF Runs
  <2>5. Promise!Move(cs \cap Runs, "open", "answered")
    BY <2>1, <2>3, <2>4 DEF Promise!Move, Runs
  <2> QED
    BY <2>4, <2>5 DEF Promise!Next, Runs
<1>9. ASSUME NEW r \in replies, HandleBadSalt(r)
      PROVE  [Promise!Next]_(Promise!vars)
  <2>1. fut' = fut /\ executed' = executed
    BY <1>9 DEF HandleBadSalt, srvVars
  <2>2. Runs' = Runs
    <3>1. CASE UNCHANGED idVars
      BY <2>1, <3>1 DEF Runs, idVars
    <3>2. CASE ResaltCall(r.req)
      <4> DEFINE body == Single(nextId, pending[r.req].call)
      <4>1. DOMAIN body \cap executed = {}
        BY FreshNotExecuted DEF Single
      <4>2. Allocate(nextId, body)
        BY <3>2 DEF ResaltCall
      <4> HIDE DEF body
      <4> QED
        BY <2>1, <4>1, <4>2, RunsKept
    <3>3. CASE ResaltContainer(r.req)
      <4> DEFINE cid == nextId + Cardinality(Live(r.req))
      <4>1. PICK g \in Bijection(nextId .. (cid - 1), Live(r.req)) :
              Allocate(cid, [i \in DOMAIN g |-> pending[g[i]].call])
        BY <3>3 DEF ResaltContainer
      <4>2. cid \in Int /\ nextId \in Int
        BY <4>1 DEF Allocate, Ids, IInv, TypeOK, TableTypes
      <4>3. DOMAIN g = nextId .. (cid - 1)
        BY DEF Bijection, Injection
      <4> HIDE DEF cid
      <4> DEFINE body == [i \in DOMAIN g |-> pending[g[i]].call]
      <4>4. \A i \in DOMAIN body : i \in Int /\ i >= nextId
        BY <4>2, <4>3
      <4> HIDE DEF body
      <4>5. DOMAIN body \cap executed = {}
        BY <4>2, <4>4, FreshNotExecuted
      <4>6. Allocate(cid, body)
        BY <4>1 DEF body
      <4> QED
        BY <2>1, <4>5, <4>6, RunsKept
    <3> QED
      BY <1>9, <3>1, <3>2, <3>3 DEF HandleBadSalt, ResaltNothing, idVars
  <2> QED
    BY <2>1, <2>2, NoFuture, EndingRefines
<1>10. ASSUME NEW r \in replies, HandleBadMsg(r)
       PROVE  [Promise!Next]_(Promise!vars)
  BY <1>6, <1>10 DEF HandleBadMsg, idVars, srvVars
<1>11. ASSUME NEW r \in replies, HandleNewSession(r)
       PROVE  [Promise!Next]_(Promise!vars)
  BY <1>11, QuietRefines DEF HandleNewSession, tableVars, idVars, srvVars
<1>12. CASE ConnectionLost
  BY <1>6, <1>12 DEF ConnectionLost, idVars, srvVars
<1>13. CASE Reconnected
  BY <1>13, QuietRefines DEF Reconnected, tableVars, idVars, srvVars
<1>14. ASSUME NEW m \in sent, NEW i \in DOMAIN m.body,
              NEW type \in {"result", "error", "pong"}, ServerAnswers(m, i, type)
       PROVE  [Promise!Next]_(Promise!vars)
  <2>1. /\ i \notin executed /\ executed' = executed \cup {i}
        /\ fut' = fut /\ owner' = owner
    BY <1>14 DEF ServerAnswers, tableVars, idVars
  <2>2. i \in Ids /\ owner[i] \in Calls /\ owner[i] # NoCall
    BY SentFacts
  <2>3. fut[owner[i]] # "none"
    BY <1>0, <2>2 DEF IdsOfCalls
  <2>4. owner[i] \notin Runs
    <3> SUFFICES ASSUME NEW j \in executed, owner[j] = owner[i] PROVE FALSE
      BY DEF Runs
    <3>1. /\ i \in executed' /\ j \in executed' /\ owner'[i] = owner'[j] /\ owner'[i] # NoCall
          /\ j \in Ids /\ i # j
      BY <1>0, <2>1, <2>2 DEF ServerTypes
    <3>2. i \notin rejected' /\ j \notin rejected'
      BY <3>1 DEF IInv, ServerFaithful
    <3>3. ~ (i < j) /\ ~ (j < i)
      BY <2>2, <3>1, <3>2 DEF IInv, OnlyNewestCounts
    <3> QED
      BY <2>2, <3>1, <3>3 DEF Ids
  <2>5. Runs' = Runs \cup {owner[i]}
    BY <2>1 DEF Runs
  <2>6. PICK c \in Calls : c = owner[i]
    BY <2>2
  <2>7. Promise!Run(c)
    BY <2>1, <2>3, <2>4, <2>5, <2>6 DEF Promise!Run, Runs
  <2> QED
    BY <2>7 DEF Promise!Next
<1>15. ASSUME NEW m \in sent, ServerRefusesSalt(m) \/ ServerRefusesMessage(m)
       PROVE  [Promise!Next]_(Promise!vars)
  BY <1>15, QuietRefines DEF ServerRefusesSalt, ServerRefusesMessage, Refuse, tableVars, idVars
<1>16. CASE ServerChangesSalt
  BY <1>16, QuietRefines DEF ServerChangesSalt, tableVars, idVars
<1>17. CASE UNCHANGED vars
  BY <1>17, QuietRefines DEF vars
<1> QED
  BY <1>1, <1>2, <1>3, <1>4, <1>5, <1>7, <1>8, <1>9, <1>10, <1>11, <1>12, <1>13,
     <1>14, <1>15, <1>16, <1>17 DEF Next, Handle, ServerStep

\* The table of outstanding requests implements the promise of AtMostOnceRpc:
\* a call runs at most once, is answered only when it has been run, and its
\* outcome is final.
THEOREM Refinement == Spec => KeepsPromise
<1>1. Init => Promise!Init
  BY DEF Init, Promise!Init
<1>2. IInv /\ IInv' /\ [Next]_vars => [Promise!Next]_(Promise!vars)
  BY StepRefines
<1> QED
  BY <1>1, <1>2, Invariance, PTL DEF Spec, KeepsPromise, Promise!Spec

-----------------------------------------------------------------------------
(* Rejections.  A message that is a single request carries its own id.     *)

\* The request of such a message is not left under the id once the rejection
\* has been handled, containers or not.
LoneSettled ==
    \A r \in handled :
        /\ r.type \in {"bad_salt", "bad_msg"}
        /\ r.req \in r.ids => ~ IsCall(r.req)

\* Every message is a single request, when nobody sends a container.
AllLone ==
    /\ \A i \in Ids : carries[i] \subseteq {i}
    /\ \A i \in DOMAIN pending : pending[i].kind = "call"

\* A call gets an entry only under a fresh id.
FreshEntries ==
    \A i \in DOMAIN pending' :
        \/ i \in DOMAIN pending /\ pending'[i] = pending[i]
        \/ i >= nextId
        \/ pending'[i].kind = "container"

\* What the handler of bad_server_salt leaves in the table.
LEMMA SaltEntries ==
    ASSUME IInv, NEW id \in Ids, ResaltNothing(id) \/ ResaltCall(id) \/ ResaltContainer(id)
    PROVE  /\ FreshEntries
           /\ id \in DOMAIN pending' => id >= nextId \/ pending'[id].kind = "container"
           /\ AllLone => AllLone'
<1> DEFINE dropped == {id} \cup IF IsGroup(id) THEN {i \in pending[id].ids : IsCall(i)} ELSE {}
<1>1. /\ DOMAIN Popped(id) = DOMAIN pending \ dropped
      /\ \A i \in DOMAIN pending \ dropped : Popped(id)[i] = pending[i]
  BY DEF Popped, Without, Restrict
<1>2. id \in dropped
  OBVIOUS
<1>3. nextId \in Nat
  BY BoundsAssumption DEF IInv, TypeOK, TableTypes
<1> HIDE DEF dropped
<1>4. CASE ResaltNothing(id)
  BY <1>1, <1>2, <1>4 DEF ResaltNothing, FreshEntries, AllLone, idVars
<1>5. CASE ResaltCall(id)
  <2> DEFINE more == [i \in {nextId} |-> pending[id]]
  <2>1. /\ pending' = With(Popped(id), more) /\ IsCall(id)
        /\ carries' = [carries EXCEPT ![nextId] = {nextId}]
    BY <1>5 DEF ResaltCall, Open, Allocate, Single
  <2>2. DOMAIN more = {nextId} /\ more[nextId] = pending[id]
    OBVIOUS
  <2> HIDE DEF more
  <2>3. /\ DOMAIN pending' = DOMAIN Popped(id) \cup {nextId} /\ pending'[nextId] = pending[id]
        /\ \A i \in DOMAIN Popped(id) \ {nextId} : pending'[i] = Popped(id)[i]
    BY <2>1, <2>2 DEF With
  <2>4. FreshEntries
    BY <1>1, <1>3, <2>3 DEF FreshEntries
  <2>5. AllLone => AllLone'
    BY <1>1, <2>1, <2>3 DEF AllLone, IsCall, IInv, TypeOK, TableTypes
  <2> QED
    BY <1>1, <1>2, <1>3, <2>3, <2>4, <2>5
<1>6. CASE ResaltContainer(id)
  <2>1. PICK cid, g : /\ DOMAIN g = nextId .. (cid - 1)
                      /\ pending' = With(With(Popped(id), [i \in DOMAIN g |-> pending[g[i]]]),
                                         [i \in {cid} |-> GroupEntry(DOMAIN g)])
    BY <1>6 DEF ResaltContainer, Bijection, Injection, IsInjective
  <2> DEFINE more == [i \in DOMAIN g |-> pending[g[i]]]
             last == [i \in {cid} |-> GroupEntry(DOMAIN g)]
             table == With(Popped(id), more)
  <2>2. DOMAIN last = {cid} /\ last[cid].kind = "container" /\ DOMAIN more = DOMAIN g
    BY DEF GroupEntry
  <2> HIDE DEF more, last
  <2>3. /\ DOMAIN table = DOMAIN Popped(id) \cup DOMAIN g
        /\ \A i \in DOMAIN Popped(id) \ DOMAIN g : table[i] = Popped(id)[i]
    BY <2>2 DEF With
  <2> HIDE DEF table
  <2>4. /\ DOMAIN pending' = DOMAIN table \cup {cid} /\ pending'[cid].kind = "container"
        /\ \A i \in DOMAIN table \ {cid} : pending'[i] = table[i]
    BY <2>1, <2>2 DEF With, table, more, last
  <2>5. \A i \in DOMAIN g : i >= nextId
    BY <2>1, <1>3
  <2>6. FreshEntries
    BY <1>1, <2>3, <2>4, <2>5 DEF FreshEntries
  <2>7. ~ AllLone
    BY <1>6 DEF ResaltContainer, IsGroup, AllLone
  <2> QED
    BY <1>1, <1>2, <2>3, <2>4, <2>5, <2>6, <2>7
<1> QED
  BY <1>4, <1>5, <1>6

\* The other steps of the table only remove entries, or add the ones of new
\* requests and containers.
LEMMA OtherEntries ==
    ASSUME IInv, Next, handled' = handled
    PROVE  FreshEntries /\ (Batches = {} /\ AllLone => AllLone')
<1>0. nextId \in Nat
  BY BoundsAssumption DEF IInv, TypeOK, TableTypes
<1>1. ASSUME UNCHANGED idVars, NEW ids, pending' = Without(pending, ids)
      PROVE  FreshEntries /\ (AllLone => AllLone')
  BY <1>1 DEF Without, Restrict, FreshEntries, AllLone, idVars
<1>2. ASSUME UNCHANGED <<pending, idVars>> PROVE FreshEntries /\ (AllLone => AllLone')
  BY <1>2 DEF FreshEntries, AllLone, idVars
<1>3. ASSUME NEW c \in Singles, StartCall(c) PROVE FreshEntries /\ (AllLone => AllLone')
  <2>1. /\ pending' = With(pending, [i \in {nextId} |-> CallEntry(c)])
        /\ carries' = [carries EXCEPT ![nextId] = {nextId}]
    BY <1>3 DEF StartCall, Allocate, Single
  <2>2. /\ DOMAIN pending' = DOMAIN pending \cup {nextId} /\ pending'[nextId].kind = "call"
        /\ \A i \in DOMAIN pending \ {nextId} : pending'[i] = pending[i]
    BY <2>1 DEF With, CallEntry
  <2> QED
    BY <1>0, <2>1, <2>2 DEF FreshEntries, AllLone, IInv, TypeOK, TableTypes
<1>4. ASSUME NEW c \in Singles, CallStep(c) PROVE FreshEntries /\ (AllLone => AllLone')
  BY <1>1, <1>2, <1>4 DEF CallStep, WriteCall, CallDrained, StopWaiting, FinishCall, AbortCall,
                          Cleanup, tableVars, idVars
<1>5. ASSUME NEW b \in Batches, StartBatch(b) \/ BatchDrained(b) \/ BatchDrainFails(b)
      PROVE  FreshEntries
  <2>1. CASE StartBatch(b)
    <3> DEFINE body == Numbered(b, nextId)
               more == [i \in DOMAIN body |-> CallEntry(body[i])]
    <3>1. pending' = With(pending, more)
      BY <2>1 DEF StartBatch
    <3>2. DOMAIN more = nextId .. (nextId + Len(b) - 1)
      BY DEF Numbered
    <3>3. \A i \in DOMAIN more : i >= nextId
      BY <1>0, <3>2
    <3> HIDE DEF more
    <3> QED
      BY <3>1, <3>3 DEF With, FreshEntries
  <2>2. CASE BatchDrained(b)
    <3> DEFINE more == [i \in {container[b].id} |-> GroupEntry(container[b].ids)]
    <3>1. pending' = With(pending, more)
      BY <2>2 DEF BatchDrained
    <3>2. \A i \in DOMAIN more : more[i].kind = "container"
      BY DEF GroupEntry
    <3> HIDE DEF more
    <3> QED
      BY <3>1, <3>2 DEF With, FreshEntries
  <2>3. CASE BatchDrainFails(b)
    BY <1>2, <2>3 DEF BatchDrainFails, tableVars
  <2> QED
    BY <1>5, <2>1, <2>2, <2>3
<1>6. ASSUME NEW t \in resends, ResendWrites(t) \/ ResendDone(t) \/ ResendFails(t)
      PROVE  FreshEntries /\ (AllLone => AllLone')
  BY <1>1, <1>2, <1>6 DEF ResendWrites, ResendDone, ResendFails, tableVars
<1>7. ASSUME NEW r \in replies, HandleAnswer(r) PROVE FreshEntries /\ (AllLone => AllLone')
  <2>1. /\ UNCHANGED idVars
        /\ \/ pending' = Without(pending, {r.req})
           \/ \E ids : pending' = Without(Without(pending, {r.req}), ids)
    BY <1>7 DEF HandleAnswer
  <2>2. DOMAIN pending' \subseteq DOMAIN pending /\ \A i \in DOMAIN pending' : pending'[i] = pending[i]
    BY <2>1 DEF Without, Restrict
  <2> QED
    BY <2>1, <2>2 DEF FreshEntries, AllLone, idVars
<1>8. ASSUME NEW r \in replies, HandleNewSession(r) PROVE FreshEntries /\ (AllLone => AllLone')
  BY <1>2, <1>8 DEF HandleNewSession, tableVars
<1>9. ASSUME NEW r \in replies, HandleBadSalt(r) \/ HandleBadMsg(r)
      PROVE  FreshEntries /\ (AllLone => AllLone')
  <2>1. CASE HandleBadMsg(r)
    BY <1>1, <2>1 DEF HandleBadMsg
  <2>2. CASE HandleBadSalt(r)
    <3>1. r.req \in Ids
      BY <2>2 DEF HandleBadSalt, IInv, TypeOK, ServerTypes, Replies
    <3> QED
      BY <2>2, <3>1, SaltEntries DEF HandleBadSalt
  <2> QED
    BY <1>9, <2>1, <2>2
<1>10. ASSUME ConnectionLost PROVE FreshEntries /\ (AllLone => AllLone')
  BY <1>10 DEF ConnectionLost, FreshEntries, AllLone, idVars
<1>11. ASSUME Reconnected \/ ServerStep PROVE FreshEntries /\ (AllLone => AllLone')
  BY <1>2, <1>11 DEF Reconnected, ServerStep, ServerAnswers, ServerRefusesSalt,
     ServerRefusesMessage, Refuse, ServerChangesSalt, tableVars
<1> QED
  BY <1>3, <1>4, <1>5, <1>6, <1>7, <1>8, <1>9, <1>10, <1>11 DEF Next, Handle
LEMMA NextSettles ==
    /\ IInv /\ LoneSettled /\ [Next]_vars => LoneSettled'
    /\ Batches = {} /\ IInv /\ AllLone /\ [Next]_vars => AllLone'
<1>1. ASSUME UNCHANGED vars
      PROVE  (LoneSettled => LoneSettled') /\ (AllLone => AllLone')
  BY <1>1 DEF vars, LoneSettled, AllLone, IsCall
\* What has been handled was not fresh.
<1>2. ASSUME IInv, NEW r \in replies, r.type \in {"bad_salt", "bad_msg"}
      PROVE  r.req \in Ids /\ r.req < nextId
  <2>1. r.req \in Ids /\ carries[r.req] # {}
    <3>1. r \in Replies
      BY <1>2 DEF IInv, TypeOK, ServerTypes
    <3>2. r.req \in Ids
      BY <1>2, <3>1 DEF Replies
    <3>3. r.ids # {} /\ r.ids = carries[r.req]
      BY <1>2 DEF IInv, ServerFaithful
    <3> QED
      BY <3>2, <3>3
  <2> QED
    BY <1>2, <2>1, BoundsAssumption DEF IInv, FreshIds, TypeOK, TableTypes, Ids
<1>3. ASSUME IInv, NEW r \in replies, HandleBadSalt(r) \/ HandleBadMsg(r)
      PROVE  /\ handled' = handled \cup {r} /\ ~ IsCall(r.req)'
             /\ FreshEntries /\ (AllLone => AllLone')
  <2>1. r.req \in Ids /\ r.req < nextId /\ nextId \in Nat
    <3>1. r.type \in {"bad_salt", "bad_msg"}
      BY <1>3 DEF HandleBadSalt, HandleBadMsg
    <3>2. r.req \in Ids /\ r.req < nextId
      BY <1>2, <1>3, <3>1
    <3> QED
      BY <1>3, <3>2, BoundsAssumption DEF IInv, TypeOK, TableTypes
  <2>2. CASE HandleBadSalt(r)
    BY <1>3, <2>1, <2>2, SaltEntries DEF HandleBadSalt, IsCall, Ids
  <2>3. CASE HandleBadMsg(r)
    BY <2>3 DEF HandleBadMsg, Without, Restrict, IsCall, FreshEntries, AllLone, idVars
  <2> QED
    BY <1>3, <2>2, <2>3
<1>4. ASSUME IInv, Next
      PROVE  \/ \E r \in replies : HandleBadSalt(r) \/ HandleBadMsg(r)
             \/ handled' = handled
  BY <1>4 DEF Next, CallStep, Handle, ServerStep, StartCall, WriteCall, CallDrained, StopWaiting,
     FinishCall, AbortCall, Cleanup, StartBatch, BatchDrained, BatchDrainFails, ResendWrites,
     ResendDone, ResendFails, HandleAnswer, HandleNewSession, ConnectionLost, Reconnected,
     ServerAnswers, ServerRefusesSalt, ServerRefusesMessage, Refuse, ServerChangesSalt
<1>5. ASSUME IInv, LoneSettled, Next PROVE LoneSettled'
  <2>1. ASSUME NEW r \in handled, r.req \in r.ids PROVE FreshEntries => ~ IsCall(r.req)'
    <3>1. r.type \in {"bad_salt", "bad_msg"} /\ r \in replies
      BY <1>5, <2>1 DEF LoneSettled, IInv, TypeOK, ServerTypes
    <3>2. r.req \in Ids /\ r.req < nextId
      BY <1>2, <1>5, <3>1
    <3> QED
      BY <1>5, <2>1, <3>2, BoundsAssumption
         DEF LoneSettled, FreshEntries, IsCall, IInv, TypeOK, TableTypes, Ids
  <2>2. CASE handled' = handled
    BY <1>5, <2>1, <2>2, OtherEntries DEF LoneSettled
  <2>3. CASE \E r \in replies : HandleBadSalt(r) \/ HandleBadMsg(r)
    <3>1. PICK r \in replies : HandleBadSalt(r) \/ HandleBadMsg(r)
      BY <2>3
    <3>2. r.type \in {"bad_salt", "bad_msg"}
      BY <3>1 DEF HandleBadSalt, HandleBadMsg
    <3> QED
      BY <1>3, <1>5, <2>1, <3>1, <3>2 DEF LoneSettled
  <2> QED
    BY <1>4, <1>5, <2>2, <2>3
<1>6. ASSUME Batches = {}, IInv, AllLone, Next PROVE AllLone'
  BY <1>3, <1>4, <1>6, OtherEntries
<1> QED
  BY <1>1, <1>5, <1>6
\* However requests are sent, alone or in containers: the rejection of one that
\* was sent alone leaves nothing under its id.
LEMMA LoneRequestsSettle == Spec => []LoneSettled
<1>1. Init => LoneSettled
  BY DEF Init, LoneSettled
<1> QED
  BY <1>1, NextSettles, Invariance, PTL DEF Spec

\* A client that sends no containers: whatever the server rejects, the handler
\* of the rejection retries it under a new id or fails it.
THEOREM RejectedAreSettled ==
    ASSUME Batches = {} PROVE Spec => []RejectedNotLeftPending
<1>1. Init => AllLone
  BY DEF Init, AllLone
<1>2. IInv /\ AllLone /\ [Next]_vars => AllLone'
  BY NextSettles
<1>3. ASSUME IInv, LoneSettled, AllLone PROVE RejectedNotLeftPending
  <2> SUFFICES ASSUME NEW r \in handled, NEW i \in r.ids, IsCall(i) PROVE FALSE
    BY DEF RejectedNotLeftPending, LeftPending, Open
  <2>1. r.type \in {"bad_salt", "bad_msg"} /\ r \in replies /\ r \in Replies
    BY <1>3 DEF LoneSettled, IInv, TypeOK, ServerTypes
  <2>2. r.req \in Ids
    BY <2>1 DEF Replies
  <2>3. r.ids = carries[r.req]
    BY <1>3, <2>1 DEF IInv, ServerFaithful
  <2>4. i = r.req
    BY <1>3, <2>2, <2>3 DEF AllLone
  <2> QED
    BY <1>3, <2>4 DEF LoneSettled
<1> QED
  BY <1>1, <1>2, <1>3, LoneRequestsSettle, Invariance, PTL DEF Spec
=============================================================================
