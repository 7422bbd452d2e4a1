------------------------------ MODULE RpcTable ------------------------------
(***************************************************************************)
(* The table of outstanding requests of the MTProto transport              *)
(* (src/goygram/transports/mtproto.py, class MTNet): `_rpc_call`, `send`,  *)
(* `send_container`, `_resend`, `_resend_container`, the answers that      *)
(* `_handle_encrypted_packet` applies to `pending`, and the loss of the    *)
(* connection in `spin`.                                                   *)
(*                                                                         *)
(* The event loop runs one task at a time, so the code between two awaits  *)
(* is one action.  The server is outside the repository: it may answer or  *)
(* reject a message, once, at any time.  What it sends is never taken out  *)
(* of `replies`, so a reply may arrive late, out of order or repeatedly    *)
(* (the client's own duplicate filter forgets half of what it has seen     *)
(* when it fills up) and may also never arrive.                            *)
(***************************************************************************)
EXTENDS Integers, FiniteSets, Sequences, Functions

CONSTANTS
    Singles,   \* calls made through _rpc_call
    Batches,   \* sequences of calls, each made by one send_container
    NoCall,    \* the owner of a message id that belongs to no call
    MaxId,     \* bound: message ids the client may allocate
    MaxSalt    \* bound: times the server may change its salt

Batched == UNION {Range(b) : b \in Batches}
Calls == Singles \cup Batched
Ids == 1 .. MaxId

ASSUME CallsAssumption ==
    /\ NoCall \notin Calls
    /\ Singles \cap Batched = {}
    /\ \A b \in Batches : b \in Seq(Batched) /\ b # << >> /\ IsInjective(b)
    /\ \A b1, b2 \in Batches : b1 # b2 => Range(b1) \cap Range(b2) = {}

ASSUME BoundsAssumption == MaxId \in Nat /\ MaxSalt \in Nat

VARIABLES
    phase,      \* where the coroutine of a call stands
    fut,        \* the call's future: "none", "open", "answered" or "failed"
    answerTo,   \* the request whose answer the future carries
    outcome,    \* what the caller of _rpc_call got
    reqId,      \* req_msg_id, the local variable of _rpc_call
    container,  \* the coroutine of send_container, for each batch
    pending,    \* MTNet.pending: message id -> entry
    resends,    \* running _resend and _resend_container tasks
    nextId,     \* the next value of MTNet.msg_ids
    salt,       \* MTNet.server_salt
    connected,  \* MTNet.wr is not None
    sent,       \* messages written to the connection
    srvSalt,    \* external: the salt the server wants
    executed,   \* external: message ids whose request the server has run
    rejected,   \* external: message ids the server has refused to run
    replies,    \* external: what the server has sent
    owner,      \* history: the call each message id was allocated for
    carries,    \* history: the requests in the message of each message id
    handled     \* history: the rejections the client has handled

idVars == <<owner, carries, nextId>>
tableVars == <<fut, answerTo, pending, idVars>>
callVars == <<phase, outcome, reqId>>
srvVars == <<srvSalt, executed, rejected, replies>>
vars == <<phase, fut, answerTo, outcome, reqId, container, pending, resends,
          nextId, salt, connected, sent, srvSalt, executed, rejected, replies,
          owner, carries, handled>>

-----------------------------------------------------------------------------
(* The two kinds of value the code keeps in `pending`. *)
CallEntry(c) == [kind |-> "call", call |-> c]
GroupEntry(ids) == [kind |-> "container", ids |-> ids]

IsCall(i) == i \in DOMAIN pending /\ pending[i].kind = "call"
IsGroup(i) == i \in DOMAIN pending /\ pending[i].kind = "container"

Without(table, ids) == Restrict(table, DOMAIN table \ ids)
With(table, more) ==
    [i \in DOMAIN table \cup DOMAIN more |->
        IF i \in DOMAIN more THEN more[i] ELSE table[i]]

(* A message carries a salt and, for each request in it, its id and call. *)
Message(id, body) == [id |-> id, body |-> body, salt |-> salt]
Single(id, c) == [i \in {id} |-> c]

\* Mutant: the exception is set without asking whether the future is done.
FailingDone(cs) == [c \in Calls |-> IF c \in cs THEN "failed" ELSE fut[c]]

\* The futures once those of the calls in cs have an exception or are cancelled,
\* if they are not done.
Failing(cs) == [c \in Calls |-> IF c \in cs /\ fut[c] = "open"
                                THEN "failed" ELSE fut[c]]

\* Mutant: the finally block looks only for the id it registered itself.
EntriesOfFirstId(c) ==
    {i \in DOMAIN pending : i = reqId[c] /\ pending[i] = CallEntry(c)}

EntriesOf(c) == {i \in DOMAIN pending : pending[i] = CallEntry(c)}
CallsIn(ids) == {c \in Calls : \E i \in ids \cap DOMAIN pending :
                                    pending[i] = CallEntry(c)}

\* MsgIdGen.next for the requests of body and for the message that carries
\* them: one id for a single request, one more than the requests for a
\* container.
Allocate(id, body) ==
    /\ id \in Ids
    /\ nextId' = id + 1
    /\ owner' = [i \in Ids |-> IF i \in DOMAIN body THEN body[i] ELSE owner[i]]
    /\ carries' = [carries EXCEPT ![id] = DOMAIN body]

-----------------------------------------------------------------------------
Init ==
    /\ phase = [c \in Calls |-> "idle"]
    /\ fut = [c \in Calls |-> "none"]
    /\ answerTo = [c \in Calls |-> NoCall]
    /\ outcome = [c \in Calls |-> "none"]
    /\ reqId = [c \in Calls |-> 0]
    /\ container = [b \in Batches |-> [pc |-> "idle", id |-> 0, ids |-> {}]]
    /\ pending = [i \in {} |-> NoCall]
    /\ resends = {}
    /\ nextId = 1
    /\ salt = 0
    /\ connected = TRUE
    /\ sent = {}
    /\ srvSalt = 0
    /\ executed = {}
    /\ rejected = {}
    /\ replies = {}
    /\ owner = [i \in Ids |-> NoCall]
    /\ carries = [i \in Ids |-> {}]
    /\ handled = {}

-----------------------------------------------------------------------------
(* _rpc_call *)

\* The future is created and registered before anything is sent.
StartCall(c) ==
    /\ phase[c] = "idle"
    /\ Allocate(nextId, Single(nextId, c))
    /\ phase' = [phase EXCEPT ![c] = "queued"]
    /\ fut' = [fut EXCEPT ![c] = "open"]
    /\ reqId' = [reqId EXCEPT ![c] = nextId]
    /\ pending' = With(pending, [i \in {nextId} |-> CallEntry(c)])
    /\ UNCHANGED <<answerTo, outcome, container, resends, salt, connected,
                   sent, handled, srvVars>>

\* send() writes as soon as ensure_auth_key lets it, whatever has become of
\* the entry in the meantime.
WriteCall(c) ==
    /\ phase[c] = "queued"
    /\ connected
    /\ sent' = sent \cup {Message(reqId[c], Single(reqId[c], c))}
    /\ phase' = [phase EXCEPT ![c] = "draining"]
    /\ UNCHANGED <<tableVars, outcome, reqId, container, resends, salt,
                   connected, handled, srvVars>>

CallDrained(c) ==
    /\ phase[c] = "draining"
    /\ phase' = [phase EXCEPT ![c] = "waiting"]
    /\ UNCHANGED <<tableVars, outcome, reqId, container, resends, salt,
                   connected, sent, handled, srvVars>>

\* Mutant: the future is awaited without wait_for.
NeverStopWaiting(c) == c \notin Calls /\ UNCHANGED vars

\* wait_for cancels the future: the 30 seconds are over, or the caller was
\* cancelled.  The coroutine itself runs in a later step, FinishCall.
StopWaiting(c) ==
    /\ phase[c] = "waiting"
    /\ fut[c] = "open"
    /\ fut' = Failing({c})
    /\ UNCHANGED <<callVars, answerTo, pending, idVars, container,
                   resends, salt, connected, sent, handled, srvVars>>

\* Mutant: the finally block is missing.
NoCleanup(c, result) ==
    /\ phase' = [phase EXCEPT ![c] = "returned"]
    /\ outcome' = [outcome EXCEPT ![c] = result]
    /\ UNCHANGED <<tableVars, reqId, container, resends, salt, connected, sent,
                   handled, srvVars>>

\* The finally block: no entry may be left for the future, and it is done.
Cleanup(c, result) ==
    /\ phase' = [phase EXCEPT ![c] = "returned"]
    /\ outcome' = [outcome EXCEPT ![c] = result]
    /\ pending' = Without(pending, EntriesOf(c))
    /\ fut' = Failing({c})
    /\ UNCHANGED <<answerTo, reqId, idVars, container, resends, salt,
                   connected, sent, handled, srvVars>>

FinishCall(c) ==
    /\ phase[c] = "waiting"
    /\ fut[c] \in {"answered", "failed"}
    /\ Cleanup(c, fut[c])

\* send() raises (no writer, drain fails) or the caller is cancelled in it.
AbortCall(c) ==
    /\ phase[c] \in {"queued", "draining"}
    /\ Cleanup(c, "failed")

-----------------------------------------------------------------------------
(* send_container: the futures are registered first, the container itself  *)
(* only after the drain.  Nothing awaits the futures.                      *)

\* The calls of b under consecutive ids.
Numbered(b, first) == [i \in first .. (first + Len(b) - 1) |-> b[i - first + 1]]

\* It is sent, or not: without a connection, or when a body cannot be built.
StartBatch(b) ==
    LET n == Len(b)
        cid == nextId + n
        body == Numbered(b, nextId)
    IN  /\ container[b].pc = "idle"
        /\ Allocate(cid, body)
        /\ phase' = [c \in Calls |-> IF c \in Range(b) THEN "batched" ELSE phase[c]]
        /\ fut' = [c \in Calls |-> IF c \in Range(b) THEN "open" ELSE fut[c]]
        /\ pending' = With(pending, [i \in DOMAIN body |-> CallEntry(body[i])])
        /\ \/ /\ connected
              /\ sent' = sent \cup {Message(cid, body)}
              /\ container' = [container EXCEPT ![b] =
                    [pc |-> "draining", id |-> cid, ids |-> DOMAIN body]]
           \/ /\ container' = [container EXCEPT ![b].pc = "done"]
              /\ UNCHANGED sent
        /\ UNCHANGED <<answerTo, outcome, reqId, resends, salt, connected,
                       handled, srvVars>>

BatchDrained(b) ==
    /\ container[b].pc = "draining"
    /\ container' = [container EXCEPT ![b].pc = "done"]
    /\ pending' = With(pending,
            [i \in {container[b].id} |-> GroupEntry(container[b].ids)])
    /\ UNCHANGED <<callVars, fut, answerTo, idVars, resends, salt,
                   connected, sent, handled, srvVars>>

BatchDrainFails(b) ==
    /\ container[b].pc = "draining"
    /\ container' = [container EXCEPT ![b].pc = "done"]
    /\ UNCHANGED <<callVars, tableVars, resends, salt, connected, sent,
                   handled, srvVars>>

-----------------------------------------------------------------------------
(* _resend and _resend_container, tasks that bad_server_salt creates       *)

ResendWrites(t) ==
    /\ t \in resends
    /\ ~t.written
    /\ connected
    /\ sent' = sent \cup {Message(t.id, t.body)}
    /\ resends' = (resends \ {t}) \cup {[t EXCEPT !.written = TRUE]}
    /\ UNCHANGED <<callVars, tableVars, container, salt, connected, handled,
                   srvVars>>

ResendDone(t) ==
    /\ t \in resends
    /\ t.written
    /\ resends' = resends \ {t}
    /\ UNCHANGED <<callVars, tableVars, container, salt, connected, sent,
                   handled, srvVars>>

\* Any exception, before the write or in the drain, fails the calls.
ResendFails(t) ==
    /\ t \in resends
    /\ resends' = resends \ {t}
    /\ fut' = Failing(CallsIn(DOMAIN t.body))
    /\ pending' = Without(pending, {t.id} \cup DOMAIN t.body)
    /\ UNCHANGED <<callVars, answerTo, idVars, container, salt,
                   connected, sent, handled, srvVars>>

-----------------------------------------------------------------------------
(* _handle_encrypted_packet, the replies that change `pending`             *)

\* Container entries none of whose requests is outstanding any more.
Collected(table) ==
    {i \in DOMAIN table : /\ table[i].kind = "container"
                          /\ table[i].ids \cap DOMAIN table = {}}

\* Mutant: the future gets the message id instead of the parsed answer.
AnswerIsId(r) == r.req

\* _parse_rpc_result, and the decoded pong.
Answer(r) == r.value

\* rpc_result and pong.  A result also collects container entries; an
\* rpc_error (which _parse_rpc_result raises) and a pong do not.
HandleAnswer(r) ==
    /\ r.type \in {"result", "error", "pong"}
    /\ r.req \in DOMAIN pending
    /\ LET popped == Without(pending, {r.req})
           open == {c \in CallsIn({r.req}) : fut[c] = "open"}
       IN  /\ fut' = [c \in Calls |-> IF c \in open THEN "answered" ELSE fut[c]]
           /\ answerTo' = [c \in Calls |-> IF c \in open THEN Answer(r) ELSE answerTo[c]]
           /\ pending' = IF r.type = "result" /\ open # {}
                         THEN Without(popped, Collected(popped))
                         ELSE popped
    /\ UNCHANGED <<callVars, idVars, container, resends, salt,
                   connected, sent, handled, srvVars>>

\* The requests that bad_server_salt for message id leaves to be sent again.
Open(i) == IsCall(i) /\ fut[pending[i].call] = "open"
Live(id) == {i \in IF IsGroup(id) THEN pending[id].ids ELSE {id} : Open(i)}

\* Mutant: the entries are read, not popped.
NotPopped(id) == pending

\* The table without the message and the requests it carried.
Popped(id) ==
    Without(pending, {id} \cup IF IsGroup(id) THEN {i \in pending[id].ids : IsCall(i)}
                                              ELSE {})

Resending(id, body) ==
    resends' = resends \cup {[id |-> id, body |-> body, written |-> FALSE]}

\* Nothing is open under this id: the caller is gone, or the entry is.
ResaltNothing(id) ==
    /\ Live(id) = {}
    /\ pending' = Popped(id)
    /\ UNCHANGED <<idVars, resends>>

\* A request sent alone gets a new id, and a task to send it.
ResaltCall(id) ==
    LET body == Single(nextId, pending[id].call)
    IN  /\ Open(id)
        /\ Allocate(nextId, body)
        /\ pending' = With(Popped(id), [i \in {nextId} |-> pending[id]])
        /\ Resending(nextId, body)

Ordered(g) == \A i, j \in DOMAIN g : i < j => g[i] < g[j]

\* Mutant: the bodies in the opposite order to the new ids.
ResentBodyReversed(g) ==
    LET lo == CHOOSE i \in DOMAIN g : \A j \in DOMAIN g : i <= j
        hi == CHOOSE i \in DOMAIN g : \A j \in DOMAIN g : i >= j
    IN  [i \in DOMAIN g |-> pending[g[lo + hi - i]].call]

\* saved_objs, in the order of the new ids.
ResentBody(g) == [i \in DOMAIN g |-> pending[g[i]].call]

\* The open requests of a container get new ids, in the order of the old ones
\* (g maps new to old), and a new container carries them.
ResaltContainer(id) ==
    LET cid == nextId + Cardinality(Live(id))
    IN  /\ IsGroup(id)
        /\ Live(id) # {}
        /\ \E g \in Bijection(nextId .. (cid - 1), Live(id)) :
             /\ Ordered(g)
             /\ Allocate(cid, [i \in DOMAIN g |-> pending[g[i]].call])
             /\ pending' = With(With(Popped(id), [i \in DOMAIN g |-> pending[g[i]]]),
                                [i \in {cid} |-> GroupEntry(DOMAIN g)])
             /\ Resending(cid, ResentBody(g))

HandleBadSalt(r) ==
    /\ r.type = "bad_salt"
    /\ salt' = r.salt
    /\ handled' = handled \cup {r}
    /\ ResaltNothing(r.req) \/ ResaltCall(r.req) \/ ResaltContainer(r.req)
    /\ UNCHANGED <<callVars, fut, answerTo, container, connected, sent, srvVars>>

\* Mutant: the notification is only logged.
IgnoreBadMsg(r) ==
    /\ r.type = "bad_msg"
    /\ handled' = handled \cup {r}
    /\ UNCHANGED <<callVars, tableVars, container, resends, salt, connected,
                   sent, srvVars>>

\* bad_msg_notification: a request fails; a container entry is just dropped.
HandleBadMsg(r) ==
    /\ r.type = "bad_msg"
    /\ handled' = handled \cup {r}
    /\ fut' = Failing(CallsIn({r.req}))
    /\ pending' = Without(pending, {r.req})
    /\ UNCHANGED <<callVars, answerTo, idVars, container, resends, salt,
                   connected, sent, srvVars>>

HandleNewSession(r) ==
    /\ r.type = "new_session"
    /\ salt' = r.salt
    /\ UNCHANGED <<callVars, tableVars, container, resends, connected, sent,
                   handled, srvVars>>

-----------------------------------------------------------------------------
(* spin's ConnectionError branch, and close: everything outstanding fails. *)
ConnectionLost ==
    /\ connected' = FALSE
    /\ fut' = Failing(CallsIn(Ids))
    /\ pending' = [i \in {} |-> NoCall]
    /\ UNCHANGED <<callVars, answerTo, idVars, container, resends, salt,
                   sent, handled, srvVars>>

Reconnected ==
    /\ ~connected
    /\ connected' = TRUE
    /\ UNCHANGED <<callVars, tableVars, container, resends, salt, sent,
                   handled, srvVars>>

-----------------------------------------------------------------------------
(* The server                                                              *)

Untouched(m) == DOMAIN m.body \cap (executed \cup rejected) = {}

ServerAnswers(m, i, type) ==
    /\ i \in DOMAIN m.body \ (executed \cup rejected)
    /\ executed' = executed \cup {i}
    /\ replies' = replies \cup {[type |-> type, req |-> i, value |-> m.body[i]]}
    /\ UNCHANGED <<callVars, tableVars, container, resends, salt, connected,
                   sent, handled, srvSalt, rejected>>

Refuse(m, r) ==
    /\ Untouched(m)
    /\ rejected' = rejected \cup DOMAIN m.body
    /\ replies' = replies \cup {r}
    /\ UNCHANGED <<callVars, tableVars, container, resends, salt, connected,
                   sent, handled, srvSalt, executed>>

ServerRefusesSalt(m) ==
    /\ m.salt # srvSalt
    /\ Refuse(m, [type |-> "bad_salt", req |-> m.id, ids |-> DOMAIN m.body,
                  salt |-> srvSalt])

ServerRefusesMessage(m) ==
    Refuse(m, [type |-> "bad_msg", req |-> m.id, ids |-> DOMAIN m.body])

ServerChangesSalt ==
    /\ srvSalt < MaxSalt
    /\ srvSalt' = srvSalt + 1
    /\ \E announced \in BOOLEAN :
         replies' = IF announced
                    THEN replies \cup {[type |-> "new_session", salt |-> srvSalt']}
                    ELSE replies
    /\ UNCHANGED <<callVars, tableVars, container, resends, salt, connected,
                   sent, handled, executed, rejected>>

-----------------------------------------------------------------------------
CallStep(c) ==
    \/ WriteCall(c) \/ CallDrained(c) \/ StopWaiting(c)
    \/ FinishCall(c) \/ AbortCall(c)

Handle(r) ==
    \/ HandleAnswer(r) \/ HandleBadSalt(r) \/ HandleBadMsg(r)
    \/ HandleNewSession(r)

ServerStep ==
    \/ \E m \in sent :
         \/ \E i \in DOMAIN m.body, type \in {"result", "error", "pong"} :
               ServerAnswers(m, i, type)
         \/ ServerRefusesSalt(m)
         \/ ServerRefusesMessage(m)
    \/ ServerChangesSalt

Next ==
    \/ \E c \in Singles : StartCall(c) \/ CallStep(c)
    \/ \E b \in Batches : StartBatch(b) \/ BatchDrained(b) \/ BatchDrainFails(b)
    \/ \E t \in resends : ResendWrites(t) \/ ResendDone(t) \/ ResendFails(t)
    \/ \E r \in replies : connected /\ Handle(r)
    \/ ConnectionLost
    \/ Reconnected
    \/ ServerStep

Spec == Init /\ [][Next]_vars

(* What the event loop guarantees: a task that can run does, the timer of   *)
(* wait_for fires, and a write does not block for ever.                     *)
LiveSpec == Spec /\ \A c \in Singles : WF_vars(CallStep(c))
-----------------------------------------------------------------------------
(* Properties                                                              *)

Entries ==
    [kind : {"call"}, call : Calls] \cup [kind : {"container"}, ids : SUBSET Ids]
Bodies == UNION {[ids -> Calls] : ids \in SUBSET Ids}
Messages == [id : Ids, body : Bodies, salt : Nat]
Tasks == [id : Ids, body : Bodies, written : BOOLEAN]
Replies ==
    [type : {"result", "error", "pong"}, req : Ids, value : Calls]
    \cup [type : {"bad_salt"}, req : Ids, ids : SUBSET Ids, salt : Nat]
    \cup [type : {"bad_msg"}, req : Ids, ids : SUBSET Ids]
    \cup [type : {"new_session"}, salt : Nat]

CallTypes ==
    /\ phase \in [Calls -> {"idle", "queued", "draining", "waiting",
                             "returned", "batched"}]
    /\ fut \in [Calls -> {"none", "open", "answered", "failed"}]
    /\ answerTo \in [Calls -> Calls \cup {NoCall}]
    /\ outcome \in [Calls -> {"none", "answered", "failed"}]
    /\ reqId \in [Calls -> 0 .. MaxId]

TableTypes ==
    /\ DOMAIN pending \subseteq Ids
    /\ \A i \in DOMAIN pending : pending[i] \in Entries
    /\ nextId \in 1 .. (MaxId + 1)
    /\ owner \in [Ids -> Calls \cup {NoCall}]
    /\ carries \in [Ids -> SUBSET Ids]

TaskTypes ==
    /\ container \in [Batches -> [pc : {"idle", "draining", "done"},
                                   id : 0 .. MaxId, ids : SUBSET Ids]]
    /\ resends \subseteq Tasks
    /\ sent \subseteq Messages

ServerTypes ==
    /\ salt \in Nat
    /\ connected \in BOOLEAN
    /\ srvSalt \in Nat
    /\ executed \subseteq Ids
    /\ rejected \subseteq Ids
    /\ replies \subseteq Replies
    /\ handled \subseteq replies

\* The values the state of the table can have.
TypeOK == CallTypes /\ TableTypes /\ TaskTypes /\ ServerTypes

\* The answer that completes a call is the server's answer to that call, also
\* after bad_server_salt has given the requests of a container new ids.
AnswerToOwnCall ==
    \A c \in Calls : fut[c] = "answered" => answerTo[c] = c

\* A request is run at most once: a retry replaces only what was rejected.
RunAtMostOnce ==
    \A i, j \in executed : owner[i] = owner[j] => i = j

\* An open call can still be answered: it has one entry, under one id.  A call
\* that has returned to its caller has none.
OneEntryPerOpenCall ==
    \A c \in Calls :
        /\ fut[c] = "open" => \E i \in DOMAIN pending : EntriesOf(c) = {i}
        /\ phase[c] = "returned" => EntriesOf(c) = {}

\* _rpc_call hands out an answer only if the future has one, and leaves the
\* future done.
OutcomeOfFuture ==
    \A c \in Singles : phase[c] = "returned" =>
        /\ fut[c] \in {"answered", "failed"}
        /\ outcome[c] = "answered" => fut[c] = "answered"

\* Once the rejection of a message has been handled, none of its requests is
\* left waiting for an answer under the rejected id: it was given a new id or
\* it failed.
LeftPending(r) == \E i \in r.ids : Open(i)

RejectedNotLeftPending == \A r \in handled : ~ LeftPending(r)

\* The same for bad_server_salt alone, whose handler says it is retrying.
SaltRejectedIsRetried ==
    \A r \in handled : r.type = "bad_salt" => ~ LeftPending(r)

\* `pending` is non-empty only while a request is outstanding: that is how
\* _can_reload_schema reads it.
PendingMeansOutstanding ==
    DOMAIN pending # {} => \E i \in DOMAIN pending : IsCall(i)

\* Every request made through _rpc_call returns to its caller, with an answer
\* or an exception, even if the server never answers.
CallsReturn ==
    \A c \in Singles : phase[c] = "queued" ~> phase[c] = "returned"

\* The table implements the promise of AtMostOnceRpc.
Promise == INSTANCE AtMostOnceRpc WITH
    state <- fut,
    run <- {owner[i] : i \in executed}

KeepsPromise == Promise!Spec

-----------------------------------------------------------------------------
(* The inductive invariant, see RpcTableProofs                             *)

\* Ids that have not been allocated are not in use.
FreshIds ==
    /\ \A i \in Ids : i >= nextId => owner[i] = NoCall /\ carries[i] = {}
    /\ \A k \in Ids : \A i \in carries[k] : owner[i] # NoCall
    /\ \A i \in DOMAIN pending : i < nextId

\* A message carries each request under an id allocated for it; the id of a
\* container belongs to no request.
Faithful(m) ==
    /\ DOMAIN m.body # {}
    /\ DOMAIN m.body = carries[m.id]
    /\ \A i \in DOMAIN m.body : m.body[i] = owner[i]

MessagesFaithful ==
    /\ \A i \in Ids : owner[i] # NoCall => carries[i] \subseteq {i}
    /\ \A m \in sent : Faithful(m)
    /\ \A t \in resends : Faithful(t)
    /\ \A c \in Singles : phase[c] = "queued" =>
         /\ reqId[c] \in Ids
         /\ owner[reqId[c]] = c
         /\ carries[reqId[c]] = {reqId[c]}
    /\ \A b \in Batches : container[b].pc = "draining" =>
         /\ container[b].id \in Ids
         /\ container[b].id < nextId
         /\ owner[container[b].id] = NoCall
         /\ container[b].ids = carries[container[b].id]

\* The table knows an id by what it was allocated for.
EntriesFaithful ==
    \A i \in DOMAIN pending :
        IF pending[i].kind = "call"
        THEN pending[i].call = owner[i]
        ELSE owner[i] = NoCall /\ pending[i].ids = carries[i]

\* The server answers what it has run, and runs nothing that it has refused.
ServerFaithful ==
    /\ executed \cap rejected = {}
    /\ \A i \in executed : owner[i] # NoCall
    /\ \A r \in replies :
         /\ r.type \in {"result", "error", "pong"} =>
              r.req \in executed /\ r.value = owner[r.req]
         /\ r.type \in {"bad_salt", "bad_msg"} =>
              r.ids # {} /\ r.ids = carries[r.req] /\ r.ids \subseteq rejected

\* Of the ids of one call only the newest can be pending or run: the server
\* has refused the others.
OnlyNewestCounts ==
    \A i, j \in Ids :
        owner[i] # NoCall /\ owner[i] = owner[j] /\ i < j =>
            i \in rejected /\ ~ IsCall(i)

\* An open future can be reached through the table.
OpenIsPending ==
    \A c \in Calls :
        fut[c] = "open" => \E i \in DOMAIN pending : pending[i] = CallEntry(c)

\* The future of a call agrees with its coroutine and with its answer.
FuturesAgree ==
    \A c \in Calls :
        /\ fut[c] = "none" <=> phase[c] = "idle"
        /\ fut[c] = "answered" => answerTo[c] = c
        /\ phase[c] = "returned" =>
             /\ fut[c] \in {"answered", "failed"}
             /\ outcome[c] = "answered" => fut[c] = "answered"

\* Ids belong to calls that have been made, entries to calls not returned.
IdsOfCalls ==
    /\ \A i \in Ids : owner[i] # NoCall => fut[owner[i]] # "none"
    /\ \A i \in DOMAIN pending :
         pending[i].kind = "call" => phase[pending[i].call] # "returned"

\* The calls of a container are made by send_container only.
BatchesAgree ==
    /\ \A b \in Batches : container[b].pc = "idle" =>
         \A c \in Range(b) : phase[c] = "idle"
    /\ \A c \in Batched : phase[c] \in {"idle", "batched"}

IInv ==
    /\ TypeOK
    /\ FreshIds
    /\ MessagesFaithful
    /\ EntriesFaithful
    /\ ServerFaithful
    /\ OnlyNewestCounts
    /\ OpenIsPending
    /\ FuturesAgree
    /\ IdsOfCalls
    /\ BatchesAgree

=============================================================================
