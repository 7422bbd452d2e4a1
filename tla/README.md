# GoyGram in TLA+

GoyGram is an asyncio client for Telegram: one program that speaks MTProto over
a persistent TCP connection and the Bot API over HTTPS, and hands the updates of
both to one set of handlers. This directory specifies the parts of it whose
correctness depends on the order of events, checks them with TLC on small
instances, and proves the central ones with TLAPS for every instance.

All paths below are relative to the repository; `mtproto.py`, `botapi.py` and
`charged.py` are in `goygram/transports`, `disp.py` and `fsm.py` in `goygram/core`,
`client.py`, `security.py`, `session.py` and `schema_manager.py` in `goygram`.

## 1. Inventory

Everything runs in one event loop; a task is interrupted only at an `await`
that suspends it. The exceptions are the schema updater (a thread) and the
files that outlive the process (cursor, offset, vault, schema cache).

| Component | State | Operations | Interacts with |
|---|---|---|---|
| Request table (`MTNet`) | `pending`, message ids, salt, futures | `_rpc_call`, `send`, `send_container`, `_resend`, `_resend_container`, replies in `_handle_encrypted_packet` | connection (writes, losses), every caller, the server |
| Connection (`MTNet`) | `rd`/`wr`, `auth_ready`, `stop_ev`, `reader_task`, `_keepalive_task`, `_auth_lock` | `spin`, `_keepalive_loop`, `_connect`, `ensure_auth_key`, `_pause_reader`, `ensure_reader`, `boot`, `close` | request table (fails it), `run` (waits for the reader), recovery |
| Update cursor | `cursor` (persisted), `_difference_lock` | `update_cursor`, `_dispatch_updates`, `_recover_difference`, `_recover_channel_difference`, `_post_reconnect_recovery` | bus, request table, cursor file |
| Entity cache | entities, usernames, access times | ingestion, `_resolve_*`, eviction, flush | vault |
| Data centres | `_dc_senders`, `_dc_locks`, `dc_auth_keys`, home DC | `call_dc`, `_open_dc`, `_switch_home_dc`, retry loop of `call` | one more `MTNet` per DC, connection |
| Lanes (`charged.py`) | senders, parts in flight | `charged_upload`, `charged_download` | data centres |
| Bot API (`botapi.py`) | `off` (persisted), `webhook_seen` | long polling, webhook, `req` with its retries | bus, offset file |
| Bus and dispatcher | queue, `_seen` | `push`, `fetch`, `one`, `_is_duplicate` | both transports, handlers |
| FSM | states with expiry | `set`, `get`, `clear`, `snapshot`, `restore`, clean-up | its backend |
| Client | hooks, `_conv`, timers, tasks | `conv_wait`, `ask`, once-handlers, `run`, `close` | everything |
| Iterators | offset, buffer, limit | `_HistoryIter`, `_SearchIter`, `_DialogIter`, `iter_participants` | the server's lists, which change meanwhile |
| Vault and bootstrap | encrypted session file, `session.data` | bootstrap, `Session.save`, entity flush, QR and phone login | connection, entity cache |
| Schema manager | five cache files, the active layer | fetch, reload from a thread | request table (`pending` must be empty) |

Hard behaviours, and what makes each component correct:

* **Request table.** Timers, answers, rejections, retries and lost connections
  reach the same entry in any order. Correct means: a request runs at most once,
  an answer completes its own request only, an open request can still be
  answered, a rejected one is retried or failed, the caller always returns.
* **Connection.** Reader, keepalive and any request may try to repair the
  connection; they cancel and await each other under a lock. Correct means: one
  task connects at a time, one reader reads, nobody waits for ever, a lost
  connection is repaired, after `close` nothing is left.
* **Update cursor.** The persisted position must not run ahead of what handlers
  will see, across gaps, slices and crashes.
* **Bot API.** The server may forget only what was pushed, the offset file may
  not lag behind what it has confirmed; per process an update is pushed once.
* **Dispatcher, conversations, FSM.** A duplicate is dropped for as long as the
  window says; a waiter can be reached while it waits; expiry is the same for
  memory and backend.
* **Data centres, lanes.** A refused key is replaced once and not at the expense
  of another call; file parts end up in order and complete.
* **Iterators.** What stays in its place is given once, whatever else changes.
* **Vault, schema cache.** Files agree with each other after a crash; what one
  writer undoes of another's change is written again.

The hazards are listed line by line in `PROJECT.json`.

## 2. Plan

| Order | Module | Composes / refines | State |
|---|---|---|---|
| 1 | `RpcTable` | implements `AtMostOnceRpc` | checked, proved |
| 2 | `Connection` | the connection that `RpcTable` takes as given | checked; safety proved, in part without cancellation and close |
| 3 | `Updates` | the cursor over an ordered connection that is lost; its caller's side of `RpcTable` | checked; safety proved |
| 4 | `BotIntake` | the other transport, with its own persisted position; both choose in `AppCore.run` | checked; safety proved |
| 5 | `Dispatch` | consumes what 3 and 4 push, dispatcher and conversations composed | checked; safety proved |
| 6 | `SchemaCache`, `Fsm`, `Vault` | files and processes that end | checked in `MCParts`, proved |
| 7 | `DataCentres`, `Login` | keys and who has authorised them | checked in `MCParts`, proved |
| 8 | `Download`, `Upload`, `Iterate` | pieces that make a whole | checked in `MCParts`, proved |

`MCParts` composes the eight modules of 6 to 8: the first state chooses one of
them. They share no state, so a product of them would show nothing that each
alone does not.

Every safety property of the runs that pass is now stated by a theorem. What
would come next: `Connection` as an implementation of the connection that
`RpcTable` assumes; `Dispatch` as an implementation of a filter that remembers
everything; what `OneReads` and `PingsKnown` become when requests may be
cancelled; and the parts of section 6.

## 3. Modules

### RpcTable

One `_rpc_call` per element of `Singles`, one `send_container` per element of
`Batches` (a sequence of calls). Each action is the code between two awaits.

| Model | Code (mtproto.py) |
|---|---|
| `StartCall`, `WriteCall`, `CallDrained`, `StopWaiting`, `FinishCall`, `AbortCall` | `_rpc_call` 2325-2346 and `send` 2246-2279; `Cleanup` is the finally block |
| `StartBatch`, `BatchDrained`, `BatchDrainFails` | `send_container` 2130-2186 |
| `ResendWrites`, `ResendDone`, `ResendFails` | `_resend`, `_resend_container` 2188-2244 |
| `HandleAnswer` | `rpc_result`, `pong` 1383-1422 |
| `HandleBadSalt` (`ResaltNothing`, `ResaltCall`, `ResaltContainer`) | `bad_server_salt` 1497-1541 |
| `HandleBadMsg`, `HandleNewSession` | 1542-1566 |
| `ConnectionLost`, `Reconnected` | `spin` 2581-2607 |
| `ServerAnswers`, `ServerRefuses...`, `ServerChangesSalt` | external: the server |

`pending` is the code's dictionary, with its two kinds of entry. `owner`,
`carries` and `handled` are history variables that no guard of the client reads.
The server may answer or refuse a message once, at any time, or never; its
replies stay in `replies` and may be handled again and in any order, because the
client's filter of seen message ids (1382) forgets half of its content when it is
full, and otherwise only removes behaviours. A request the server has refused is
not run under that id: that is the meaning of the two notifications in MTProto.
Bodies are abstracted to the call they belong to; sequence numbers,
acknowledgements and encryption are left out.

`AtMostOnceRpc` is the promise: a call is open, then answered or failed, for
ever; it is answered only if the server has run it; it is run at most once.

### Connection

The reader (`spin`), its keepalive, the requests of `Callers` and one `close`,
as tasks with a program counter. `ensure_auth_key` is shared: `EnterLock`,
`LockGranted`, `PauseReader` (three cases), `PingEnded`, `ReaderEnded`,
`BootDone`, `BootFails`, and `Unwind` when the task is cancelled. A reader and
the keepalive it starts have the same number (a slot); slots are used again
when both have ended. `sock = "none"` is `rd` and `wr` being None; `"reset"` and
`"timeout"` are connections whose peer is gone and whose next read raises
ConnectionError, or another OSError.

Timers (backoff, 30 s, 0.1 s) may fire at any time, with one exception: a task
that has been given the lock runs before the reader notices a loss, because the
loss can only come from a later turn of the event loop.

A keepalive that cancels and awaits itself is the state `"stuck"`: CPython's
`asyncio.gather` and `Task.cancel` recurse until RecursionError, which lands in
the loop's exception handler; the task neither ends nor can be cancelled.

Left out: the key exchange (the client has its key), the choice of the endpoint,
`_switch_home_dc`, and the recovery task, which is a caller like any other.

### Updates

The position of the client in the server's updates and the tasks that recover a
gap. An update is its number; `srv` is how many the server has made.

| Model | Code (mtproto.py) |
|---|---|
| `UpdateCursor`, `Save`, `Push` | `update_cursor` in memory 423-431 and in its file 441-448, the pushes of `_dispatch_updates` |
| `Take`, `TakeFails` | `_dispatch_updates` 1045-1085: position, file and messages, or an exception of the file after the position and before the messages |
| `HandleReply`, `HandleCall`, `HandleLive`, `HandleTooLong` | what the reader does with `rpc_result` 1383-1411 and with updates 1423-1428, 834-847, 1069-1071 |
| `StartPostReconnect`, `EndFirstState`, `WakeUp` | `_post_reconnect_recovery` 1087-1098 |
| `StartRecovery`, `UseDifference`, `UseState` | `_recover_difference` 1100-1130 |
| `RequestFails` | the 30 seconds of `_rpc_call`, and every other failure of a call |
| `ConnectionLost`, `ReaderReconnects`, `RequestReconnects`, `Crash` | `spin` 2581-2607, a reconnect by a request, a new process with the cursor file |
| `Server...`, `Answer...` | external: the server |

`ready` is the event loop's queue: an answer makes its task ready, a new task is
put behind it, and the reader may handle more messages before either has its
turn. The connection keeps the order of messages. `cursor` is the position in
memory, `saved` that in the file, which `update_cursor` replaces in the same turn
but after memory, and which may fail: the exception then ends
`_dispatch_updates` before any message is pushed, and is what the caller of the
request gets (1402-1411). Every call wraps its
result in `{"ok", "result"}` (1742): `_dispatch_updates` looks inside, the tests of
`_recover_difference` on `_` and `intermediate_state` do not, so that they never
hold and a slice ends the recovery. The model does the same. `passed`,
`dropped` (what only memory has been moved past) and `noticed` are history
variables.

Left out: `qts`, `date` and `seq`, which `update_cursor` treats alike, and the
positions of channels, which nothing uses: `resolve_peer` returns bytes, so that
`_recover_channel_difference` always returns at 1150.

### BotIntake

How Bot API updates reach the bus, over restarts. An update is its number, the
server keeps those it has not forgotten (`open`).

| Model | Code (botapi.py) |
|---|---|
| `StartPolling`, `StartWebhook` | `run` of client.py 2294-2299, `run_webhook` 162-184 |
| `GetUpdates`, `Conflict`, `RateLimited`, `RequestFails` | the request of `spin` 477-489 through `req` 199-231: an answer, 409 with a foreign webhook, 429, everything else |
| `PushNext`, `SaveOffset` | 489-498 and 79-85: an update is pushed, which may block on the bus, and then the offset is written |
| `ReportError` | 501-509: the loop reports and asks again |
| `Lock`, `PushPosted`, `Trimmed` | `_webhook_request` 127-160 with its lock, the set of seen ids and its trimming |
| `Stop` | close or crash, at any await |
| `NewUpdate`, `Deliver`, `RegisterElsewhere`, `Reply` | external: the server |

`here` and `ever` are history. The answer to `getUpdates` and to a webhook
request may be lost; the server then repeats it. `drop_pending_updates` of the
webhook is left out: with it an operator asks the server to forget what it holds.

### Dispatch

The consumer of the bus with its filter of duplicates and two lists of handlers,
and the conversations of `AppCore`, because the consumer awaits handlers and
handlers may wait for the consumer.

| Model | Code |
|---|---|
| `Push`, `PushAtOnce`, `FetchErr`, `Fetch` | bus.py 12-16, disp.py 54-66 and 96-98; `Swept` is the sweep 58-62 |
| `RunHook`, `StopPropagation`, `HookAsks`, `Finish`, `Idle` | `one` and its wrapper, disp.py 105-123; a handler that asks, also one of errors (71-90), is types/obj.py 277-285 |
| `Converse` with `Open`, `Answer`, `NoAnswer` | `_conv_dispatch`, client.py 865-883; filters may accept or refuse |
| `Ask`, `Register`, `Wait`, `Timeout`, `Resume`, `PopOwn` | `ask` and `conv_wait`, client.py 843-863 |
| `Tick` | external: the clock |

A task ends its wait in a step of its own after its future is done (`Resume`): in
between another conversation may have taken its place in `_conv`.

### Parts checked together

| Module | Code | Behaviour |
|---|---|---|
| `SchemaCache` | schema_manager.py 28-192 | the start of a process and the background thread download two texts with their etags and replace five files one after the other; each of these may fail, the process may end between any two, upstream may publish between any two |
| `DataCentres` | mtproto.py 2325-2470, charged.py 131-153 | `call_dc` and `_open_dc` of several tasks for one data centre: the lock, the registered sender, a refused key and its one retry, lost connections, a home switch, and a download that authorises a key without the lock |
| `Download` | mtproto.py 2070-2117, charged.py 82-97 and 248-326 | one part after the other, or lanes that each fetch every n-th part; an expired file reference; the temporary file that replaces the target |
| `Upload` | charged.py 51-64 and 189-226 | parts over lanes with one in flight each; the file is longer or shorter than its size said |
| `Fsm` | fsm.py 20-150 | states with expiry, the backend that is given the whole table at every change and may refuse, restarts |
| `Iterate` | client.py 194-383 and 1728-1748 | batches by the last item seen (history, search, dialogs) or by a count (members), against a list in which items come, move and go |
| `Vault` | security.py 921-1103, session.py 117-124, client.py 553-643 and 2247-2258, mtproto.py 1187-1258 | three writers of one file: the bootstrap, which writes back what it read before it asked, `Session.save`, and the merge of the entity flush; failed writes, refused keys, crashes |
| `Login` | security.py 455-918 | QR code and phone code side by side, the move to the account's data centre, password, saving, which may fail and then ends the bootstrap; answers that are lost although the server has acted |

Abstractions. A schema text is its version, a downloaded unit its number, an
FSM state the times its data was given, an access hash whether it is known.
Data centres share nothing, so `DataCentres` has one besides home. `Vault` takes the
bot token as that of the account in the vault. In `Login` a key is the data
centre it was made for, and what the user mistypes changes nothing.

## 4. Runs

| Run | Instance | Question and answer |
|---|---|---|
| `rpc_singles` | 2 calls, 4 ids, 1 salt change, fair | types, `OneEntryPerOpenCall`, `RunAtMostOnce`, `OutcomeOfFuture`, `RejectedNotLeftPending` hold, and every caller returns (`CallsReturn`) |
| `rpc_container` | 1 call, a container of 2, 7 ids | the inductive invariant `IInv`, `AnswerToOwnCall`, and the refinement `KeepsPromise` hold |
| `rpc_container_salt` | as `rpc_container` | **violated** `SaltRejectedIsRetried` |
| `rpc_stale_container` | as `rpc_container` | **violated** `PendingMeansOutstanding` |
| `conn_calls` | 2 requests, 2 losses of either kind, 2 failed attempts, fair | `OneReads`, `PingsKnown`, `SomebodyReads`, `RequestsReturn`, `ResetsRepaired` hold |
| `conn_close` | 2 requests, one of them cancelled anywhere, 1 loss, 1 failure, `close` at any time, fair | `OneConnects`, `WaitsEnd`, `ClosedIsQuiet`, `CloseReturns` hold |
| `conn_outage` | 1 reset, 1 failure, no requests, fair | **violated** `Reconnects` |
| `conn_timeout` | 1 request, 1 loss by timeout, fair | **violated** `LossesRepaired` |
| `updates` | 2 updates, slices of 1, 2 tasks, a channel that may be ahead of them, failing writes of the cursor file, a loss or a crash, fair | `SkippedForCause`, `NoticesServed` hold, and recoveries end (`RecoveryEnds`) |
| `bot_intake` | 4 updates, batches of 2, a bus of 1, 2 webhook requests, a window of 1, 2 faults, fair | `ForgottenWasPushed`, `PushedOnce`, `SavedIsNotRepeated` hold and every update arrives (`Arrives`) |
| `dispatch` | 2 messages of one user, 3 packets, 2 conversations, 1 handler per list, a bus of 2, window 1, clock to 3, fair | `WaitersAreRegistered`, `HandlersWaitInVain`, `NotTwiceInWindow`, `DroppedIsRecent` hold and everything comes to rest (`Settles`) |
| `parts` | one of the eight parts, fair | `EtagsNotAhead`, `FailuresHaveCause`, `PiecesMakeWhole`, `SurvivesRestart` hold; the cache catches up and every `call_dc` ends (`Completes`) |

Bounds.

* Two calls are the fewest that can be confused; a container of two is the
  smallest whose requests can be answered, rejected and re-identified
  separately; seven ids let that container be rejected once and its resend
  rejected again (3 + 3 + 1). One salt change makes every message sent before it
  rejectable, two make a resend rejectable.
* In `Connection` one loss and one failure already reach `PauseReader`; two of
  each reach a pause during a restart. `MaxReaders` only limits how many reader
  tasks exist at once (`Room`) and is never reached: the runs have as many
  states without that guard.
* In `Updates` two updates make a slice of one and leave one behind it, two
  messages under way are an answer and the notice of a gap in either order, two
  tasks are one that holds the lock and one that finds it held, and a
  position of a channel of 2 is ahead of a server that has made fewer updates
  and need not make more. Writing the file may fail any number of times.
  `MaxTries` is 2 instead of 16: the loop repeats and ends. The slots of `Tasks`
  and `MaxWire` only make messages wait. The proofs hold for all of them.
* In `BotIntake` four updates are two batches and let an id leave a window of
  one while a later one is in it; two webhook requests are one that pushes and
  one that holds the same or another update; a bus of one blocks whoever pushes
  second. Two faults are a lost answer and a restart, or two restarts.
* In `Dispatch` three packets are two messages and a duplicate in any order, or
  the same message three times; the clock reaches three windows, so that entries
  are kept, are kept although they are old, and are swept; two conversations are
  one that replaces the other, and with `Anybody` as a partner one that catches
  the other's message. One user suffices since a message of another is one that
  the filter refuses.
* In `MCParts` three versions of a text of which the second has no new layer and
  two faults (a failed write and a crash of the next process); two calls, two
  keys and three senders, so that a key and its replacement are refused; one
  upset, a lost connection or a home switch; parts of two units and files of up
  to nine, so that there are fewer parts than connections, a last part that is
  short, and one that is empty; three connections and six parts, two rounds of
  lanes; two chats, a clock to 3 and times to live 0, 1, 2, so that an entry is
  looked at before, at and after its expiry; three items in batches of one and
  two with two changes; two entities, two keys and three troubles, so that a
  session is bootstrapped, fails and starts again; two QR codes, two phone
  numbers and two errors.
* Every bound is a constant named `Max...` in its module, with the guard that
  uses it.

Fairness. `LiveSpec` of `RpcTable` assumes that the coroutine of a call runs when
it can: the event loop runs ready tasks, `wait_for`'s timer fires and a write
ends. It assumes nothing of the server or of the connection. It is about a
coroutine whose `send` gets past `ensure_auth_key` or fails there, which is what
`Connection` examines. `Fairness` of `Connection` says the same of every task:
ready tasks run, timers fire, an attempt to connect ends. Nothing obliges anyone
to make a request or the network to fail; failures are bounded, so that after
the last one connecting succeeds.

`LiveSpec` of `Updates` assumes that ready tasks run, sleeps end, and a request
ends after its 30 seconds at the latest. Here and in `MCParts` that is about
requests whose `send` returns: it is awaited before the timer starts (2337-2338),
and what keeps it in `ensure_auth_key` for ever is in `conn_outage`.

`BotIntake` assumes that the process is started, that its coroutines run, that
the consumer of the bus takes what is there, and that the server repeats a
webhook delivery until it is answered, which is what a webhook promises; faults
are bounded. `Dispatch` assumes that the consumer runs, that a task which wants
to wait gets to do so, and that timeouts fire: it says nothing of transports or
users. In `MCParts` the process with the schema cache runs (its sleep of six
hours ends), and so does the task of each `call_dc`, whose own timers end a
request. Nothing is assumed fair in the other parts, of which only safety is
checked.

Deadlock is checked in the runs of `RpcTable`. The system of `Connection` may
stop: it is closed, or the keepalive waits for itself. That of `Updates` may
stop when the server has nothing more to say, `Dispatch` when nobody writes or
waits, and the others when what they do is done or every bound is used up.

### What the violated properties show

* `rpc_container_salt`: `send_container` enters the container in `pending` only
  after its drain (2184-2185). A `bad_server_salt` handled during the drain finds
  nothing, although its handler logs that it retries (1505).
* `rpc_stale_container`: a container entry is collected only by a later
  successful result (1404-1407), or re-entered after the table was cleared;
  `_can_reload_schema` then refuses to reload although nothing is pending.
* `conn_outage`: a keepalive that fires between two failed attempts to connect
  pauses itself and keeps `_auth_lock` for ever (643-644). From then on nothing
  reconnects, and `close` fails at 2286.
* `conn_timeout`: only ConnectionError counts as a lost connection (2581); one
  that ends in TimeoutError or another OSError is read again every 0.1 s for ever.

`OneReads`, `PingsKnown` and `SomebodyReads` are checked without cancellation of
callers, and `ClosedIsQuiet` speaks of behaviours without requests. Otherwise
they fail: a caller cancelled while it awaits the keepalive or the reader in
`_pause_reader` leaves `reader_task` None, and a request that runs while `close`
awaits the reader opens the connection again. Two more consequences of the code
are visible in the model after a failed attempt of the reader to connect, when a
request pauses it: if the request fails to connect too, the reader that its
finally block starts waits for `auth_ready` (2568), and nobody retries until the
next request; and the task it ends is the one `run` waits for (client.py 2301),
so that the whole client shuts down. No text of the repository promises
otherwise.

### What the cursor does not promise

`SkippedForCause` is a list of causes: it says for which reasons alone an update
may be missed, not that none is, and the model reaches each of them.

* *A cursor file that cannot be written.* `update_cursor` has the new position in
  memory (429) before it writes the file (441-448), and an exception there leaves
  `_dispatch_updates` before the messages of the difference are pushed (1049-1068).
  The recovery ends with that error, the position stays, and the next
  difference begins after the lost messages. The file itself is still behind them,
  so that a restart asks for them again; but the next write that succeeds, on
  any later position or date, moves the file past them for good (`dropped`
  becomes `passed` in `Save`).
* *A crash* between the bus and the dispatcher.
* *A position without messages*: a `getState` or a difference that is too long;
  and any other call whose result has a `pts` at its top, which moves the cursor
  past what an outage has hidden, if it arrives before the recovery has asked.

A result about a channel (`updates.channelDifference`,
`messages.channelMessages`, `messages.affectedMessages` of a channel) puts the
channel's position into the common cursor. When that is ahead of the server,
every difference is refused, `getState` cannot lower the cursor, and each
recovery gives up after 16 attempts. `NoticesServed` is silent after a recovery
that failed or got a slice: nobody repeats it before the next notice, and as a
slice does not move the cursor the next one gets the same slice. A process that
starts with a cursor file, and a request that reconnects, do not recover
anything. No text of the repository promises otherwise.

### What the parts do not promise

These follow from the code, and most are visible in the models; no text of the
repository promises otherwise, so they are not findings.

* *A handler that asks waits in vain* (`HandlersWaitInVain`): the one consumer
  awaits the handler, so that the answer stays on the bus until the timeout.
  `NotTwiceInWindow` and `DroppedIsRecent` give the exact window of the filter
  of duplicates: an entry may outlive its window by another, until the next
  sweep.
* *`PushedOnce`* has one exception, a webhook delivery that comes so late that
  its id has left the window of 2048.
* *`call_dc`* retries once. After a home switch or a lost connection the sender
  that was refused is not the registered one, so that it is not discarded and
  the retry may meet the same refused key (mtproto.py 2445). `FailuresHaveCause`
  therefore asks for a key that was refused or an upset. A key that `_open_dc`
  stores reaches the vault only with the next flush of entities.
* *`charged_download`* cuts a file that is longer than the length it was told,
  when that length is a multiple of the part; `WholeFile` says so by its
  condition on `size`.
* *The FSM* does not restore when it is started a second time; `SurvivesRestart`
  is silent until the next save.
* *Iterators.* `NothingSkipped` speaks of items that keep their place. Of
  dialogs, one that moves to the top in between is not seen again; members are
  counted, so that one may be skipped or repeated for every other that leaves or
  joins, and the iteration ends early when the server caps a batch below what
  was asked.
* *The vault.* A bootstrap with a bot token, and `Session.save`, write back what
  was read before, which takes away entities flushed since, until the next flush
  (client.py 616, security.py 1096). Entities learnt after the flush of `close`
  are lost. A bot whose login fails twice, and a user after `max_phone_retries`,
  is started all the same with a key that is not authorised.
* *Login.* A vault that cannot be written (security.py 630, 721, 907: no caller
  catches it) leaves a key the server has authorised unsaved; `GrantIsSaved` asks
  that such a login does not end as saved, and that one which does has left no other
  grant. A QR acceptance whose news comes with the next export is not looked
  at (security.py 739), and the login goes on by phone; an expired phone code
  leaves the prompt for it with no way to a new one.

## 5. Proofs

`RpcTableProofs` proves, for every finite or infinite set of calls, every set of
batches and all bounds, from `CallsAssumption` and `BoundsAssumption` only:

| Theorem | Statement |
|---|---|
| `TypeCorrect` | `Spec => []TypeOK` |
| `Invariance` | `Spec => []IInv` |
| `AtMostOnce` | `Spec => []RunAtMostOnce` |
| `AnswersAreOwn` | `Spec => []AnswerToOwnCall` |
| `OneEntry` | `Spec => []OneEntryPerOpenCall` |
| `OutcomesAgree` | `Spec => []OutcomeOfFuture` |
| `RejectedAreSettled` | `Batches = {}` implies `Spec => []RejectedNotLeftPending` |
| `Refinement` | `Spec => KeepsPromise` |

The argument. None of the properties is inductive. At most once rests on
`OnlyNewestCounts`: of the ids ever given to one call, all but the newest have
been refused by the server and are not pending. For this to be kept by
`bad_server_salt`, the ids named by a rejection must be the ids the message
carried (`ServerFaithful`, `MessagesFaithful`, `EntriesFaithful`: table, tasks,
messages and replies all agree with `owner` and `carries`), and a new id must be
new everywhere (`FreshIds`). An answer belongs to its call by the same agreement.
`OpenIsPending` and `FuturesAgree` relate futures, coroutines and the table, and
`IdsOfCalls` and `BatchesAgree` say which calls can have ids and entries at all.
There is one lemma per part of the invariant for each action that can disturb
it; the refinement maps a future to the state of its call and the executed ids
to the calls that own them, and shows each action to be a step or a stutter of
`AtMostOnceRpc`. That a rejected request is settled is an invariant of what has
been handled: an entry is only ever made under a new id, and a rejection that
names its id takes it away (`LoneSettled`, for clients with and without
containers). `RejectedNotLeftPending` also speaks of the other ids that a message
carried, and is proved, as it is checked, for a client that sends no containers:
the entries of a container are made after its drain, so that its rejection may
come before them (`rpc_container_salt`), and the property would be false.

`UpdatesProofs` proves, for every finite set of tasks and all bounds, from
`BoundsAssumption` of `Updates` only:

| Theorem | Statement |
|---|---|
| `PositionsAgree` | `Spec => []IInv` |
| `UpdatesTypeCorrect` | `Spec => []TypeOK` |
| `SkipsHaveCause` | `Spec => []SkippedForCause` |
| `GapsAreFollowedUp` | `Spec => []NoticesServed` |

The argument. That the cursor skips nothing needs to be known of the answers
still under way: an answer holds every message after the position it was asked
from (`RepliesFollow`), and the client had that position (`RequestsBehind`), so that
nothing is missing below it however far the cursor has moved since. A coroutine
is given only what the reader has taken over (`GotTaken`), and asks only when
there is a position (`AskersKnow`). The file is never ahead of memory (`FileBehind`).
When it cannot be written, memory has a position whose messages are nowhere; that
is what `dropped` holds, until a write moves the file past them too or a restart
returns to the file.

That no gap is forgotten has an invariant of its own, `GapInv`, on top of the
first. A recovery that finds the lock held returns and counts on the holder, and
three orders make it right to: the answer of the server covers every notice that
it sent before (`RepliesCover`); when a notice comes between the arrival of an
answer and the turn of the coroutine that awaits it, the task it creates has its
turn later (`ResultsCover`, which needs that the queue of the event loop has
every runnable task once, `Queue`); and a lock that is held is held by a task at
work (`HolderWorks`), also when a reconnect or a timeout has ended what it
waited for.

`ConnectionProofs` proves, for every set of requests and any number of readers,
losses, failures and cancellations, from `ConnectionAssumption` only:

| Theorem | Statement |
|---|---|
| `LockIsOrderly` | `Spec => []IInv` |
| `ConnectionTypeCorrect` | `Spec => []TypeOK` |
| `OneTaskConnects` | `Spec => []OneConnects` |
| `WaitsAreForTheEnding` | `Spec => []WaitsEnd` |
| `NothingIsLeft` | `Spec => []ClosedIsQuiet` |
| `ReadersNeverMeet`, `NoPingIsForgotten`, `AnswersFindAReader` | `Cancellable = {}` and `~MayClose` imply `Spec => []OneReads`, `[]PingsKnown`, `[]SomebodyReads` |

That the task past the lock is the first of the queue is kept only if no task is
in the queue twice and none is in it that is elsewhere (`Queueing`, `OnceEach`),
which a reader that is started in a used slot, or a keepalive that is started by
a reader, could break: the slot is free, and a reader that has not run has no
keepalive (`StartsAlone`). Every action changes the place of one task and the
queue in one of four ways (`Outside`, `Joins`, `Advances`, `Leaves`), and may
then start a reader.

`WaitsEnd` is inductive together with `SlotsUnmixed`: a slot in which a reader is
about to run is not one whose keepalive somebody awaits. This is where the model
had to be corrected: a slot counted as free although the client still knew the
keepalive that had ended in it. `ClosedIsQuiet` follows the phases of a client
with one reader and one keepalive (`Phase`): still open, `close` ending the
keepalive, ending the reader, closed.

Who reads is a question of who knows of a reader. The invariant `Tended` says
that the reader the client knows runs (`ReadersKnown`); that one it has
forgotten runs only while the one task past the lock still waits for the
keepalive before it cancels that reader; that a reader begins when the keepalive
of the one before it has ended (`PingsEnded`); and that who is past the lock has
held requests up and is not cancelled (`HoldersPause`), unless it is the
keepalive that waits for itself. The last point is where the hypotheses come from:
a cancelled caller, or a `close` that is overtaken by a request, leaves readers
nobody knows (see "What the violated properties show"), and the three properties
would be false. The run `conn_calls` has the same values.

`BotIntakeProofs` proves, for any number of updates, requests, failures and
restarts, any batch, bus and window, from `IntakeAssumption`:

| Theorem | Statement |
|---|---|
| `IntakeInvariant`, `IntakeTypeCorrect` | `Spec => []IntakeInv`, `Spec => []TypeOK` |
| `NothingForgotten` | `Spec => []ForgottenWasPushed` |
| `NothingTwice` | `Spec => PushedOnce` |
| `NothingSavedRepeated` | `Spec => SavedIsNotRepeated` |

The server forgets what lies before the offset it is asked with, so both offsets
must follow what was pushed (`Offsets`); an offset moves past an update only when
it is pushed, so a batch may have no gap before it (`Batches`). For the webhook,
what was pushed is remembered or below the window, and no two requests push at a
time (`Hooked`).

`DispatchProofs` proves, for any messages, users, conversations, handlers, bus and
window, from `DispatchAssumption`:

| Theorem | Statement |
|---|---|
| `DispatchInvariant`, `DispatchTypeCorrect` | `Spec => []DispatchInv`, `Spec => []TypeOK` |
| `ConversationsReachable` | `Spec => []WaitersAreRegistered` |
| `WaitingIsVain` | `Spec => []HandlersWaitInVain` |
| `NotGivenTwice`, `NotDroppedForLong` | `Spec => NotTwiceInWindow`, `Spec => DroppedIsRecent` |

The two promises of the filter rest on `Filter`: an entry is that of the last
handling and no older than a window before the last sweep, and what was handled and
has no entry is older than a window.

The modules of `MCParts` name what they need of their constants
(`SchemaAssumption`, ...), `MCParts` assumes it of its values
(`PartsAssumption`), and the theorems have it as their hypothesis. `StoreProofs`
is about files, `TransferProofs` about pieces, `PartsProofs` about calls of other
data centres and about the composition.

| Theorem | Statement |
|---|---|
| `CacheIsConsistent`, `EtagsNeverAhead`, `LayerAlwaysOfText` (`StoreProofs`) | `CacheInv`, `EtagsNotAhead` and `LayerIsOfText` of `SchemaCache` are invariant |
| `RestartFindsTheLiving` (`StoreProofs`) | so are `TypeOK` and `SurvivesRestart` of `Fsm` |
| `VaultIsSound` (`StoreProofs`) | `TypeOK` and `SessionSurvives` of `Vault` |
| `LoginIsSaved` (`StoreProofs`) | `LoginInv`, which has `GrantIsSaved` of `Login` |
| `PartsStayInPlace` (`TransferProofs`) | `TypeOK` and `PartsInPlace` of `Upload` |
| `DownloadsAreWhole` (`TransferProofs`) | `TypeOK` and `WholeFile` of `Download` |
| `ListsAreWhole` (`TransferProofs`) | `TypeOK` and `NothingSkipped` of `Iterate` |
| `FailuresAreCaused` (`PartsProofs`) | `CallInv`, which has `FailuresHaveCause` of `DataCentres` |
| `PartsBehave` (`PartsProofs`) | `Spec` of the composition implies that of each part |
| `EtagsStayBehind`, `CallsFailForCause`, `RestartsSurvive`, `PiecesAreWhole`, `PartsTypeCorrect` (`PartsProofs`) | `Spec => []EtagsNotAhead`, `[]FailuresHaveCause`, `[]SurvivesRestart`, `[]PiecesMakeWhole`, `[]TypeOK`, by `PartsBehave` from the theorems about the parts |

The arguments.

* *Schema cache.* A text is in its file before its etag, and no older than the
  file it replaces. *FSM.* What lives of a saved table later is what lives of it
  now and later. *Vault.* Memory has every access hash that the vault and the
  bootstrap have (`MemoryHasAll`), so that a merge never loses one, and what a
  writer took away is due (`LacksAreDue`) or known to be missing. *Login.* A request
  whose success authorises a key is made at the data centre of the account
  (`AsksAtHome`), nothing is saved before the end (`SavedAtTheEnd`), and what is
  authorised is the key of that data centre (`GrantAtHome`), so that a login which
  saves leaves no other grant.
* *Calls.* A first request goes to the registered sender, which the task itself
  would take out of use, or to one opened with a key that was good when the call
  began; the second always to the latter (`Tracks`). Whoever opens a sender
  holds the lock (`OpenersLock`), or two tasks would each replace what the other has
  opened.
* *Upload.* A lane has only parts with its own remainder (`OwnParts`) and comes to
  them in turn (`NextInLane`), so that what was read is stored or is the part
  some lane has not got through (`Accounted`), by arithmetic modulo the number
  of lanes.
* *Download.* After `r` rounds of `n` lanes the output is the stretch of the file up
  to the part `n * r`, or all of it (`RoundAt`). The fold that joins the lanes is shown by
  induction to make one stretch of adjoining ones; a lane that gets less than it
  asked for was at the end of the file, and those after it got nothing.
* *Iterators.* What keeps its place in a list that is read by the last item seen
  is fetched exactly when it lies at or above the offset, and once
  (`PlacesFetched`): a batch has the highest places below the offset, without a
  gap. Members are read by a count (`NumbersFetched`): who is hidden from the
  offset was pushed there by a departure, who comes twice by an arrival, one for
  each, which is a count of ranks (`Rank`).

Induction over data. The library's induction theorems take an operator as a
parameter, which no backend can instantiate. `InductionOverNat` of
`TransferProofs` states induction for a *set* of naturals instead, and is proved
from the existence of a least element, by the library's theorem on
well-founded relations. The sequences of `Download` and `Iterate` are folded, or
enumerated by a choice whose uniqueness is proved by it (`Enumeration`), so that
what a loop computes is known for every input.

Only model-checked: liveness, which is out of reach of these proofs, as is
ENABLED: `CallsReturn`, `RecoveryEnds`, `RequestsReturn`, `ResetsRepaired`,
`CloseReturns`, `Arrives`, `Settles`, `Completes`. Every safety property of a run
that passes is stated by a theorem, under hypotheses only where the table says
so: no containers for `RejectedNotLeftPending`, no cancellation and no close
for `OneReads`, `PingsKnown` and `SomebodyReads`.

## 6. Not modelled

* `telegram.py` (two thirds of all lines), `client.pyi`, `stubgen.py` and the
  method tables are generated from the TL schema and have no behaviour of their
  own: the share of lines that any model of this repository can stand for is
  small for that reason.
* Filters, keyboards, rich text, sugar and typed objects are functions of one
  message or text, without state between steps. The methods of `client.py` that
  build one request are one call of `_rpc_call` each.
* The TL codec and the native extension are data. So are the key exchange and
  the message authentication: one conversation whose checks are equalities on
  numbers. The models start with a key, or take one as made in one step.
* The choice of an endpoint (`pick_reachable_dc`, the fetcher of data centres):
  it may return the endpoint of another data centre, which no model follows.
* `_switch_home_dc` in `Connection`: `DataCentres` has what it does to the
  senders, not what the home connection does meanwhile. Timers of the client,
  once-handlers, and `run` and `close` of `AppCore` as a whole.
* Looking up a peer in the entity cache (`_resolve_*`): a read, and a request on
  a miss.
* Pinned dialogs; imports of foreign session files; encryption of the vault.
* `qts`, `date` and `seq` behave like `pts`; the positions of channels are never
  used by the code, though `updateChannelTooLong` moves them.
* asyncio itself is taken to behave as documented. That recent versions of
  `wait_for` may raise the timeout although the future was completed in the same
  turn, and so drop an answer, is not in the models.
