# proxy-client in TLA+

`proxy-client` is a Python SDK for a trading proxy: a signed REST client and a
WebSocket client that keeps one authenticated connection alive, correlates
requests with replies, hands data to handlers, and replays subscriptions after a
reconnect. The WebSocket client is the part with concurrency, failure and time
in it; the REST client is where an order meets retries, and so lost and late
answers. Both are modelled here.

## Inventory

| Component | Source (`src/proxy_client/`) | State | Operations | What makes it correct |
|---|---|---|---|---|
| Request correlation | `websocket/_rpc.py`, `request`, `ping` in `websocket/client.py` | counter, map of futures | next_id, create, expect_pong, discard, discard_pong, resolve, fail_all, cancel_all | a caller gets the answer to its own call; a drop fails every caller; no slot is lost or left behind |
| Supervisor, heartbeat | `websocket/client.py` | `_running`, `_shutdown_event`, two tasks, `_conn`, attempt | start, stop, run_forever, _supervise, _pump, _decide_reconnect, _reconnect_once, _heartbeat_loop | one live connection; a drop is noticed; stop() leaves no task and no socket; the end releases run_forever() |
| Connection | `websocket/_connection.py` | socket, connected_at | open, _authenticate, send, close, iteration | an object per connection, authenticated before use |
| Reconnect policy | `websocket/_backoff.py` | none | default_backoff | 0.5 s doubling to 30 s, for ever |
| Subscription registry | `websocket/client.py` 375-399, 535-544 | list of (channel, params) | subscribe, unsubscribe, replay | what is registered is on, after a reconnect too; what was unsubscribed is off |
| Handlers, dispatch | `websocket/client.py` 401-425, 583-630 | dict of handler lists | add, remove, clear, _dispatch, _deliver | a reply to its caller, any other frame to its handlers, in order; a raising handler stops nobody |
| Dialects | `websocket/_dialect.py` | none | request_frame, response_key, channel_of, error_of | the reply's key is the one its caller waits under; a rejection is never taken for success |
| REST client | `client.py` | HTTP pools | call, acall, _prepare, _handle_response | every outcome is a result or a ProxyError, and a true one; a retry under one key places one order |
| Errors | `errors.py` | code table | from_response, retryable, outcome_unknown | an unknown code fails closed; "outcome unknown" gets through |
| Idempotency keys | `idempotency.py` | none | new_idempotency_key | one per order, not per attempt |
| Reporting | `reporting.py` | HTTP pools | unresolved_orders and three more | an order in doubt is on the list |
| Orders, signing, envelope | the modules of these names | none | pure functions | see "Not modelled" |

How they interact: `request()` and `_ping_once()` register a future, send on
`_conn`, and await; the supervise task pumps frames from the same `_conn`, and
its `_dispatch` settles the futures or calls handlers, which may themselves
await a request. The supervise task replaces `_conn` after a drop and, before it
pumps again, replays subscriptions with `subscribe()`, that is with requests of
its own. The heartbeat task pings through the same map and closes `_conn` when
no pong comes. `start()` and `stop()` create, cancel and await both tasks.
Everything runs on one event loop: an action of the models runs from one await
to the next, and nothing else runs in between. The REST, the reporting and the
WebSocket client share the error table; the first and the last, the idempotency
keys.

The hard behaviours are the interleavings at those awaits, the drop in any of
the phases, late, lost and repeated answers, cancellation, and the calls the tasks
make into themselves. PROJECT.json lists them as "hazards" with their lines and
the properties that watch them.

## Modules

| Module | Models | Uses |
|---|---|---|
| `Connectivity` | the connection as its users see it: the abstract specification | |
| `Supervisor` | start(), stop(), the supervise and heartbeat tasks, the sockets; implements `Connectivity` | INSTANCE `Connectivity` |
| `PendingRequests` | the map of futures and everything that touches it | EXTENDS `Connectivity` |
| `Subscriptions` | the registry, the venue's side of it, the replay | EXTENDS `Connectivity` |
| `Backoff` | the default policy, driven by the supervisor's attempt counter | |
| `Errors` | the code table, classes and what they say of a retry | |
| `Dialect` | both wire vocabularies | EXTENDS `Errors` |
| `Dispatch` | _dispatch, _deliver and the handler lists; the reply's way to its caller | EXTENDS `Dialect` |
| `RestClient` | what a call sends and what is made of a response, REST and reporting | EXTENDS `Errors` |
| `OrderRetry` | an order, its retries, the Proxy's claims on keys, the venue | EXTENDS `RestClient`, `Dialect` |
| `MC...` | instances for TLC | |
| `PendingRequestsProofs`, `SupervisorProofs`, `SubscriptionsProofs`, `DispatchProofs`, `OrderRetryProofs`, `BackoffProofs` | theorems about the module of that name, checked by TLAPS | EXTENDS it |
| `SequenceLemmas` | lemmas about lists: removing, appending, order of two elements | |

### Connectivity

What the rest of the client may take for granted about the connection: nine
modes, whether the current connection is open, and its number. `PendingRequests`
and `Subscriptions` conjoin its actions with what happens to their own state
(`Connect` is `Opening` plus an empty inbox, `StopEnd` is `StopIsOver` plus
`cancel_all`). `Supervisor` maps its variables to it (`LineMode`) and is shown to
implement it, by TLC in `sup_core` and for all bounds by
`ConnectivityIsImplemented`; that the two others do nothing else to the
connection is `CallsStayOnTheLine` and `SubscriptionsStayOnTheLine`. So nothing is assumed of the environment of these
two modules that the lifecycle does not guarantee. A client whose start() raised, or whose
supervise task was ended by a policy's exception, has the modes `failed` and
`crashed`: `_running` is still set in both.

### Supervisor

`sock[i]` is the socket of the i-th `_Connection`, `conn` is `_conn`. Tasks are
numbered by the start() that made them, since those of an earlier start() may
still be there: `sup[n]` says where the n-th supervise task is, `attempt[n]` is its
counter and `own[n]` the connection it is opening or reading; `hb[n]` is its
heartbeat and `hbConn[n]` the connection bound before a ping. `task` is what
`_supervise_task` and `_heartbeat_task` name, and stop() can reach only those.
`starter` and `stopper` are the program counters of `start()` and `stop()`,
`stopTask` and `stopConn` what a stop() under way awaits and closes. `age` stands
for `connected_at`: none, less than `_RECONNECT_RESET_AFTER` ago, or longer.
`ReconnectFails` leaves the socket as it is: a refused handshake does not close
it, and the pump then reads it until the server ends it.

`_pump` binds its socket when it begins (`Loops`): it goes on reading that one
whatever becomes of `_conn`. `_supervise` looks at `_running` at the top of its
loop and after each pump, so that a task cancelled in its pump (`cancelled`; the
pump swallows the CancelledError) ends only if `_running` is still cleared.

`stop()` cancels the supervise task wherever it is. In Python 3.11 and earlier
`wait_for` returns a result that is already there instead of the cancellation;
`CancelSupervisor` has that outcome (the supervisor goes on to replay and ends after
it). Its last step is `cancel_all()` (`CancelAll`): whoever awaits a request by then
gets a CancelledError. In a replay that ends the supervise task (`crashed`), in a
handler the pump, in a heartbeat the heartbeat.

Constants choose how rough the world is: `PolicyRaises`, `BadFrames` (a JSON
frame that is not an object makes `_dispatch` raise, the pump ends with the
socket open), `Overlap` (stop() while start() connects, and start() at any await
of stop(): the code looks at `_running` only, which stop() clears first). Without
`Overlap` callers await start() and stop() before the next call. With it there is
still at most one start() connecting and one stop() on its way.

### PendingRequests

A future is created and awaited by one coroutine, so it is named by its caller.
`futures` is `_futures` (key to caller), `counter` is `_counter`; `phase`
says where the caller is (`sending`: suspended inside `send()`; `waiting`: in
`wait_for`) and `fut` how its wait stands. The pong's slot is key 0, req_ids are
1 and up. `Request` is `next_id` to the first suspension; `SendDone`,
`SendFails`, `Timeout`, `Abandon` (the task is cancelled) and `Resume` are what
may happen at the two awaits, `Leave` is the `finally`. `Dispatch` is one turn of
the pump's loop, `PumpEnds` the end of `_pump`, `DispatchFails` an exception in
`_dispatch`; both go on with `PumpOver`, `fail_all` and the decision.

Four kinds of caller: users; pingers (`ping()` and the heartbeat);
`ReplayCallers`, the supervisor's own subscribes, which run in mode `replay`
when nobody reads frames; `HandlerCallers`, requests awaited in a message
handler, which hold the pump (`blockedOn`). A timeout wins over a result set in
the same turn of the loop, as in `wait_for` of Python 3.12 and later. A send() is bound
to the connection of its beginning; if a frame ended the pump (`DispatchRaises`)
the replaced socket stays open, and the send may still complete on it.

The Proxy is external, over an ordered stream: it answers in any order or
not at all, may send a reply twice (an order request gets an acknowledgement and
a result under one id), and sends data and errors without an id. A ticket, seen
by the model only, says which call a frame answers.

### Subscriptions

`subs` is `_subscriptions`; a call that waits is known by the number of its
frame, and all have the same ten seconds, so `TimeOut` takes the one sent first.
That order matters: a replayed subscribe that was sent before a user's
unsubscribe() also gives up before it. `wire`, `active` and `inbox` are the frames
on their way, what the venue has switched on, and the answers not yet read. The
replay's snapshot is `todo`. `PumpEnds` is the pump that reads a dead connection to its end; one that
a frame ends on an open socket is modelled in `PendingRequests` and `Supervisor`
only, since the venue would then serve two sockets of one client. Two history
variables say what the client cannot
know: `maybeOn` and `maybeOff`, the entries with a call on this connection that
had no answer, was refused, or was never meant to be recorded. The properties
speak of the rest.

### Dialect, Dispatch

`Dialect` keeps of a frame the fields that are looked at, and the type of an id
(OKX waits under a string, Kraken under a number). `Dispatch` takes one frame
at a time through `_dispatch`; between two handlers anything may happen:
handlers are added, removed and cleared, requests are made and time out. `todo`
is the copied list that is being worked through, `always` the handlers that have been on
their list since the frame came, `called` who was called. `HandlerCancelled` is
the CancelledError that no `except Exception` catches.

### RestClient, OrderRetry

`RestClient` has pure operators: `Prepare` for what tells an attempt from
another, `HandleResponse` and `HandleReport` for the two `_handle_response`, with
bodies reduced to their shape. `OrderRetry` is the story around them: a caller
decides on an order, attempts it by REST or over the socket, and retries what
`retryable` and the README allow, with the key of the first attempt; without a key
of its own it does not retry. A request
that was given up may still be served, before its retry, after it, or never.
The Proxy's claims on keys (`Forward`, `Repeat`, `Record`, `LoseOutcome`), the
venue and what stands between are external, taken from what `errors.py` and
`idempotency.py` say of them. `Foreign` is what an intermediary may answer; a
200 with a JSON object is not among it, since nothing in the response tells it
from the Proxy's.

### Backoff

`DefaultBackoff` in units of half a second, with the largest exponent a float
power has (1023) as a constant; `Decide` is `_decide_reconnect` around it.

## Runs

| Run | Checks | States | Shows |
|---|---|---|---|
| `pending_core` | TypeOK, Correlation, NoCrossConnectionWait, DropFailsEveryone, AnswersConsumed, CallsEnd | 95 k | a user, a handler's request and the replaying supervisor across a reconnect and a stop() |
| `pending_handlers` | RepliesCorrelated, RequestsRegistered, NoSlotLeak, LoserKeepsWinner, DropFailsEveryone | 1.24 M | a user, a handler's request, ping() and the heartbeat, with frames that make `_dispatch` raise |
| `sup_core` | TypeOK, NoSocketLeak, PumpHasConnection, StoppedIsQuiet, EndReleasesRunForever, StopReturns, DropIsNoticed, ImplementsConnectivity | 108 k | the lifecycle, four connections, three starts, and its refinement |
| `sup_rough` | ClosesOnlyWhatItPinged, StoppedGoesQuiet | 260 k | three connections and two starts, with everything rough allowed |
| `backoff` | TypeOK, DoublesUpToCap, OnlyOverflowEndsIt | 1 k | every outage, past the float's range |
| `subscriptions` | TypeOK, NoDuplicates, RegistryIsLive, OffStaysOff, ReplayIsOver | 323 k | three calls on two channels across three connections |
| `dispatch` | TypeOK, EveryHandlerIsCalled, InRegistrationOrder, OutcomeIsTheVerdict, ReplyReachesItsCaller | 926 k | both dialects, two handlers, two requests |
| `orders` | TypeOK, AtMostOnePlaced, ResultMeansPlaced, VerdictsAreTrue, OnlyTypedErrors, DoubtfulIsListed | 33 k | an order in up to four attempts, on both routes |

Runs that refute what the repository says (one property each; PROJECT.json,
"findings", quotes the lines):

| Run | Refutes | By |
|---|---|---|
| `pending_replay_timeout` | TimeoutError "if nothing came back" | after a reconnect the supervisor awaits its replayed subscribe (the only caller here) before it reads again: each replay runs into its timeout |
| `sup_policy_raises` | run_forever() blocks until "the connection ends for good" | an exception of the policy ends the supervise task and sets no event; the README's `my_backoff` takes three arguments and gets one |
| `sup_restart_race` | the same | start() while stop() closes: the `cancel_all()` that ends stop() cancels the new supervisor's replayed subscribe, and the task ends without setting the event |
| `rest_untyped_error` | "Every exception is a `ProxyError` subclass" | a body whose "error" is a string or null raises AttributeError |

Deadlock is not checked: a client that is not started, or has run out of
bounds, may stop.

### Beside the runs

What the models also show of the code, without a run of its own:

* An answer that comes after its caller's timeout finds no future and is handed
  to the channel handlers (`Resolves` is false, `Deliver`); the comment at
  `websocket/client.py:593` says that such replies never are. On OKX the late
  acknowledgement even has an `arg.channel`.
* Of two pings in flight only the newer is in the map; a drop or a stop() leaves
  the older to its timeout. `DropFailsEveryone` excepts it.
* A start() that raised leaves `_running` set: the next one is refused with "Client
  is already running." although nothing runs, until stop() is called (`StartFails`,
  mode `failed`).
* With a peer that stops reading, request() is held in send(), which its timeout
  does not cover: without `SendsEnd`, `CallsEnd` is false.
* A handler that awaits a request holds the pump that would read the answer, as the
  replaying supervisor does in `pending_replay_timeout`: once sent, the request ends
  by its timeout or a cancellation; a drop is not noticed before.
* A start() while stop() awaits the supervise task it has cancelled sets `_running`
  again; the comment at `websocket/client.py:483` ("stop() has already cleared
  _running; let the outer loop exit") no longer holds, the task goes on beside
  the new one, and each makes connections.
* After a give-up the heartbeat task is still asleep; a start() within the
  interval leaves two running, of which stop() cancels one. So
  "stopped" in `StoppedIsQuiet` means no supervise task and no open socket; that
  the heartbeats end too, in time, is `StoppedGoesQuiet`.
* When a start() completes while stop() is closing, stop() takes the new connection
  out of `_conn`. The new supervisor goes on reading it, and delivers its frames,
  while send() and the heartbeat's ping raise RuntimeError ("not connected") until
  the server ends the socket. Hence the exception (`Reading`) in
  `StoppedGoesQuiet`, and no property that the client recovers.
* `default_backoff` "never gives up", but `2.0 ** 1024` overflows at attempt
  1025, some 8.5 hours into an outage, and the OverflowError ends the supervise
  task (`OnlyOverflowEndsIt`).
* An open connection that a stop() overlapping a start() takes out of `_conn`, or
  that is replaced after a frame ended the pump, is not closed by anybody.
* `"*"` handlers see heartbeat frames only while the handler dict has a
  "heartbeat" key, which an emptied list keeps (`SkipHeartbeat`).
* The registry survives stop(), and start() replays nothing: what is registered
  is then not on until the first reconnect (`maybeOff` in `Connect`).
* request() does not return the key it made, so a caller that left it to
  request() cannot retry a TimeoutError safely; in `OrderRetry` it does not.
* A 502 with a JSON object that is no envelope becomes the base `ProxyError`,
  not retryable, although the order may be placed: `VerdictsAreTrue` is about
  the typed errors only.
* `unresolved_orders()` raises KeyError on an object without the list.

### Bounds

`MaxId`, `MaxTickets`: requests numbered and frames sent in one behaviour. Three
let a call time out, a second reuse its caller, and a third be in flight beside
it when the first one's answer comes. `MaxEpoch` 2: the hazards of a
reconnect are between one connection and the next; nothing in the client
remembers more than the current one. In `subscriptions` it is 3: the registry is
remembered, so a failed reconnect has to come between two good ones. `MaxCalls` 3: a
channel is subscribed to, unsubscribed from, and a third call overlaps either;
two entries, since the registry is ordered and a replay may stop between two.
`MaxInbox` 1: what the
Proxy owes waits in `owed`, is sent in any order and may be sent twice, and the
pump reads one frame at a time. `MaxConns` 4 and `MaxStarts` 3: a start, a failed and a successful
reconnect, a give-up and a restart with the old heartbeat still there. `sup_rough`
has 3 and 2: a second start() beside the tasks and the stop() of the first, each
with a connection, and a reconnect of either. In the runs that refute, the bounds
are the smallest that let the case happen; `pending_replay_timeout` has no
caller but the replay.
`MaxAttempt` 1030 is beyond the attempt at which the power overflows.
In `dispatch` the handlers are interchangeable (symmetry); `MaxRegistered` 2 is
two handlers on one list or one on two, which is what the order, the copy and
the two loops tell apart; `MaxRequests` 2 lets a reply come beside another
request; the same properties hold with one request and no bound on
registrations (1.33 M states). `MaxAttempts` 4: two attempts in flight when a
third is refused and a fourth repeated; intents share nothing, and two of them
with two attempts each were checked as well (1.9 M states).

### Fairness

`CallsEnd` assumes that a timer that is due fires and a coroutine that is ready
runs (`WaitsEnd`): the event loop does that. It also assumes `SendsEnd`: a
`send()` drains or fails. That one is about the peer, since `request()`'s
timeout covers `wait_for` and not `send()`: with a peer that stops reading, a
request has no bound. `StopReturns`,
`DropIsNoticed` and `StoppedGoesQuiet` assume that the supervise task, start(),
stop() and the heartbeat get on: connect, handshake, request and close all
have timeouts of their own; a replay's send() is taken to drain, and a message
handler to return. Of a pump on an open socket nothing is assumed (`Reading`): no
frame has to come, and none has to end it. `ReplayIsOver` assumes that timers fire and the
replay goes on, and nothing of the pump, which does not run meanwhile. No
fairness is assumed of the network, of the Proxy, or of
callers of start() and stop().

### Mutants

Definitions marked "variant" are what a plausible slip would make of the
definition after them: a ping's `finally` that drops the slot whoever holds it,
an id given out twice, `clear()` without failing the futures, a key made for
every attempt, a replay that ends with its first failure. No specification uses
them. Each property of a passing run is
paired in PROJECT.json with one of them that breaks it.

## Proofs

Each theorem holds for every value of the constants the modules' assumptions
allow: any callers, handlers and entries, any number of connections, starts,
orders, attempts and calls. Every invariant and action property that a passing
run checks, and the refinement, is also a theorem.

`PendingRequestsProofs`

* `TypeCorrect`. `CorrelationHolds`, with `RepliesAreCorrelated`,
  `RequestsStayRegistered` and `SlotsAreReleased` as its consequences. That
  replies are correlated is not inductive: a frame already on the wire might
  answer an older call with the same key. `Correlation` adds that keys in flight
  are below the counter (`KeysFresh`) and distinct (`KeysUnique`), and that a
  frame owed or received whose key is in use answers the call that uses it
  (`FramesKnown`).
* `NobodyIsLeftWaiting` and `TheSlotIsItsHolders`: under `Correlation`, what the
  end of a pump or of stop() settles is every request, and what a ping's
  `finally` drops is its own slot.
* `NoAnswerIsPassedOver` needs the converse of `FramesKnown`: a reply with the
  ticket of a call in flight has its key (`Ticketed`; every ticket is new when
  it is used). Then the map has the caller under the key of the frame, by
  `RequestsRegistered`.
* `NoWaitCrossesAReconnect`, assuming that no frame makes `_dispatch` raise
  (`~DispatchRaises`): otherwise the socket outlives the pump, and a request
  sent during the backoff is not failed when the socket is replaced. Its
  invariant adds that between a pump and the next connection the socket is
  closed and nobody waits.

`SupervisorProofs`

* `SupervisorTypeCorrect`; the bound of the attempt counter needs
  `AttemptsCounted`: there is at most one decision per connection.
* `PumpAlwaysHasConnection` and `ConnectivityIsImplemented`, assuming
  `~Overlap`. `Orderly` ties the tasks together: start() is alone while it runs,
  a live supervisor is the last one started and has the connection last made, and
  one without `_running` is one stop() is waiting for (`SupervisorHasConnection`;
  `TasksInOrder` says that no task is newer than the last start()). Under it each step of `Supervisor` is a step of
  `Connectivity` or leaves it alone. With `Overlap` neither is true: a stop()
  then runs while start() connects.
* `LifecycleHolds`, with `NoSocketIsLost` and `StoppedLeavesNothing`, assuming
  `~BadFrames` besides: a supervisor that sleeps has a dead connection, and a
  client that is not running has nothing open.
* `RunForeverIsReleased`, assuming `~PolicyRaises` and `~Overlap`. Once a start()
  was called, `_running` is cleared only together with the event being set, so
  a task that ends because `_running` is gone finds it set (`Released`); by
  `Orderly` nothing replays when stop() ends, so `cancel_all()` ends no
  supervise task. Each assumption is needed: `sup_policy_raises` and
  `sup_restart_race` are the counterexamples.
* `OnlyThePingedIsClosed`, without an assumption.

`SubscriptionsProofs`

* `SubscriptionsTypeCorrect`, `NothingIsRecordedTwice`, `RegistryStaysLive`,
  `UnsubscribedStaysOff`. The two last speak of what the venue will have on when
  the frames on their way are served, and are far from inductive. The argument
  follows the pipe: the answers to be read, then the frames to be served, both
  in the order sent. For a recorded entry `RecordedIsOn` names why it is on, or may be
  off, and for an accepted subscribe not yet read why it will be; `UnrecordedIsOff`
  is its mirror image. A later accepted call about the same entry is such a reason, so
  "later" is the number of the call (`InOrder`, `SameNumber`). The replay's own subscribes
  have no number of that order. What saves them is that calls time out in the
  order sent: a caller's unsubscribe that went out before a replayed subscribe is
  answered or given up before the replay goes on (`ReplayOutlasts`), and what is
  given up is in `maybeOn` or `maybeOff` (`SentIsKnown`).

`DispatchProofs`

* `EveryHandlerGetsTheFrame` and `HandlersAreCalledInOrder`. A handler
  registered throughout was called, is left of the copied list, or is one of
  "*" whose copy is not taken yet (`NobodyIsMissed`); the handlers called and
  those left are without repetition (`CalledOnce`), and those of them still
  registered stand in the order of the current list (`OrderIsKept`). Each change of the
  registry keeps the order of those it leaves: a lemma about removing and
  appending (`SequenceLemmas`).
* `CallersLearnTheVerdict` and `NoReplyIsMisdelivered`. `FrameIsRead`: a frame that
  names a request has the key its caller waits under and the error the Proxy
  meant, by cases over the two dialects. It needs that only supported methods
  are ever sent (`RequestsAreSupported`): OKX answers under the method's name.
* `DispatchTypeCorrect`.

`OrderRetryProofs`

* `OrdersArePlacedOnce`. `AtMostOnePlaced` is made inductive by three facts:
  every request on its way or forwarded is the attempt of its number
  (`AttemptsOnly`), so all of an order's requests carry the caller's key or
  there is only one (`RetriesHaveTheKey`), and the Proxy forwards a key once
  (`OneClaim`).
* `ResultsArePlaced` and `ErrorsAreRight`, from `Truth`: an answer on its way is
  to the attempt that waits and says what is the case, and so does what the last
  attempt ended with. The venue's refusal and its placing exclude each other; a
  refusal by the Proxy is about an attempt that was never forwarded.
* `OrderRetryTypeCorrect`, `DoubtfulOrdersAreListed` and, assuming that no
  error member is a bare string or null (`~BareErrors`; the run
  `rest_untyped_error` has it otherwise), `EveryErrorIsTyped`. `Told`: "outcome
  unknown" is only ever said of an order whose outcome the Proxy has lost, and
  what is lost is never recorded, so it stays on the list.

`BackoffProofs`

* `DelaysDoubleUpToCap`, `OverflowAloneEndsIt`, `BackoffTypeCorrect`: the delay
  is the policy's value at the attempt (`DelayOfAttempt`), which `DelayValues`
  tabulates, and the attempts end at the first overflow (`AttemptsEnd`).

The hypotheses `~DispatchRaises`, `~BadFrames`, `~Overlap`, `~PolicyRaises` and
`~BareErrors` are what the code does not ensure by itself. The theorems that
need one state it, so a reader sees which fact rests on which.

Only model-checked: the liveness properties `CallsEnd`, `StopReturns`,
`DropIsNoticed`, `StoppedGoesQuiet` and `ReplayIsOver`, since liveness under
fairness is out of the prover's reach.

## Plan

What is left: with `Overlap` or `BadFrames` sockets do get lost ("Beside the
runs"). Which ones has neither a property nor a theorem; that the tasks end in
spite of it is `StoppedGoesQuiet`, model-checked. Two start() calls connecting
at a time, or two stop() calls, are not modelled.

## Not modelled

* Signing and the envelope: HMAC over bytes and JSON encoding, without state.
* `orders.py`: a stateless renaming of fields around `call()`; a model would
  repeat it line by line.
* Headers, URLs, the constructors' checks of credentials, `__repr__`, logging.
* The two generations of the `websockets` API (`is_open` is one predicate).
* Of `reporting.py`: log_health(), auth_failures() and query_logs(), which pass
  on what `HandleReport` returns; filters and paging are the server's.
* `on_message()`: a hook before the dispatch, without a state of its own.
* The contents of orders, subscriptions' parameters and data frames.
