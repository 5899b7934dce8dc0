# rithmic-rs: TLA+ models and proofs

`rithmic-rs` is an asynchronous Rust client for Rithmic's R|Protocol: it keeps
up to four WebSocket connections ("plants": ticker, order, PnL, history) to a
trading server and offers their requests and update streams to any number of
tasks. This directory models the part of it that is hard to test: what happens
to callers and subscribers when messages interleave, writes stall, connections
die and plants stop.

Paths below are relative to the repository; `plants/*.rs` are under `src/`.

## 1. The system

| Component | State | Operations | Interacts by |
|---|---|---|---|
| Request handler, `request_handler.rs` | `handle_map` (id -> oneshot sender), `response_vec_map` (id -> parts so far) | `register_request`, `fail_request`, `handle_response`, `drain_and_drop` | calls from the actor; oneshot channels to callers |
| Sender API, `api/sender_api.rs` | `message_id_counter` | one builder per request, `get_next_message_id` | called by the actor, result written to the WebSocket |
| Receiver API, `api/receiver_api.rs` | none | `buf_to_message`: template id -> update or response, parts, error | called by the actor for each binary frame |
| Plant actor, `plants/{ticker,order,pnl,history}_plant.rs` (the same loop four times) | `logged_in`, ping manager, request handler, the two halves of the WebSocket, two intervals | the arms of `select!` in `run`, `handle_command`, `handle_rithmic_message` | commands by mpsc (64, history 32), updates by broadcast (10 000, history 20 000), oneshots |
| Ping manager, `ping_manager.rs` | the pending ping's instant | `sent`, `received`, `check_timeout`, `next_timeout_at` | owned by the actor |
| Plant handles, same files | senders and a receiver, cloned per task | one method per request, `login`, `disconnect`, `abort` | mpsc, oneshot, broadcast |
| Subscription filter, `plants/subscription.rs` | an account, a broadcast receiver | `recv`, `resubscribe` | broadcast |
| Connection, `ws.rs` | attempt counter inside `connect` | strategies Simple, Retry, AlternateWithRetry; intervals | called once by `connect` of a plant, again by a client that reconnects |
| Configuration, command and domain types, `config.rs`, `rithmic_command_types.rs`, `types.rs`, `error.rs`, `util/*` | none after construction | builders, conversions, pure helpers | data |
| Protocol messages, `rti.rs`, `rti/messages.rs` | none (generated) | encode, decode | data |
| Examples, `examples/*.rs` | subscriptions to restore | connect, login, loop over updates, reconnect | the public API |

### What is hard here, and what makes each part correct

* **Request handler.** Answers to different requests interleave on one stream,
  a request can fail while its answer is on the way, a caller can go away, a
  frame may not decode. Correct: an answer goes whole and in order to its own
  caller, nobody waits without being registered, no parts pile up unnoticed.
* **Actor.** A single task in which every arm of `select!` waits for the arm
  that runs. It has writes with a limit of ten seconds (requests, pings) and
  writes without a limit (heartbeat, Close). It must notice a dead connection,
  and when it stops everybody who waits must learn of it: callers by their
  oneshot, subscribers by a last broadcast.
* **Handles.** Multi-step protocols (`login`: request, answer, SetLogin,
  UpdateHeartbeat; `disconnect`: Logout, answer, Close) run in the caller's
  task, through a bounded queue shared with everybody else. `abort` must work
  when nothing else does.
* **Subscription channel.** A ring overtakes slow consumers; accounts must not
  mix; the last word must get through; and somebody has to close the channel.
* **Ping manager, intervals.** Boundaries of time: the deadline against the
  next ping, late pongs, and a loop that looks at neither while it writes.
* **The tables.** Some sixty methods, as many commands, builders and arms of
  `buf_to_message` were written by copying. Correct: a method gets the message
  it promises, with all its parts, a refusal can be told from an answer, a
  switch reaches the stream and the account it is about, an update goes to the
  subscribers and nowhere else, and an answer to its caller alone; the one
  exception is the ticker plant's `disconnect`, which shows its answer to the
  subscribers too.
* **Reconnecting.** Retry loops, alternation between two servers, and a client
  loop that hears of a loss only by a message. Correct: once servers and
  network are well again, the client streams again.

`PROJECT.json` lists each hazard at its line with the properties that watch it.

## 2. The modules

| Module | Models | State and actions against the code |
|---|---|---|
| `RequestService` | what a plant promises its callers (abstract) | `outcome` of each call, `closed`; `Accept`, `Answer`, `Fail`, `GiveUp`, `Refuse`, `Close` |
| `RequestHandler` | `request_handler.rs`, the id counter of `sender_api.rs`, the calls the actor makes | `handle_map`, `response_vec_map`, `message_id_counter` as in the code; `SendRequest`/`SendFails` are a whole command (draw id, register, write, fail); `HandleSingle`, `HandleMore`, `HandleFinal`, `HandleUnknown` are the branches of `handle_response`; `server`, `wire` are the environment |
| `PlantActor` | `run`, `handle_command`, `handle_rithmic_message`, `send_or_fail`, the handle methods | `pc` says in which write the actor is, `"select"` when it polls; one action per arm and per outcome of a write; `queue` is the mpsc channel followed by the senders blocked on it; `Stop` is leaving the loop with the drop of the actor; `link`, `wire`, `server`, `pong_owed` are the connection |
| `PingMonitor` | `ping_manager.rs` and the timer arms of `run`, with a clock | `pending` is the ping manager, `next_ping` the interval, `since` when the current write began; `PingTick`, `PingDeadline`, `ReadPong` are arms, `HandleRequest` and `HandleUntimed` the writes that keep the loop from them; `Tick` is time |
| `Subscription` | `plants/subscription.rs`, the broadcast channel as the plants use it | `next` is a receiver's position, `log` the stream, the last `Capacity` of it still in the ring; `Lag`, `Take`, `SeeClosed` are the results of one internal `recv`; `HasSender` who keeps the channel open |
| `SenderApi` | the `request_*` builders of `sender_api.rs` | `builder`, a function of the name: template id, whether the message names an account, its switch |
| `ReceiverApi` | `buf_to_message` | `arm`, the match on the template in groups of arms (`matched`; `arms` is its table), and `buf_to_message`, `get_error`, `decode_error`, `has_multiple` as operators |
| `PlantCommands` | the handle methods and `handle_command` of the four plants | `method`: the command of a method, what it returns, the switch it sets; `command`: the builder of a command; both per plant |
| `Dispatch` | the way of a call through those tables and back | `Invoke` is a method, `handle_command` takes its command to the server, `handle_rithmic_message` a frame to the caller or the subscribers; the server answers whole, in parts or with a refusal, and pushes updates of the streams it was asked for; `DisconnectPublishes` is the end of the ticker plant's `disconnect`, in the caller's task after its answer (`closing`) |
| `Reconnect` | `connect_with_strategy` and `connect_with_retry` of `ws.rs`, the loop of `examples/reconnect.rs` | `attempt` and `selected_url` as in the code; `pc` is the line of the client; a plant is seen from outside: it runs, stops with a last broadcast or without one |
| `RequestHandlerProofs`, `PlantActorProofs`, `PingMonitorProofs`, `SubscriptionProofs`, `ReconnectProofs` | theorems about the module of that name | see section 5 |
| `DispatchRoutes` | lemmas about the tables of `Dispatch` | see section 5 |
| `DispatchProofs` | theorems about `Dispatch` | see section 5 |
| `MC*` | instances for TLC | constants only |

How they fit: `RequestHandler` and `PlantActor` both implement `RequestService`
(`INSTANCE ... WITH closed <- ~running`, checked and proved as
`ImplementsService`). The first looks inside an answer (ids, parts) and treats
writing as one step; the second takes an answer as one frame and opens up
writing, waiting and dying. `PingMonitor` is the same loop with a clock and
without callers. `Subscription` takes from the actor only its two endings, with
and without a last broadcast, which are those of `PlantActor`'s `Stop`.
`Dispatch` extends the three tables and composes them; the ids and oneshots of
`RequestHandler` are its calls. That `disconnect` queues Close is left to
`PlantActor` and `Subscription`: with the plant running on, `Dispatch` has more
updates around the logout response, not fewer. `Reconnect` stands on what `PlantActor` (three
ways to stop) and `Subscription` (ring, `Lagged`, no `Closed` while a handle
lives) say of a plant.

History variables (`id_of`, `damaged`, `lost`, `start`, `skipped`, `served`,
`verdict`, `accepted`, `pushed`, `scheduled`, `overrun`, `replaced`, `calm`,
`cause`) record what happened; no action of the code reads them. The server in
`RequestHandler` looks up in `id_of` which kind of request it answers, the one
in `Dispatch` in `verdict` and `served` how far its own answer is.

Abstractions made on purpose:

* An id is a number and 0 is the empty string, the id of a frame that does not
  decode. The counter of the code is a `u64`; `MaxId` bounds it.
* A part of an answer is its position. Updates and heartbeat responses do not
  touch the state of a plant, only the subscription channel; which is which is
  `Dispatch`'s subject.
* `PlantActor` has no clock. A deadline may fire whenever a ping is pending; a
  timeout of a write may occur whenever the link is stalled.
* A write on a stalled link may still succeed (the socket buffer has room), may
  time out, and may reach the server after it was given up.
* tokio-tungstenite ends its stream after an error, so after an error the
  catch-all only logs, the reader arm stays disabled (`reader_ended`).
* Of a message `Dispatch` keeps the template, the id, the account, the switch
  and the codes; symbols, prices and the like are left out. What the server does
  with a template (which stream it turns on, which updates belong to it, which
  answers come in parts) is external: it is taken from the documentation of the
  methods and from which messages have `rq_handler_rp_code`.
* `Reconnect` has one subscription and no lengths of time: the backoff is a step.

External code (tungstenite, tokio's channels, the server) is modelled from how
`src/` uses it and marked external in the map.

## 3. The runs

All finish in about three minutes on two workers.

| Run | Question | Result |
|---|---|---|
| `request_handler` | two multi-part answers, three ids, three parts, every failure: type, registration, order, completeness, refinement, and that intact calls are answered | holds |
| `plant_actor` | login and logout over a queue of one, all arms, stalls, breaks, malformed frames, abort: callers are held exactly once, control commands follow their answers, silence only on Close, refinement | holds |
| `plant_actor_live` | a logged-in history plant: lost connections are noticed, calls end, a queued abort stops the plant, provided no untimed write hangs for ever | holds |
| `plant_actor_disconnect` | after the Close frame the plant stops even if the server stays silent | holds |
| `subscription` | two filtered receivers, two accounts, ring of one, three messages: exactly once, in order, losses counted | holds |
| `subscription_live` | ticker/history: the last word reaches everybody, Closed once every sender is gone | holds |
| `ping_monitor` | three ping intervals, writes with and without a limit, late and missing pongs: silence is bounded, a pong is for the pending ping until one is replaced, a timeout beside a pong in time takes a long write | holds |
| `dispatch` | every method of every plant beside a second call, refusals of three forms, parts, frames that do not decode, updates, and the logout response the ticker plant publishes: the four tables fit together, whoever waits is owed an answer, and subscribers see updates and that response only | holds |
| `reconnect` | three strategies, five faults: a reported loss is heard, and the client streams again once things are calm, unless it waits for a message nobody will send | holds |
| `stalled_link` | ping/pong "reliably detects dead connections 24/7" (docs of the ticker plant) | violated |
| `reconnect_stuck` | "Persistent connection with automatic reconnection and re-subscription" (`examples/reconnect.rs`) | violated |
| `heartbeat_error` | heartbeat errors are forwarded as `HeartbeatTimeout` (docs of the plants) | violated |

**Bounds.** In `request_handler` three ids for two calls leave one for a
heartbeat; three parts are the least at which order and completeness differ
(first, middle, final). In `plant_actor` a queue of one makes senders block and
`abort` fail with two calls, where the code needs 65. One pong and one
malformed frame at a time are on the wire: further ones would be read to the
same effect. `plant_actor_live` has a single call because temporal checking
multiplies the states; queueing behind others is left to `plant_actor`. In
`subscription` a ring of one is overtaken by two messages (`Lagged(2)` at
three); `subscription_live` has a ring of two, since a disconnect may publish
one message behind the last word. In `ping_monitor` the interval is 6, the
timeout 4 and a write's limit 2: as in the code (60, 50 and 10 s) a write lasts
as long as the time between a deadline and the next tick, so that a write can
hide a deadline. `Slack`, how long `select!` may prefer other ready arms, is 3,
and `MaxTime` 24 leaves room for three pings and a replacement. In `dispatch`
the first call is one of any method, the second one of five that turn a stream
on or off or are answered in parts, of every plant; answers have up to two parts
and one update is pushed, enough for a part taken for the whole and an update
for an answer. Only what the actor publishes counts against that bound
(`Forwarded`), so that the logout response of `disconnect` comes before and
after an update.
The server of `Dispatch` need not answer a call (no fairness is assumed there);
`WaitersAreOwed` says that when it has, nobody is left waiting.
`reconnect` has five faults, a ring of two, and counts attempts up to four,
after which the counter goes back by one: only its parity chooses a server.
The theorems of section 5 remove the bounds on calls, ids, parts, updates,
accounts, queues, rings, receivers, lengths of time and faults.

**Deadlock** is not checked: a plant stops for good, and bounded calls, ids,
messages and clocks run out.

### What the violated runs show

* `stalled_link`: the heartbeat (and Close) is awaited without a limit inside
  the loop. While the link stalls (a peer that stops reading but whose kernel
  answers window probes; otherwise until TCP gives up) no deadline is looked at.
  `plant_actor_live` shows that this is the only gap, and `SilenceBounded` how
  long silence lasts without it.
* `reconnect_stuck`: a `subscribe` that fails breaks out of the loop over the
  subscriptions only, and the client goes on to wait in `recv()`; so does one
  whose plant stopped on the server's Close frame, which broadcasts nothing.
  `Recovers` shows that there is no other way to get stuck.
* `heartbeat_error`: `buf_to_message` returns `Err` for every response with an
  error, so the branch for it in the `Ok` arm is never reached and the
  `ResponseHeartbeat` is published as it came.

### What else the models tell of code and docs

These are seen in passing runs or in the code itself, without a run of their own.

* The Close frame branch of all four plants, and in `history_plant` a ping that
  cannot be written, stop the plant without a broadcast (`SilentStopOnlyOnClose`
  says that nothing else does).
* `abort` is `try_send` with the result dropped: on a full queue it is lost
  (`Abort` in `PlantActor`), although `ticker_plant.rs:1157-1160` says that the
  plant shuts down.
* `receiver_api.rs:63` says that the channel closes when the plant has stopped.
  The plant, and the handles of ticker and history, hold a sender of the channel
  they receive from: it closes only when they are gone (`HasSender`).
* `error.rs:5-15` shows a rejected `subscribe` as `ServerError`. Only `login`
  does that; the other methods return `Ok` with `error` set
  (`RefusalsAreVisible` says where the caller finds it).
* `ping_manager.rs` says that any pong is for the most recent ping. That is so
  until a pending ping is replaced (`PongIsForPending`), which takes a loop that
  was held up (`ReplacedOnlyWhenHeldUp`).
* The "exponential" backoff of `ws.rs` is linear (500 ms times the attempt, at
  most a minute), and the counter starts anew with each `connect()`.
* The ticker plant's `disconnect` publishes its `ResponseLogout`, which is no
  update, to every subscriber (`ticker_plant.rs:1152`); those of the other
  plants do not. `OnlyLogoutsShown` says that it is the only answer to a call that
  subscribers ever see.
* `error.rs:9-11` asks for `handle.abort()` after an error; the reconnect
  example never calls it, so a plant that still runs is left behind.

## 4. Fairness

`RequestHandler.FairSpec`: the reader is polled while the actor runs, and the
server finishes the answers it owes (there is no request timeout in the client,
so without this nothing can be said).

`PlantActor.FairSpec`: `tokio::select!` chooses at random among the arms that
are ready, hence strong fairness for the command arm, the reader and the ping
tick. A ping that no pong can answer any more reaches its deadline, because the
deadline (50 s) comes before the next ping (60 s); on a link that is never up
again this holds for every ping. A write with a limit ends (weak fairness: it is
enabled until it happens), one without a limit ends unless the link is stalled.
The server answers while the link lets it. The callers, the link, heartbeats and
the server's Close are free. The liveness properties assume
`[]<>~Hung`: the actor is not stuck for ever in an untimed write; `stalled_link`
drops that assumption and fails.

`PingMonitor` has no fairness: its promise is a bound in time, and what the
scheduling gives is in its guards. `Tick` does not pass a ready arm or the
limit of a write, and a new write begins only if it leaves a ready timer arm
within `Slack` (`MayWrite`). The random choice of `select!` makes any finite
slack an assumption, not a certainty; it is a constant for that reason.

`Subscription.FairSpec`: consumers keep calling `recv()`; no more is assumed.

`Reconnect.FairSpec`: weak fairness of connecting (attempts end and backoffs
run out) and of the client's own steps (it reads what is there, and calls of a
plant that runs or has stopped return). Faults, updates and the plant's stops
are free.

## 5. What is proved

tlapm checks every proof, without a bound on calls, ids, parts, updates,
accounts, queues, rings, receivers, faults or times; the only assumptions are
those the modules name (`RequestHandlerAssumption`, `PlantActorAssumption` and
`CallsAreRequests`, `PingMonitorAssumption`, `SubscriptionAssumption` and
`AccountsAreTags`, `DispatchAssumption`, `ReconnectAssumption`), which TLC
evaluates in every run.

| Module | Theorem | States |
|---|---|---|
| `RequestHandlerProofs` | `TypeCorrect` | `[]TypeOK` |
| | `RegistrationCorrect` | `[]RegistrationMatches` |
| | `NobodyForgotten` | `[]NoCallerForgotten` |
| | `AnswersCorrect` | `[]AnswersOwnPartsInOrder` |
| | `AnswersComplete` | `[]UndamagedAnswersComplete` |
| | `OrphansOnlyAfterDamage` | `[]OrphanPartsOnlyAfterDamage` |
| | `HandlerImplementsService` | `ImplementsService` |
| `PlantActorProofs` | `TypeCorrect` | `[]TypeOK` |
| | `CallersHeld` | `[]CallersAccounted` |
| | `ControlInOrder` | `[]ControlFollowsAnswer` |
| | `SilenceExplained` | `[]SilentStopOnlyOnClose` |
| | `PlantImplementsService` | `ImplementsService` |
| `PingMonitorProofs` | `TypeCorrect` | `[]TypeOK` |
| | `WatchdogWorks` | `[]SilenceBounded` |
| | `PongsAttributed` | `[]PongIsForPending` |
| | `TimeoutsHonest` | `[]TimeoutWithPongOnlyAfterWrite` |
| | `ReplacementExplained` | `ReplacedOnlyWhenHeldUp` |
| `SubscriptionProofs` | `TypeCorrect` | `[]TypeOK` |
| | `DeliveryCorrect` | `[]DeliveredOrCounted` |
| `DispatchRoutes` | `EveryMethodFits` | the four tables fit, for every method of every plant |
| | `EveryUpdateFits` | every update of every feed has an arm that names it |
| `DispatchProofs` | `DispatchInductive` | `[]IInv`, on which the others rest |
| | `DispatchTypeCorrect` | `[]TypeOK` |
| | `AnswersFit` | `[]AnswersFitMethods` |
| | `NoPartLost` | `[]NothingLost` |
| | `RefusalsVisible` | `[]RefusalsAreVisible` |
| | `NoAnswerAstray` | `[]WaitersAreOwed` |
| | `LastCallDecides` | `[]StreamFollowsLastCall` |
| | `SubscribersGetUpdates` | `[]UpdatesReachSubscribers` |
| | `NoAnswerShownButLogouts` | `[]OnlyLogoutsShown` |
| `ReconnectProofs` | `TypeCorrect` | `[]TypeOK` |
| | `LossHeard` | `[]LossIsHeard` |

**RequestHandler.** None of the properties is inductive: that an answer is in
order depends on what has been collected, on what is on the wire and on what
the server will send. `IInv` therefore adds `FreshIdsUnused` (nothing refers to
an id not yet drawn, so a new registration meets no leftovers), `WireOrdered`
(frames of one id are in order, only the last is final, and the server
continues behind them) and `PartsOrdered` (what is collected is older than what
is on the wire). Completeness needs more: `CompleteInv` adds that, for an id
without damage, collected parts, wire and server together are a gap-free
sequence 1, 2, 3, ... (`NoGap`), and that an id that has been answered has
nothing left anywhere (`Spent`). The refinement uses `NoCallerForgotten`: the
drain answers those who are registered, the abstract `Close` those who wait,
and the invariant says they are the same.

**PlantActor.** `CallersAccounted` needs that a call that has not begun is
nowhere (`IdleNowhere`), so that its command is the only one of its kind in the
queue; lemmas say what appending, taking the head and withdrawing a blocked
command do to the set of queued commands and to their being distinct.
`ControlFollowsAnswer` is about flags that rise long after the answer: the
invariant follows the commands back through the queue to the future that sends
them (`FollowUpsAfterAnswer`), and an answered call stays answered. The silent
stop needs that a Close frame on the wire was the server's. Steps are first
sorted by what they do to callers (`Cases`: those that touch nobody, those that
stop, and seven more). The refinement is the point of `CallersAccounted`: the
drop of the actor answers those in the queue and in `handle_map`, the abstract
`Close` those who wait.

**PingMonitor.** `Prompt` is the invariant: neither the loop nor a write that
ends in time gets beyond `Limit`, the instant until which `select!` must have
served the timer that matters, the tick while no ping is pending and the
deadline otherwise. It is kept because a write begins only if it ends within
`Limit` (`WritesFit`), and because `pending` and `next_ping` are never far
behind `calm` (`Order`). The other properties need that a deadline passes only
during a write (`AtDeadline`, `LateOnlyInWrite`), and that nothing is under way
while the first ping is being written (`PingAlone`).

**Subscription.** The invariant is per receiver: what it has passed lies
between its start and the tail, what it got is what was due there. The
cardinality of what the ring pushed out is `Lagged`'s sum, step by step.

**Dispatch.** The proof has two halves. The first is about the tables alone
(`DispatchRoutes`): for every method of every plant, the command it sends, the
builder of that command, the template of the request and the arm of the answer
belong together: the arm names the promised message, a method that takes one
response asks a question that is answered once, one that takes all has an arm
for parts, and the request switches the promised feed, for its handle's account
where the feed has one. That is `EveryMethodFits`, proved group by group, the
way the methods are grouped in the source; `EveryUpdateFits` says the same of
the updates. The second half (`DispatchProofs`) never opens a table again.
What `buf_to_message` makes of a part, an end, an update and a heartbeat is a
lemma each; the steps of the server then reduce to their effect on one call
(`PartEffect`, `EndEffect`) or on the subscribers (`PushEffect`).

None of the properties is inductive: they speak of settled calls, and what a
caller gets was decided while it waited. `IInv` therefore follows each call
through its life (`Life`): untouched until a method puts it into the channel,
in the channel once and untouched by the server (`QueuedFresh`), registered
while the server works on it with the template of its own method, its parts so
far complete and in order (`Collected`), and `Answered`. `StreamFollowsLastCall`
quantifies over the history of accepted calls; `StreamsOfLatest` says of it
that the latest call about a feed and account exists and decides, which is what
a further call changes: it becomes the latest of its own feed and account and
leaves every other one as it was. `UpdatesReachSubscribers` and
`WaitersAreOwed` are inductive beside these. `OnlyLogoutsShown` needs that what
`disconnect` is about to publish is its own answer and no update (`Closing`).
That holds also when a frame of the answer did not decode, and so cannot come
from `Answered`: the parts kept for a call came with its id (`OwnParts`). A damaged call (one with a frame
that did not decode) is exempt from promises about its answer, since its id is
lost with the frame.

A first attempt failed for a reason: with `MaxParts = 0` the one frame of an
answer already leaves the range of `served`. `DispatchAssumption` therefore
asks for one part at least, as every answer has.

**Reconnect.** A client that logs in, subscribes or reads listens to its latest
plant (`ListensWhileUsing`: `get_handle` comes first). The stop puts the ending
behind everything else, publishing pushes out the oldest message, and only
`recv` takes one, so the ending stays.

Only model-checked: the liveness properties (`IntactCallsAreAnswered`,
`ConnectionLossStops`, `EveryCallEnds`, `QueuedAbortStops`, `DisconnectStops`,
`LastWordReachesAll`, `ClosedWhenAllGone`, `Recovers`). Temporal properties
under fairness are beyond the prover. Every safety invariant and action property
of a passing run is a theorem.

## 6. Not modelled

* The lengths of the heartbeat interval (a float of the server's, raised to at
  least 60 s and cast) and of the backoff: no other state depends on them.
* The fields of messages other than template, id, account, switch and codes:
  they are passed on unread.
* `config.rs` (environment variables, read once), `rithmic_command_types.rs`,
  `types.rs`, `error.rs` (data and conversions), `util/*` (pure functions on
  floats and times), `rti.rs` and `rti/messages.rs` (generated structures, a
  third of the source).
* `examples/bracket_order.rs`, a straight sequence of calls.
* TLS and the WebSocket protocol itself, logging.
* Two plants of one client at once, as a reconnect without `abort()` leaves
  them: `Reconnect` forgets the old one, whose actor runs on.

What could follow: the two plants just named, with the old one's connection
still open on the server; the price precision of `util/instrument.rs` and the
status groups of `util/order_status.rs` against reference definitions.
