# Formal model of kairos-connectors

TLA+ modules for the Bybit connector of this repository (`bybit/`): the private
WebSocket client, the connector built on it, the REST calls and their rate
limiter, and the DNS cache of `pkg/connectors/bybit/`. TLC checks small
instances. TLAPS proves, for every value of the constants, every invariant that the
passing runs check, and that the WebSocket client, the connector's streams and the
REST calls each implement an abstract specification of what their user sees. Paths
below are relative to the repository.

## 1. Inventory

| part | state | operations | hard behaviour |
|---|---|---|---|
| WebSocket client, `bybit/websocket_client.go` | current connection, `connected`, remembered topics, `reconnectCh` (capacity 1), `messages` and `events` channels, a wait group, three `sync.Once` | `Connect`, `Subscribe*`, `Close`; `readLoop` per connection, `pingLoop`, `reconnectLoop` | everything outside `ws.mu` interleaves: detection of a loss by four kinds of goroutine, wake-ups through a full channel, subscribing during a reconnection, closing channels others write to |
| Connector, `bybit/connector.go` | `connected`, a context created once, `ws`, one channel per account stream, one per ticker, the event channel, a wait group | `Connect`, `Disconnect`, `Subscribe*`, REST methods that forward; two handler goroutines per `Connect` | a handler blocked on a slow subscriber, shutdown while it sends, a second life, a `Subscribe` overlapping `Disconnect` |
| Rate limiter, `bybit/rate_limiter.go` | tokens, a ticker, `stopChan` | `Wait`, `refillLoop`, `Stop`, `Tokens` | polling callers, late refills, bursts, stop with waiters |
| REST client, `bybit/client.go` | HTTP client, limiter | `doRequest`, `Connect`, `Disconnect` | an error that hides a success, a request handled after its caller gave up |
| Orders, positions, balances, symbols, permissions | none | one request and the decoding of its reply for each | overlapping calls, retries, an account that changes meanwhile, malformed numbers, empty lists |
| Mapping and decimals, `bybit/mapping.go`, `bybit/decimal.go` | none | pure conversions | unknown values fall to a default |
| DNS cache, `pkg/connectors/bybit/connector.go` | entries with a time to live | `Resolve` | overlapping lookups stored late and in any order |
| `bybit/client_subscriptions.go` | none | stubs that return errors | none |

**How they interact.** An application's goroutines call the connector. `Connect`
checks the permissions over REST, creates a *new* WebSocket client, connects it
and starts two handlers; these receive from the client's `messages` and `events`
channels and send to the channels the `Subscribe` methods return. The WebSocket
client reconnects by itself and resends the topics it remembers. `Disconnect`
cancels the connector's context, closes the client, waits for the handlers and
closes the channels. Every REST call first takes a token from the limiter.

**What makes each part correct.**

- *WebSocket client*: a client that is not closed reconnects after every loss; a
  loss is announced once; no socket is leaked; a remembered topic gets onto the
  connection that replaces a lost one; `Close` ends, and its closing of channels
  makes nobody panic.
- *Connector*: messages are settled once and in order; a ticker never arrives
  before its channel exists; `Disconnect` ends although nobody reads, and closes
  every channel handed out before it; no panic on a channel of the connector.
- *REST calls*: an answer is true of the account at some moment of the call; an
  error that says "no order" means it; a retry places no second order.
- *DNS cache*: what it answers is not older than a bound.
- *Rate limiter*: a bound on the requests of any window of time; waiters are
  served again, or released by `Stop`.

## 2. Modules

| module | what it is |
|---|---|
| `WebSocketClient` | the WebSocket client, with its properties |
| `MCWebSocketClient` | symmetry and state bounds for TLC |
| `WebSocketClientProofs` | the inductive invariant and six theorems |
| `StreamLink` | the abstract specification that `WebSocketClient` implements |
| `StreamLinkProofs` | the refinement |
| `Connector` | life cycle and streams of the connector, with its properties |
| `MCConnector` | symmetry and state bound for TLC |
| `ConnectorProofs` | four layers of invariants and five theorems |
| `UpdateStream` | the abstract specification that `Connector` implements |
| `UpdateStreamProofs` | the refinement |
| `RateLimiter` | the token bucket, with its properties (checked directly) |
| `RateLimiterProofs` | the ledger invariant and two theorems |
| `RestClient` | the REST calls and the exchange, with their properties |
| `MCRestClient` | symmetry and state bound for TLC |
| `RestClientProofs` | the inductive invariant and seven theorems |
| `AtomicAccount` | the abstract specification that `RestClient` implements |
| `AtomicAccountProofs` | the refinement |
| `DNSCache` | the DNS cache, with its properties (checked directly) |
| `DNSCacheProofs` | one short invariant and two theorems |

### WebSocketClient

`conn`, `connected`, `reconnectCh`, `subscriptions` are the fields of the same
name. `pc` says where each goroutine is, `held` is its local variable `conn`,
`pending` the topics it still has to write, `shouldPublish` the local of that
name. `sock` is the TCP stream under each connection object. `sent`, `missed` and
`announced` are history, read by no guard.

One action is one section under `ws.mu`, or one effect outside it. Where the code
unlocks and goes on, the model has an action boundary: `Mark` (the section of
`markDisconnected`), `CloseSocket`, `PublishDisconnected`, `TriggerReconnect`. The
mutex is held across a dial, which takes time, so `dial` is a state and `MuFree`
the exclusion.

Abstractions, and why they change no answer:

- *Messages and events have no content.* Sends to these channels have a `default`
  case: they never block and change nothing else. What remains is the panic of a
  send on a closed channel, in `PublishThen`; as `ctx.Done` is ready by then, a
  `select` may also pick that.
- *Dial and authentication* are one success or one failure; both happen under the
  mutex and only the outcome is seen.
- *A connection object is reused* once nothing refers to it (`Fresh`), so a few
  objects stand for any number of successive connections.
- *A write* may succeed on a broken stream (it enters a kernel buffer), fails on
  a closed one, and may fail on a broken one. The failed write and its `Gap` event are one step.
  Writes are not ordered by `writeMu`: a write in progress is neither begun nor ended.
- *Topics to resend* are copied with the dial, as in the code; which is
  sent next is chosen at each send (Go's map order).
- *Close*: `ws.wg.Wait()` returning and the closing of both channels are one step;
  nothing counted runs any more.
- *A caller that panics* stays in `panic`; the others go on, as an application that
  recovers would.
- *The ping ticker* may fire at any time until Close is over. Its first tick is
  20 seconds after the loop starts, hence the guard that keeps a loop started
  after the end of Close from pinging.

### StreamLink

The client as its user sees it: a link that is up or not, the topics remembered
and those live on the connection, who owes the announcement of a loss, and how far
the end has come. `WebSocketClient` maps to it by `Link`: `up` is
`connected`, `live` the topics sent on the current connection, `owed` the
goroutines on their way to publish a loss, `phase` where `Close` is. All the rest
(the mutex, the wake-ups, sockets, retries, what each goroutine holds) is
invisible there. What the refinement says beyond the invariants is about steps:
a link that is up is never replaced, only lost or shut; losing it makes exactly
one party owe an announcement; topics are sent only on a live link and forgotten
only with it; and the event channel is closed only once no goroutine that the wait
group counts owes one. The uncounted callers are why the channel's end waits for
`Counted` only; `ws_panic` is what happens to the others.

### Connector

The WebSocket client appears through its interface: down, up or closed, the topics
it remembers, and the queue of messages that drops what does not fit. The three
account streams are treated alike in the code and are one topic, `"order"`, one
of whose updates stands for any. What decoding comes to is one of three forms: an
update, a malformed number (reported as a `Gap`), or no object (logged only).
`Source` reads `c.ws` without the mutex as `handleWebSocketMessages` does.
A send on a closed channel panics; `AbandonUpdate` is the other case of
its `select`. Only the connector's own channels are there: the panic of
`ws.subscribe` that `ws_panic` shows is outside `Connector`, and so outside
`NoPanicInOneLife`. `CloseChannels` closes all channels in one step where the code
closes them one after another: the handlers, which alone send, are gone by then, so
nothing can tell the order. `accepted`, `handed` and `promised` are history. The REST methods of
the connector are calls of `RestClient`.

### UpdateStream

The connector's streams as subscribers see them: one line of messages, bounded
channels, and the `life` of the connector. `Connector` maps to it by `Stream`:
`line` is what the message handler of the current session holds followed by what
waits for it, and `closed` the channels that are. Sessions, the lock, what each
caller is about to do and the handlers' places are invisible there. Beyond the
invariants, this says of every step that a message leaves the line only at its head;
an update only by entering its own channel, so that a subscriber who does not read
makes the line wait and loses nothing of it; a malformed message leaves a `Gap` unless
the event channel is full. `Disconnect` gives the line up, a handler may still deliver
what it holds until the channels are closed (`Straggle`), all that was given out
before is closed when `Disconnect` ends, and nothing is sent after that. A second life is
"undefined" there; `connector_reuse` shows why.

### RateLimiter

One action per critical section or `select`. `tick` is the one-place channel of
`time.Ticker`. `refillLoop` receives a tick (`TakeTick`) and takes the mutex later
(`Refill`), so a tick may be in its hand while the next one is buffered; `Stop` closes
`stopChan` and then stops the ticker (`StopTicker`), which discards a buffered tick.
`OpenWindow` only resets the counters of the history, so that
`WindowBound` speaks of every window of time, not of the time since the start.

### RestClient

A call goes from `Call` (the connector's look at its flag) through the limiter
(`LimiterGrants`) to `Receive` or `RequestFails`, and is used once: a retry is
another call with the same client order identifier. `wire` is the HTTP exchange of
a call, which outlives it: `RequestFails` leaves a request that is still on its way
there, and the exchange may handle it later. `Decode` is what each method makes of a
reply; each operator under it follows one method, with its order of checks.
`world` is what the exchange would say of each order, position, coin, instrument
and of the key; it moves by itself. `seen`, history, collects what was true of the
things a call asks about from the grant of the limiter to the answer.

- *Words instead of numbers.* A thing has one word (its status, its side, zero or
  not). An element of a reply may carry a malformed number, in the required
  amount or elsewhere; `Parsed` is zero for a malformed amount, as the decimal
  parser returns zero beside its error.
- *Statuses the code does not list* are two words, `"Other"` for an order that is not
  over and `"OtherFinal"` for one that is. `unmapOrderStatus` makes both `Pending`, so
  `OrderStatusTruthful` takes `Pending` for nothing but "not listed", and asks of the
  five listed statuses that they be true; `OpenOrdersComplete` is about the two listed
  open ones, which are what the client's own filter keeps.
- *The connected flag* may be set or not when a call looks at it (`Connector` is
  about the flag). A call past its check is stopped by nothing.
- *The limiter* grants or refuses; `RateLimiter` is about when.
- *Every failure after the grant* is one outcome, "doubt": dial, write, read, a
  body that is no JSON, a deadline, before or after the exchange acted.
- *The exchange* is external: it refuses what it likes, refuses a client order
  identifier it knows, answers with what is true when it handles a request, in one
  page, and may leave out of a list what is zero. A requested cancellation is
  accepted for an active order and takes effect later or never (it may fill first).

### AtomicAccount

The REST calls as a careful caller would like to see them: between its start and its
return each call that succeeds has one instant at which it takes effect, or looks at
the account and finds its whole answer (`Look`, `Cancel`, `Place`). `RestClient` maps
to it by `Account`: what a call `decided` is what the reply on its wire says, in the
words of `mapping.go` but without its method's decoding; what it was `told` is what its
answer lets it conclude (`Conclusion`): "refused" and "not sent" mean that there was
and will be no effect, a malformed reply and every other failure leave it in doubt.
Beyond the invariants, the refinement says that a list is one view of the account and
not a mixture of several, that the decoders add nothing to what the exchange replied
and drop nothing from it, and that only after a doubtful `SubmitOrder` may an order
still be placed when the call has returned, once for each identifier.

### DNSCache

One host, since entries do not interact. Times are those of one clock; `born`
is when the cached addresses were true at the resolver, `expiresAt` the field.
The section under the mutex that looks, the lookup, and the section that stores are
separate actions. `MaxDelay` bounds a lookup as the deadline of the caller's
context does; without such a deadline no bound on the age of an answer exists.
That deadline ends with the lookup: `MaxPause` bounds what comes between the answer and
its storing, the scheduler and the wait for the mutex. What the addresses are is left
out. The copies that `Resolve` makes are shallow, so the bytes of an address are shared by
the entry and every caller; nothing in the repository writes to them, and nothing
promises that a caller may.

### Mutation variants

Definitions marked "Variant, for mutation" (`WithoutTrigger`, `AnyConnection`,
`NoTopics`, ...) are used by no action. Each is a plausible defect of the code
beside the definition it would replace, and `PROJECT.json` lists which property
fails when it does.

## 3. Runs

Run one with `tlc -config <cfg> <module>` in this directory.

| run | instance | checks |
|---|---|---|
| `ws_safety` | 2 callers, 2 connections, 1 topic, Close at any time (bound `CloseMeetsOneCaller`) | `TypeOK`, `WakeupPending`, `SocketOwned`, `AnnouncedOnce`, `TopicCoverage`, `LoopsNeverPanic`, `ImplementsStreamLink` |
| `ws_recovery` | 1 caller, 1 connection object, 2 topics, no Close, fair | `LinkRecovers`, `TopicsReachTheLink` |
| `ws_close_ends` | 1 caller, 1 connection object, 1 topic, Close, fair | `CloseCompletes` |
| `connector_safety` | 2 callers, 1 symbol, 2 sessions, 3 messages, channels of 2 and 1 | `TypeOK`, `NoPanicInOneLife`, `InOrder`, `TickerHasChannel`, `SubscribersReleased`, `ImplementsUpdateStream` |
| `connector_liveness` | 1 caller, 1 session, 3 messages, fair | `DisconnectEnds`, `UpdatesFlow` |
| `rate_limiter` | 2 callers, a bucket of 2, windows of up to 1 tick, fair | `TypeOK`, `WindowBound`, `StopReleases`, `TokensReturn` |
| `rest_client` | 2 calls, 1 client order identifier, 2 orders, 2 positions, 1 coin, 1 instrument (bound `OneReader`) | `TypeOK`, `OrderKnown`, `AckIsReal`, `NoDoubleOrder`, `OpenOrdersComplete`, `OrderStatusTruthful`, `HoldingsTruthful`, `ImplementsAtomicAccount` |
| `dns_cache` | 2 goroutines, a ttl above the maximum, lookups of up to 2 and a pause of 1 before storing, a clock up to 8 | `TypeOK`, `BoundedAge` |
| `ws_panic`, `ws_topics`, `ws_close_leak`, `connector_reuse` | smallest that shows it | one property each, violated (section 5) |

**Bounds.** Two connection objects let a stale goroutine of an old
connection meet a newer one, the case the identity check is for; a third would only repeat
it. Two callers let a `Connect` overlap a `Subscribe`, two losses be noticed at
once, and two `Disconnect` overlap. Three messages over queues of two and one
fill every queue with one message in hand. Two topics let a reconnection fail after
one of them was resent; one is enough for `Close` to meet a reconnection that is
resending. The safety theorems need none of these bounds,
nor the constraints below.

Two calls under one client order identifier
are a retry beside its first attempt; two orders are what it could double. Two
positions are a list of which one element fails. In the DNS run the ttl asked for
is out of range, the case that needs the cap, and the clock passes four expiries.

**Constraints.** `CloseMeetsOneCaller` lets `Close`, at any moment, meet at most one
caller inside a call; two callers compete with each other while the client is open,
and the theorems cover all of it at once. `StillOpen` cuts the behaviours in which `Close` is called: in
the liveness run it restricts attention to clients that are never closed, and no
counterexample is hidden, since a closed client satisfies both properties.
`OneReader` lets any number of `SubmitOrder` run beside one other call about
orders, or one call about the account alone, with everything else as usual: only
`SubmitOrder` writes to the exchange, so calls that read cannot disturb each other. It
also leaves out that the malformed number of an order is its required amount, which its
decoder treats like any other, and that two orders have an unlisted status at once.
The theorems cover all of it.
`OneLife` stops at a successful `Connect` after
`Disconnect`, where the connector is known to be broken (`connector_reuse`).

**Deadlock** is not checked where the system may really stop, after Close or
Disconnect.

## 4. Fairness

- *WebSocket client*: every goroutine keeps running. It is strong fairness
  because a goroutine waiting for `ws.mu` is enabled only now and then and
  `sync.Mutex` does not starve it, and because `ReadFrame` is no progress: a dead
  connection has finitely many buffered frames, and read deadlines expire (60
  seconds). Two choices are fair as well: a `select` with several ready cases picks
  at random, so the ping loop does not ignore `ctx.Done` for ever
  (`LoopExits("ping")`), and the network does not refuse the reconnect loop for
  ever (`ReconnectDialed`). Without the last, nothing could recover.
- *Connector*: handlers and callers run, calls to the exchange return; exits are
  strongly fair for the same reason of random choice. Nothing is assumed of
  subscribers except in `UpdatesFlow`, which states its premise.
- *Rate limiter*: callers and the refill goroutine run, and seconds pass.
- Nothing anywhere forces new calls, pings, failures or messages.

## 5. What the code does not do

Four runs are expected to find a violation.

1. `ws_panic`: a caller of `subscribe` is not in the wait group; its failed write may
   publish a `Gap` on `events` after `Close` closed it, which panics. The quality
   gate says "connector runtime paths must return errors or stream events instead
   of panicking".
2. `connector_reuse`: `Connect` after `Disconnect` succeeds on a cancelled context
   and closed channels. The run shows the event handler of the second life sending on
   the event channel that the first one closed.
3. `ws_topics`: `Connect` does not send remembered topics, so a topic
   "remembered for reconnect" by a failed `Subscribe` stays unsent when it is
   `Connect` that (re-)establishes the link. `missed` sets these apart, and
   `TopicCoverage` holds for all others.
4. `ws_close_leak`: a `Connect` that checked `ws.ctx` before `Close` dials after it;
   the connection stays open and a later `Close` does nothing.

`UpdatesFlow` also names a case: a failed `SubscribeTicker` leaves a channel
nobody was given, and when it is full the handler blocks. `WindowBound` is tight: a full
bucket, a buffered tick, a tick that `refillLoop` had received and the tick of the second
itself make up to four times the configured rate in one second. An order that is over with
a status `mapping.go` does not list is reported `Pending`, and stays so.

## 6. What is proved

`tlapm M.tla` checks everything in `M`, for each of the eight modules `*Proofs`. The
only assumptions are those on the constants: callers, connections and loops have
different names (`ActorsAreDistinct`); no symbol is called `"order"` or `"events"`, and
capacities are positive (`SymbolsAreNotFixed`, `BoundsAreNatural`); orders, positions,
coins and instruments are different things (`KindsOfThings`, `NoneIsNoRequest`); numbers
are numbers (`RequestedIsInt`, `MaxTicksIsNat`, `TimesAreNumbers`). The bounds that keep
TLC's instances finite (`MaxSessions`, `MaxMessages`, `MaxTicks`, the clock) are
constants of the theorems too, of any size.

**WebSocket client.** `TypeInvariant`, `NoLostWakeup`, `NoLeakedSocket`,
`LossAnnouncedOnce`, `LoopsSafeFromClose` and `TopicsSurviveReconnects` hold of
`Spec` for every set of callers, connections and topics. None of the invariants is
inductive alone. `IInv` is built in layers, each proved preserved from those before it, one
lemma per group of actions:

1. `TypeOK`;
2. `PlacesOK`: which labels each kind of goroutine can be at;
3. `ChannelsOK`: when Close is over, a reader or a loop is not running, or was started by
   a `Connect` that raced with Close and is at a point from which it leaves without
   publishing; so only callers can reach `panic`;
4. `SocketsOK`: `connected` and `conn` agree, the current connection is not closed,
   and every open one is owned (`SocketOwned`);
5. `WakeupPending`, which needs that whoever forgets the connection is past `Mark`
   and will trigger, and that a token in `reconnectCh` is only taken by the loop;
6. `HeldOK`: a goroutine that reads, writes or gives up a connection holds one, which
   therefore is not taken for a fresh object;
7. `LossOK`: the connection of a goroutine about to publish has not been announced,
   is not current, and is held for publication by no other (`AnnouncedOnce`);
8. `TopicsOK`: `TopicCoverage`, and a subscriber has one topic to send.

**Refinement.** `Refinement` states `Spec => ImplementsStreamLink`, for every set of
callers, connections and topics. One lemma per group of actions maps its steps to
a step of `StreamLink` or a stutter, under `IInv` and one more invariant, `SentOK`:
nothing counts as sent without a connection, and what a goroutine is about to send
is remembered. From `IInv` come
the hard cases: a goroutine that gives up the current connection owes nothing yet
(`HeldOK`, `LossOK`), and nobody counted owes anything when `Close` ends
(`ChannelsOK`).

**Rate limiter.** `RateBound` follows from `Ledger`: tokens left plus tokens granted
are at most a full bucket plus one for each refill of the window, and refills are at most
the ticks of the window and two that were there before, one buffered and one in the hand
of `refillLoop`, less those that are still there.

**Connector.** Four layers.

1. `TypeOK` and `HandOK`: a handler has a message in hand exactly while it reports or
   delivers one, and a session still to come is untouched. They are inductive together:
   delivering reads the topic of what is in hand.
2. `ChanOK` (`TickersHaveChannels`): channels never go away (`ChannelsStay`), and a
   topic is remembered by a client only after its channel was registered, whatever
   happens between the registration and the subscription.
3. `LifeOK` (`NoPanic`, `ReleasesSubscribers`), as long as there is no second life: before
   Disconnect takes the lock no channel is closed; then one caller alone is inside
   Disconnect, and holds every channel given out before; it closes them when the
   handlers are gone, and with the context cancelled none starts again. A caller of
   Subscribe may pass all of this at any point.
4. `FlowOK` (`MessagesInOrder`): `c.mu` excludes two connections being made at once
   (`MutexOK`); until Disconnect only the current session has a reader, a client that is
   up, or anything queued (`Untouched`), so that the stale reads of `c.ws` find it too;
   the rest is about sequences (`MoveOn`, `SettleOn`).

`StreamsAreLines` states `Spec => ImplementsUpdateStream`, for every set of callers and
symbols and all capacities. It needs three invariants more, on top of those layers:

- `HeldOK`: a handler delivers only updates, into a channel that exists, and reports only
  malformed messages;
- `OverOK`: in one life no relay runs before `Connect`; once the context is cancelled,
  a client that is still up is the one that a caller inside Disconnect is about to close;
  and when no caller is inside Disconnect any more, the channels are closed;
- `SendOK`: who is about to subscribe has seen a client.

One lemma for each group of actions then maps its steps. `LifeOK` gives that a handler
finds no channel closed (`HandlersRun`), and `FlowOK` that, while the connector is up, only
the current session's handler has anything to settle (`OnlyCurrent`).

**RestClient.** `IInv` has five parts.

1. `TypeOK`: a reply has the elements its request asks for, an answer the words of its
   method.
2. `Progress`: what request, wire and answer are at each stage of a call; in particular a
   `SubmitOrder` whose request outlives it has told its caller that it is in doubt.
3. `Book` (`NoGhostOrder`, `RetryIsSafe`, half of `AcknowledgementsAreReal`): each order on
   the book has one maker, whose request was handled once; one order for each client order
   identifier; an acknowledgement has its order.
4. `SeenOK`: while a call runs its history holds what is true now, and an order seen
   in a final state keeps that very state, listed or not.
5. `Truth`: a reply on the wire, and then the answer, is true of what was seen. The lemma
   `DecodeTrue` is about the decoders alone: whatever each method returns for a reply that
   is true is true, malformed elements and empty lists included. The three last theorems
   follow.

`CallsAreAtomic` states `Spec => ImplementsAtomicAccount`, for every set of calls and things.
`Truth` is too weak for it: that each element was true at *some* moment of the call does not
make all of them true at *one*. It rests on

- `DecodeExact`, about the decoders alone: what a method returns for a reply is either
  "malformed" or exactly the answer that the reply's words call for (`Exact`), so no
  element is dropped, added or read as another;
- `ListReal`: a list that leaves out nothing but zeros decides what the account would
  answer at that instant; so the step in which the exchange handles a request is the one
  `Look` (`ListDecides`);
- `RepliesReal`: a reply on the wire holds only what its request asked for and what there
  was, and `Answered`: a call that is back has something to conclude.

That a retry places no second order, and that a request left on its way belongs to a call
in doubt, are `Book` and `Progress`.

**DNS cache.** `AgeBound` needs that a lookup under way is not older than `MaxDelay`, an
answer to be stored not older than its lookup and `MaxPause` (`LookupsOK`), and that an
entry expires at most `MaxTTL` after both (`EntryOK`), which `NewDNSCache`'s cap on the
ttl gives.

**Only model-checked**: all liveness properties (the prover does not reach them) and the
four violations.

## 7. Not modelled

- Time in the WebSocket client, the connector and the REST calls: deadlines
  and delays are nondeterministic choices, so how long `Close` may wait for a dial
  is not stated.
- The order of the stream events and the contents of frames. `Disconnected` may be
  published after the `Reconnected` that follows it; the repository promises no
  order, so there is nothing to check it against. Objects of a frame beyond the
  first are dropped by `firstMap` and do not exist in the model.
- Words that no property tells apart: side, order type and time in force in requests and
  replies, signatures, headers, prices.
- Paging of the exchange's lists, which the code does not use. That a list is one view
  of the account rests on `List`, external, being one action.
- Replies without a `retCode`: the code ignores the HTTP status, and a JSON body without
  that field decodes as code zero, so `CancelOrder` would take it for a success
  (`bybit/orders.go`, 102 to 111). Every reply of `RestClient` carries one, and
  `AcknowledgementsAreReal` rests on it.
- The panic of `sync.WaitGroup` when it is reused while a `Wait` returns, which a `Connect`
  racing with `Close` could meet: `WgZero` only looks at where the goroutines are.
- Open orders with a status the code does not list are outside `OpenOrdersComplete`.
- `ProxyConfig.URL`, `NewClient` and `ValidatePermissions` of `pkg/connectors/bybit`:
  pure functions of a few flags. `bybit/client_subscriptions.go`: methods that only
  return an error. CI scripts.

`PROJECT.json` lists the hazards of the code with the properties that cover
each, or the reason why none does.
