# TLA+ models of TKO

TKO is the exchange foundation of a trading program for Tokocrypto: REST client,
two WebSocket streams, an in-memory account state, and a gate that validates order
intents. It places no orders yet. Everything it has is there to answer one question,
"may an order be sized and sent now?", and to answer *no* whenever it is not sure.
This directory models the parts that give that answer.

## 1. Inventory

| part | state it keeps | operations | hard about it |
|---|---|---|---|
| account store `runtime/state/store.py` | phase, reconciliation status, snapshot, open orders, time of the last event, id window, version | `apply_rest_snapshot`, `begin_live_streaming`, `apply_private_event`, `mark_*`, `restart_clear`; readers `get`, `balances_for_risk`, `requires_rest_resync`, `version` | nine writers set phase and status one by one, three readers judge by different ones |
| event normalisation `runtime/state/events.py` | none | `normalize_private_event` | what identifies an event; unknown events raise |
| reconciler `runtime/state/reconciler.py` | locals of `full_resync` | `full_resync`, `on_ws_disconnect`, `on_ws_reconnected` | reads, waits for REST, then writes, without a lock |
| public market socket `websocket/public_ws.py` | state, time of the last message, socket, stop flag, receiving threads | `connect`, `disconnect`, `subscribe`, `unsubscribe`, `mark_message_received`, `force_state`, `_recv_loop` | threads outlive their connection and share its successor's fields |
| private user stream `websocket/private_ws.py` | state, token, socket, stop flag, receiving threads | `create_listen_token`, `subscribe`, `unsubscribe`, `mark_unsupported`, `force_state`, `_recv_loop` | network calls without the lock; answers that nobody reads; expiry |
| market structure gate `governance/market_structure/` | the table of instruments | `set_instruments`, `validate` | order of checks, absent and zero limits, texts that are no numbers |
| symbol router `symbol_router.py` | none | `classify`, `route_for_symbol` | searches a list where the gate looks up a table |
| execution readiness `execution_readiness.py` | none | `evaluate_execution_readiness` | reads three live components one after the other |
| REST client and parsers `rest/` | an HTTP client | four GETs | what a malformed answer becomes |
| runtime proof `scripts/p0_runtime_proof.py` | a report | `run_proof` | polls a state that another thread writes, and leaves by exceptions at every call |

How they interact. The receiving thread of the private stream calls `on_event`, which
an application connects to `store.apply_private_event`. Some thread of the application
calls the reconciler when the stream comes up, when it is lost, and when the store asks
for a resync; the reconciler makes two REST calls and writes the store. Readers (risk,
readiness) read the store and the states of both streams at any time. The store is under
one lock, each stream under another, the reconciler under none. `src/` has no module that
wires them up but the proof script, so the order in which threads call is the environment's choice here.

What makes the parts correct: the store shows balances only after a REST snapshot and never
after a fault that came later; an open store holds the account that the exchange holds;
a stream that says it is connected is connected; the gate passes what the filters ask
and nothing else.

## 2. Modules

| module | models | extends |
|---|---|---|
| `PrivateEvents` | the messages of the private stream, their ids, the id window's step | |
| `EventIdWindow` | deduplication on its own, with a history of what was let through | `PrivateEvents` |
| `FailClosedGate` | abstract: what the risk layer may see, and when | `PrivateEvents` |
| `AccountStore` | the store, one action per method | `PrivateEvents`, instance of `FailClosedGate` |
| `AccountReconciler` | reconciler, store, exchange account and stream together | `AccountStore`, instance of `Parsers` |
| `PublicMarketWS` | public socket, its subscriptions and its threads | |
| `PrivateUserStream` | private stream, its threads, tokens and the server | |
| `LiveAccount` | private stream feeding the store, under an owner that reconnects and resyncs | `AccountStore`, instance of `PrivateUserStream` |
| `Parsers` | what the REST client makes of an answer: envelope, symbols, balances, orders | |
| `SymbolRouter` | classification and search of an instrument | |
| `DecimalRules` | price, quantity and notional rules | |
| `MarketStructureGate` | the gate's verdict, with reference definitions of what it should be | `DecimalRules`, `SymbolRouter` |
| `ListedMarket` | from the exchange's list of symbols through parsers and table to a verdict | `MarketStructureGate`, instance of `Parsers` |
| `ExecutionReadiness` | the readiness report, reading by reading, on a live public socket | `PublicMarketWS`, `SymbolRouter` |
| `RuntimeProof` | the proof script over a private stream and a store | `AccountStore`, instance of `PrivateUserStream` |
| `EventIdWindow_proofs`, `AccountStore_proofs`, `PrivateUserStream_proofs` | the theorems about one component | the module they are about |
| `ListedMarket_proofs` | the theorems about the gate, and about the way from the exchange's list to its verdict | `ListedMarket` |
| `AccountReconciler_proofs`, `LiveAccount_proofs`, `RuntimeProof_proofs` | the theorems about a composition with the store | the module they are about, `AccountStore_proofs`; the second also an instance of `PrivateUserStream_proofs` |
| `ExecutionReadiness_proofs` | the theorems about the readiness report, and about the public socket it runs on | `ExecutionReadiness` |
| `MC*` | instances for TLC | the module they instantiate |

Definitions named "Mutant of ..." are wrong versions of the definition after them. Nothing
uses them; each is there to show that a property is not true of every program: put in the
place of the original, it makes TLC find that property violated.

### State and actions against the code

**AccountStore.** `lifecycle`, `status`, `snapshot`, `openOrders`, `lastEventAt`, `source`, `seen`
and `version` are the fields of the same meaning; `baseline` is a history of REST snapshots.
Since all methods hold one RLock, each is one action; the phase SNAPSHOT_LOADING, set and left
within `apply_rest_snapshot`, is therefore never seen (this is part of `PhaseMatchesStatus`).
`apply_private_event` is four actions, one per path through `_apply_normalized`: ignored
(duplicate, or not normalisable and raising), end of stream, before a baseline, reduced.
Payload data are abstracted: an amount stands for a (free, locked) pair, a view for what
a report says of an open order, `restFields` for the fields that only REST knows. Messages
carry symbol, side and status, so the fallbacks to the known order are not needed.
`apply_normalized` is `apply_private_event` without the conversion and has no action of its own.

**AccountReconciler.** `full_resync` is cut where another thread can act: read the store, GET account,
GET orders, apply, or on an exception mark, mark again and raise. Balances and orders of the
two GETs are read at different moments, and come in one of the shapes that `Parsers` reads, or with an
error code. The conflict check decides nothing (both branches
apply), but its `float()` can raise; the model keeps that. The exchange changes its account
with a new timestamp each time, reports while the stream is up, loses any number of the last
reports when it goes down, and may end the stream. `calls` is the queue of callbacks. With
`Serialised` one application thread runs callbacks and resyncs; without it they interleave.

**PublicMarketWS, PrivateUserStream.** A receiving thread has a program counter at each point where
another thread can act: test of the stop flag, test of the socket, second reading of the socket,
waiting in `recv`, message received, exception, report. `connect` of the public socket is one
action because it holds the lock; `create_listen_token` and `subscribe` of the private one
are several because they do not. The age of a message is fresh or old. `recv` may raise at any
moment: closed, silent for a second, or entered by two threads. CONNECTING is left before the
lock is released as long as the base URL starts with `ws`, which is assumed. The private `subscribe` has the lock at its
beginning and when it writes SUBSCRIBED, and `unsubscribe`, `mark_unsupported` and `force_state` need nothing but the lock: with `OtherCallers`
they are called at any step of a `subscribe` under way; without it one thread makes all calls (`MayCall`). Two threads in `create_listen_token` or
`subscribe` at once are not modelled. The server of each public
connection keeps what it was asked for (`asked`), beside the list the client keeps (`subscriptions`).

**LiveAccount.** The variables of the stream and of the store, and an exchange whose balance changes. Each
socket reports the changes after its acceptance (`next`); each receiving thread holds the event it took (`held`)
and applies it to the store in `CallOnEvent`, which is one step with the store's. The owner is not in the
repository: it does what the parts ask for, `on_ws_disconnect` when `stream_state` is not SUBSCRIBED or when it gives the stream up
to subscribe anew (`GiveUp`, which is how threads of the first subscription are left over), then `unsubscribe`, and `subscribe` and a resync in one of
two orders. As the name of `on_ws_reconnected` has it, the resync comes last; `docs/CONTRACT_LOCK_P0.md:85-88` has
"REST RESYNC -> WS RESUBSCRIBE", which is `ResyncFirst`. `basis` is a history: how many sockets had been opened at the resync that the store stands on.
`Filtered` says whether `on_event` is a filter before the store or
`apply_private_event` itself; in the second case which kinds raise is taken from `Normalizable`.

**ExecutionReadiness.** One action per reading: state of the public socket, its state again, the age of its last message
(`is_ready_for_execution` takes the lock twice), state of the private stream, and the account, which the caller copied
before. Between two of them any step of the public socket's model, the private stream or the store may happen.

**RuntimeProof.** `stage` is the place in `run_proof`; each flag of the report that is True is in `verified`. The first stream
of the script only requests a token and is dropped; the second is an instance of `PrivateUserStream`, whose receiving
thread and server run beside the script. The deadline of the polling loop may be past at any moment.

**MarketStructureGate, ListedMarket.** Prices are integers in smallest units, with what else `Decimal` accepts (infinities,
NaN) or rejects as values of their own. The checks are one chain in the code's order. A call
is one action: `validate` reads the table of instruments once per key and calls nothing that changes.
`ListedMarket` makes the table from answers of the exchange: JSON values are records that say what they are, and
`Parsers` looks up names in them as the code does: the first true one of several, a default for an absent one, the
text "None" for a null limit. Instruments keep the position they have in the answer, so that the last of two symbols of one
name decides for the table and the first for the router. An answer that is a bare list, or that has a filter which is no object before the one
looked for, raises (`SymbolsRaise`), and the gate keeps the table it has; the others are `Loadable`. `ListingAssumption` says what is relied on of the loadable ones: each
pair is listed once (in whichever spelling), and with it each limit, NOTIONAL and MIN_NOTIONAL counting as one; every listed symbol has its name
and its filters, and a limit is a number, a text that is none, or null. The code checks none of it.

## 3. Runs

| run | shows |
|---|---|
| `window` | the id window holds exactly the latest ids, a redelivery within it is dropped, and what is dropped has a twin (`IgnoredHasTwin`) |
| `store` | `StoreInv`, `ReadersAgree`, `VersionCoversState`, and refinement of `FailClosedGate` |
| `resync_serial` | with callbacks and resyncs in one thread, an open, quiescent store equals the exchange (`Converged`); resyncs end; a lost stream closes the store |
| `resync_threads` | with two resyncing threads: from a reported failure to the next resync that succeeds, no balances (`BlockedUntilResync`) |
| `public_ws` | CONNECTED always has a receiving thread; dead sockets are noticed; the list of subscriptions covers what the server was asked for |
| `private_ws` | whichever threads call `unsubscribe`, `mark_unsupported` and `force_state`, and whenever: only an `unsubscribe` in the midst of a `subscribe` leaves SUBSCRIBED without a receiving thread (`OnlyUnsubscribeSilences`), and but for that SUBSCRIBED does not outlast the service (`LossNoticed`) |
| `gate` | PASS means admissible and admissible means PASS; exceptions only out of the filters; infinities stop at every maximum; the limits, ticks and steps sent by the exchange are those enforced; gate and router agree |
| `readiness` | a fault that lasts as long as the call is in the report, and every reason in it was true at some moment of the call |
| `proof` | the script ends and leaves no thread; its flags are a beginning of its list of checks; what VERIFIED vouches for |
| `live` | the owner calls in the contract's order: store and stream both ready only on a resync made since the last fault and right before the present socket was opened; a subscribed stream no longer served closes the store |

Runs that end in a violation, each a disagreement between the code and what a document or
comment of the repository says (`PROJECT.json`, "findings", quotes the line):

| run | the trace |
|---|---|
| `public_reopen` | a connection is ready by the age of a message of the one before |
| `live_ack` | the acceptance of a subscription, handed to the store, raises TypeError and ends the stream |

What else the models show, with no run of its own:

* Resyncs and events in different threads do not converge. `full_resync` applies its answers whatever was delivered since
  it asked: a loss reported between the answers and the application is overwritten and the store opens on what was read before
  the loss, where docs/CONTRACT_LOCK_P0.md:83-87 has the resync after it; an order whose
  closing is delivered between GET open orders and `apply_rest_snapshot` is put back. `resync_serial` shows that this
  goes right when the application runs every callback and every resync in one thread.
* Nor does the store converge when a thread of an earlier subscription is late: event times are never compared, so an older
  balance can replace the one of the resync. `live` shows only that such an event opens nothing. And a change between a
  resync and the server's acceptance of the subscription, which `subscribe` does not wait for, is not reported at all: in the
  contract's order always, in the other when the acceptance comes after the resync.
* `unsubscribe` of another thread between lines 103 and 110 of `subscribe` (private_ws.py) clears the socket and sets the stop flag; line 111 then writes
  SUBSCRIBED all the same, the thread started next ends at once, and nothing takes SUBSCRIBED back until somebody calls the stream again:
  `is_ready_for_execution` is true of a stream that is lost. `OnlyUnsubscribeSilences` and `LossNoticed` except this case and no other; `SubscribedHasReceiver`, which does not,
  is proved for callers that do not interleave.
* docs/CONTRACT_LOCK_P0.md:86-87 requires "REST RESYNC → WS RESUBSCRIBE → STATE RECONCILED". `apply_rest_snapshot` writes RECONCILED at once (store.py:105), and no other
  method does: in the contract's own order the store is RECONCILED, and shows its balances, before the stream is subscribed again, and stays so while the subscription fails. The readiness report
  closes the gap, as it asks for the stream as well; `OpenOnCurrent` says on which resync both are ready, and `LossBlocks` speaks of a stream once subscribed.
* `mark_stale` on a store without a baseline puts it in a phase that accepts events: `get().snapshot` is then built from an
  event alone, though store.py:40 says "snapshot is None until first successful REST apply". The readers stay closed.
* A bare list of symbols raises AttributeError at parsers.py:79, although the docstring accepts it, and so does a filter that is no object
  at line 17, for the whole list. The table stays as it was.
* Without a market state, or with metadata of unknown age, the gate skips these checks; `Healthy`, its reference, does so too.
* The time a token expires is stored and never read. A subscription is SUBSCRIBED before the server answers and after it
  refuses, until `recv` times out; so the proof script can report VERIFIED on a refused subscription.
  The script does not call `unsubscribe` when `subscribe` raises.
* A ready report does not mean that everything was ready at one moment: it is put together over time. The account it judges
  is a copy from the beginning of the call.
* An account answer without a list of balances is an account without balances, and is applied as one.
* Of NOTIONAL and MIN_NOTIONAL listed together only the first is enforced.
* Two different account events of one millisecond with equally many balances share an id and the second is dropped, though no duplicate (store.py:41).
* `on_event` never gets the end of the stream: the store's branch for it is not reached by way of the loop.
* An infinite price or quantity passes a filter whose maximum is 0; and with `require_lot_filter` off an instrument that has
  only MARKET_LOT_SIZE gets its market orders unchecked.

### Bounds, and why they are enough

* `AccountStore` has no bound but two wrap-arounds: the version is kept modulo `Versions` = 2
  (enough to tell "moved" from "not moved") and the history of baselines alternates between 1 and 2. Two
  assets, one order, one message of each kind and two of the reported order cover each path and
  each combination of known and unknown asset and order.
* `EventIdWindow`: a window of 2 and `MaxAccepted` = 6, so that it overflows several times. Five
  messages, two of which share an id.
* `AccountReconciler`: two changes of the account (`MaxUpdates`), three waiting callbacks (`MaxCalls`): enough
  for an order to open and close, or open while a balance changes, around one resync; with two resyncing
  threads one change and two callbacks, because what matters there is the interleaving of the
  resyncs with faults. `low`, which is also `Zero`, and `high` are the amounts; `Unparsable` = {high} in `resync_threads` makes `float()` fail on some snapshots. The two threads are interchangeable, and `resync_threads`
  uses that symmetry (it checks an invariant only).
* `PublicMarketWS`, `PrivateUserStream`: two connections, so that the thread of one meets the next; two
  tokens, so that a token can be replaced; one stream to subscribe to, as streams do not influence each other. In the passing
  runs the owner may make any call after any other (`CarefulCaller` = FALSE), and other threads may besides call in the midst
  of a `subscribe` (`OtherCallers`); in `public_reopen` it connects only when it is not
  connected, so that the trace does not rest on a careless owner. `force_state`, which only tests call, is exercised with states
  that claim no connection: CONNECTED and SUBSCRIBED by force are claims the code cannot make true, and
  a forced STALE of the public socket would be turned into CONNECTED by any late message.
* `LiveAccount`: two subscriptions, so that a thread of the first meets the second, one token, which may expire, and one
  change of one balance (no property compares two changes). `live` resyncs first and `live_ack` last; `OpensOnCurrent` is proved for both. When the bound on subscriptions is reached the owner has nothing left to do: deadlock is not checked.
* `ExecutionReadiness`: one connection that may be lost at any moment, with its thread outliving it; the two kinds of symbol,
  private stream and account each in order or not, and calls given all three parts or the private stream only. A second
  connection multiplies the states by more than thirty and adds no reading.
* `RuntimeProof`: one run of the script, with one subscription as in the code; the account has one asset or none. It stops at its
  end, so deadlock is not checked.
* `ListedMarket`: two spellings of a symbol, two shapes of the answer and two names of each renamed field; values below, at, between and above every limit; limits absent, 0, in force
  and unreadable; every connection state and age. Both filters are required,
  as by default; the proof covers the other settings.

### Fairness

`AccountReconciler`: weak fairness of every step of a resync, as both REST calls have the HTTP client's
time-out of 15 s (`client.py:34`), and of the delivery of callbacks. Nothing forces a resync to be requested.
`PublicMarketWS`, `PrivateUserStream`: weak fairness of every receiving thread, as `recv` has a time-out
of one second (`public_ws.py:131`, `private_ws.py:158`), and of a `subscribe` under way. `on_event` and
`on_message` are assumed to return. `LiveAccount` adds weak fairness of the owner, each of whose calls returns or raises, and
`RuntimeProof` of the script, whose calls have time-outs and whose loop has a deadline. Elsewhere nothing forces an owner to call, a server to answer or a peer to close.

## 4. Proofs

The proofs hold for any sets of assets, amounts, orders, messages, instruments and threads, and for any size of
the window, modulus of the version, number of connections, subscriptions, tokens, changes and waiting callbacks:
the bounds of section 3 are the runs' only.

**Events and store.**

* `EventIdWindow_proofs`: `TypeCorrect`, `WindowIsRecent`, `NoReplay`, `OnlyTwinsIgnored`. `SeenIsRecent` says that the window is the end of
  the accepted sequence, which `Remember` keeps (lemma `RememberProperties` gives the length and elements
  of what it returns). `NoReplayInWindow` follows step by step: an accepted message's id is not in the window,
  hence differs from the ids of the last `MaxEventIds` messages. `OnlyTwinsIgnored` follows from the second: an id in the window
  is that of an accepted message, and messages with one id agree in kind, time, order and trade (`SameIdTwins`).
* `AccountStore_proofs`: `StoreInvariant` proves `StoreInv` = `StoreTypeOK /\ PhaseMatchesStatus`. The second part is the
  strengthening: `ReadersAgree` alone is not inductive, because it does not say that an open phase has
  a snapshot when a status is written. `ReadersAlwaysAgree` follows from it, `VersionCovers` needs that the version is in
  range so that a bump moves it, and `StoreRefinesGate` maps each action to a step of `FailClosedGate`: a REST
  snapshot to `Resync`, events that change a visible table to `StreamUpdate`, faults to `Fault` or, when nothing
  was visible, to a stutter.

**Compositions with the store.** Each is shown to implement `StoreSpec`: what it hands to the store is
what the store's methods take. So `StoreInv`, `ReadersAgree`, `VersionCoversState` and the fail-closed gate hold inside all of
them without a proof of their own; `ReconcilerFailsClosed`, `LiveFailsClosed` and `ScriptFailsClosed` draw the conclusion.
The two that contain a private stream are shown to implement that as well (`PrivateUserStream!Safety`).

* `AccountReconciler_proofs`. For `ReconcilerImplementsStore` and `ReconcilerTypes` the parsers must be followed through every shape of answer:
  lemmas say that balances and orders written into an answer are the ones parsed out of it.
  `FailureBlocks` (`BlockedUntilResync`) rests on `BlockInv`: after a failure the status is not RECONCILED, and only
  `Apply`, which ends the blocking, writes it. The invariant speaks of the status alone and not of any thread,
  which is why it holds for any number of resyncers.
  `Convergence` proves `Converged` under the hypothesis `Serialised`; without it the property is false (section 3).
  `Converged` is not inductive: it says nothing while callbacks wait. `SyncInv` does. Callbacks wait in the order of their times,
  and younger than what has been seen, so that none is dropped for a duplicate. Behind the last marker (loss, end
  or return of the stream) in the queue, the last message about an asset or an order says what the exchange holds.
  When no marker waits, an asset or order that no waiting message is about is, in an open store or in what
  the resync under way has fetched, as the exchange has it. A marker therefore may only leave the queue by closing the store or by beginning
  a resync, and this is what `on_ws_disconnect` and `on_ws_reconnected` do.
* `LiveAccount_proofs`: `OpensOnCurrent`, for either order of the owner's calls, from `OpenInv`: while the status is RECONCILED, an owner who resyncs last is watching or
  about to report a loss, and the socket is the one the resync was made on; one who resyncs first has opened at most one socket since, and exactly one when it
  watches. For the second `OwnerInv` says that no call of the stream is under way while the owner resyncs, and that the state is SUBSCRIBED only between a
  subscription and its undoing. No step of a thread writes the status but to close the store
  (lemma `EventNeverReconciles`). `LiveImplementsStore` needs `HandedInv`: a thread that has an event in hand holds a
  message, and the owner about to apply a snapshot holds balances. `LiveImplementsStream` needs that the owner subscribes with a
  token that was issued (`TokenInv`). `LiveStaysHeard` then takes `SubscribedHasReceiver` from `PrivateUserStream_proofs`, through an
  instance of that module: a stream that says SUBSCRIBED has a receiving thread while it feeds the store.
* `RuntimeProof_proofs`: `FlagsComeInOrder` from `FlagsInv`, which ties the number of flags to the stage of the script; `VerifiedVouches`
  from it, from `SubscriptionInv` (how far the one subscription has come, and that the only socket that may be open
  is in `_ws` from the end of `subscribe` until `unsubscribe`) and `ClosedInv` (the store's baseline and status after the two calls); `ScriptImplementsStore`, and `ScriptImplementsStream` from `SubscriptionInv`.

**Streams and readiness.**

* `ExecutionReadiness_proofs`: about the public socket `PublicTypes`, `ConnectedAlwaysHeard` and `NothingEverUnasked`. `ReceiverInv` adds to
  `ConnectedHasReceiver` that the stop flag is down while the state is CONNECTED (else the thread at its test would end)
  and that the state is never STALE (else a late message would make it CONNECTED without a socket); `AskedInv` adds to `NothingUnasked` that the server of a
  connection not yet opened was asked for nothing. About the report `FaultsAreReported` and `ReasonsWereTrue`, from `ReportInv`: at each
  place of the call, what each reason collected or not collected so far says of the moments gone by. `ReadinessImplementsSocket` says that the report
  runs on the public socket as it is, so that what is proved of the socket holds under it (`ReadinessStaysHeard`).
* `PrivateUserStream_proofs`: `PrivateTypes` and `SubscribedAlwaysHeard`. Types alone are not inductive: a token request or a subscription under way
  must have room left within the bounds of the model. `SubscribedHasReceiver` needs that the stop flag is down from the start of `subscribe` on, which holds
  while nobody else calls (`~OtherCallers`). `SilencedByUnsubscribeOnly` does without that hypothesis: the flag may go up at any step, and `HeardInv` adds that
  while it is down the socket in `_ws` is the one that the `subscribe` under way has opened.

**Gate.**

* `ListedMarket_proofs`, about the gate on any tables: `PassMeansAdmissible`, `PassMeansBounded`, `AdmissibleAlwaysPasses`, `RaisesLast`. A reason "NONE" means that each check agreed; the arithmetic part
  is that no remainder means a whole number of steps, and for the converse that a whole number of steps leaves none (`NoRemainder`). The invariant says that a call's reason was computed from its
  arguments and the instrument looked up. For the second theorem a value that no rule refuses is shown to be a number, or
  plus infinity where the rule has no maximum; for the last, that rules one can calculate with never raise on a number (`ReadableRules`).
  The same module goes on with tables made of the exchange's lists: `ListedGateHolds` carries the four over to them.
* `GateAgreesWithRouter` (`RouteAgrees`) and `SentLimitsEnforced` (`SentLimitsHold`) follow a listed symbol through the parsers and
  the table (`ListedInv`: the table is the one made of the latest answer, and a call has looked its instrument up in it). What the gate
  has found is at one position of the list (`PassedIsListed`), which the assumption makes the only one of its name (`SymbolOnce`); there the router finds it too.
  A filter sent at that position is the one that `_filter_by_type` finds (`SentIsFound`, `SentNotionalIsFound`), its texts become the limits of the rule
  (`ParsedRule`, `ParsedNotional`), and an order that conforms to the rule is within the numbers sent, on their ticks and steps (`ConformingIsWithin`, `WorthIsWithin`); that it conforms is
  `PassIsAdmissible`. `SentLimitsEnforced` supposes `RequireLot`, the gate's default: without it a market order for an
  instrument with MARKET_LOT_SIZE alone passes unchecked, and the statement is false.

Assumptions are the ASSUMEs of the modules: the types of the constants, that `None` and the special values are not mistaken for data, for the reconciler that
there are finitely many assets and orders (an answer lists them) and that 1 is an error code, and for `ListedMarket` what section 2
says of the exchange's lists. TLC evaluates them in the runs of the same modules. The theorems `ConnectedAlwaysHeard`, `ReadinessStaysHeard`,
`SubscribedAlwaysHeard` and `SilencedByUnsubscribeOnly` have a hypothesis on `ForceStates`, the states `force_state` may be called with: no
CONNECTED or STALE for the public socket, no SUBSCRIBED for the private one. `SubscribedAlwaysHeard` besides has `~OtherCallers`. Nothing but tests calls `force_state`, and the runs
make the same choice.

Every invariant and every action property of the passing runs is proved. Only model-checked are the liveness properties (`ResyncEnds`,
`LossCloses`, `DeadSocketNoticed`, `LossNoticed`, `LossBlocks`, `ScriptEnds`), which are outside what the prover does.

## 5. Not modelled

Signing and credentials (cryptography), conversions of numbers in the parsers, the server time, HTTP itself, payload field
names of stream events and their fallbacks, wording of reasons, reports and logs, the command line of the script, the
subscription id, display rounding, Decimal's limit of 28 digits, and the empty packages `governance/execution`, `readiness` and
`risk`. The clock is "fresh or old" and "expired or not". A malformed account answer is what `Parsers` says (no balances), but the
modelled exchange does not send one. `force_state` to a state the code could not make true is not called.

## 6. What could follow

All components with state have their modules, and every safety property is proved. What is left is tied to the code's own
growth: orders are not placed yet, and nothing in `src/` wires stream, store and reconciler together. When it does, the
choices that are the environment's here (which thread calls, when a resync follows a reconnect) become the code's, `LiveAccount` and
`AccountReconciler` can be joined, and the hypothesis `Serialised` of `Convergence` can be checked against it.
