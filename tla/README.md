# Verification of feed-core

TLA+ models, TLC runs and TLAPS proofs for *feed-core*, a Go program that takes
market ticks from two providers (Twelve Data and Massive/Polygon), lets an
*arbitrator* decide per symbol which provider is heard, and fans the result out
to WebSocket and TCP clients.  Paths below are relative to the repository.

    TwelveAdapter --\                                   /--> WebSocket clients
                     >-- adapterChan --> Arbitrator --> hubChan --> Hub
    MassiveAdapter -/                                   \--> TCP clients

Everything between two parts is a Go channel.  Each adapter connection has a
reader and a pinger goroutine; the arbitrator has one goroutine; the hub has a
registration loop, a broadcast loop and, for every tick and client, one
goroutine that sends; each client has a reader and a writer.  `main` starts all
of them and stops them again without waiting for most of them.

## Inventory

| Component | State | Operations | Hard behaviour | What makes it correct |
|---|---|---|---|---|
| Configuration lookups (`internal/config/config.go`) | four symbol lists, event types, primary provider | lookups by symbol, subscription lists | two formats, wildcard | lookups agree with what the adapters subscribe to |
| Tick (`internal/models/tick.go`) | fields of a tick | conversions, JSON | units, omitted fields | nothing but the source is lost on the wire |
| Adapters (`internal/ingestion`) | connection, status, reconnecting flag | connect, subscribe, read, take messages apart, ping, reconnect, stop | failures half way, reconnect against ping and Stop, bad elements in a message, batches | one connection at a time, one writer, recovery, a clean stop; one tick per priced event |
| Arbitrator (`internal/engine/arbitrator.go`) | last primary tick per symbol, statistics, tick in hand | receive, handle, publish, stop | decision used after it was made, full channels, clock | the silence rule holds when a tick leaves; nothing vanishes uncounted |
| Hub (`internal/engine/hub.go`) | map of clients, counter, lock, two channels | register, unregister, broadcast, stop | two channels reordered, repeated unregistration, one goroutine per tick and client | counter exact, a client in once and out once, no silent gap |
| WebSocket and TCP clients (`internal/server`) | closed flag, send channel, connection | accept, greet, send, close, read, write | Send against Close, slow or dead peers | no use of a closed channel, dead clients evicted, greeting first |
| Main program (`main.go`) | the two channels, the order of everything | start, shutdown | channels closed under their senders, waiting for the accept loop | no send on a closed channel, a signal ends the process |
| `websocket-client.html` | – | – | – | manual test page, not modelled |

## Modules

| Module | Models |
|---|---|
| `Config` | the lookups and subscription lists, as operators on a configuration record |
| `Ingestion`, `MCIngestion` | configuration to ticks: subscription, messages, event handlers, JSON |
| `ProviderSession`, `MCProviderSession` | one adapter connection, Twelve Data or Massive |
| `FailoverFeed` | *abstract*: what the arbitrator promises, on the feed of emitted ticks alone |
| `Arbitrator`, `MCArbitrator` | the arbitrator and the channels around it; implements `FailoverFeed` |
| `HubMembership` | *abstract*: a client joins once, leaves once, and Stop empties the hub |
| `ClientHub`, `MCClientHub` | the hub with the life of its clients; implements `HubMembership` |
| `TickStream` | *abstract*: the program as a stream of ticks from sessions to clients |
| `FeedCore`, `MCFeedCore` | all parts together, from start-up to exit; implements `TickStream` |
| `ConfigProofs`, `IngestionProofs`, `SessionProofs`, `ArbitratorProofs`, `HubProofs`, `FeedProofs` | theorems about the modules above |
| `ListLemmas` | facts about lists of any length that the theorems on `Ingestion` rest on |

The parts overlap on purpose.  `ProviderSession`, `Ingestion`, `Arbitrator` and
`ClientHub` each look inside one stage and leave the others to their
environment; `FeedCore` has all stages and the channels between them, each stage
reduced to what it does to the ticks.

**Config.**  A symbol is a record of the pair, its market and the separator it
is written with, so that `ToTwelveFormat` and `NormalizeFromTwelve` are modelled
by what they do.  `TwelveDelivers` and `MassiveDelivers` are the providers: they
deliver what was subscribed, Massive on each connection for its own market only.

**Ingestion.**  A behaviour picks a configuration and one of the connections it
leads to, subscribes (Twelve Data batch by batch, Massive at once), and then
handles one message after the other.  A message is one element or a list of
them, which may hold lists; an element is an event of a subscribed pair, an event
without a pair, a status, or one that does not decode.  `inbox` is what the
recursion of `processSingleMessage` has still to visit.  The source of a tick is
its `source` field, units are the factors the handlers apply, and an event has
two numbers, which is what it takes to tell a price of zero, a quote with one
side missing and an aggregate without an open apart.  An event without a pair is
dropped by the handlers of Massive; `handlePriceTick` of Twelve Data checks for none
and makes a tick of no pair.

**ProviderSession.**  One program counter, `reader`, follows `connect` (run by
`Start`, then by `handleReconnect`), `readLoop` and `handleReconnect`; only this
goroutine assigns `conn`.  The pinger copies `conn` and the status under the lock
and writes afterwards.  `provider` says whose session it is: where `connected`
is set and whether there is an authentication step.  Delays are not modelled: the
reader may be asleep for any time between `Sleep` and `Dial`.

**Arbitrator.**  `processLoop` is three steps: `ReceiveTick` (take a tick, read
the clock, choose the handler), one of `HandlePrimaryTick`,
`HandleBackupOnlyTick`, `HandleFailoverTick`, `DropBackupTick`, and one of
`PublishTick`, `PublishToFull`.  Adapters, hub, clock and `Stop` act between any
two of them.  Time is `now`; the wall clock is `now + skew`, and the history
variables `heard` and `takenAt` repeat in elapsed time what the code records in
wall-clock time, so that properties can be stated about real silence.  `feed`,
`refused` and `overflowed` are histories too; `nextId` names the ticks.  `Skews` is the
set of errors the wall clock may have, and `SetClock` changes it at any time.  A
provider other than `massive` means `twelve` to the code; the model has the two.
The branch for an unknown source is left out: no adapter produces one.

**ClientHub.**  Ticks are counted, not told apart.  `Send` is two steps (the
flag, then the channel) and so is `Close` (the flag, then channel and
connection).  The registration loop's receive and its lock are one step: nobody
else takes from its channels, so a client in hand is like one still queued.  The
hub's lock is `mu`; the broadcast's read lock protects one read of the map and is
one step.  The TCP greeting and the first tick written are remembered in `wire`.

**FeedCore.**  `main` is a program counter over start-up and shutdown in the
order of `main.go`; a signal is the step from `"running"`.  A tick is named by its
session and its number in it (`[from, n]`), so that it can be followed through
`adapterChan`, the arbitrator's hand, `hubChan`, the goroutines of the broadcast
(`sends`), the client's channel and its connection.  Whether the arbitrator holds a
backup tick back is left open here (`Arbitrator` decides it).  A client's
`status` is its place in the hub and `"left"` is also its closed flag: `Close` is
one step, its race with `Send` being the subject of `ClientHub`.  After `Close` the
model's writer stops; the code's may take one more tick first.  `overlapped` is a
history of the ticks that were still being sent to a client when another was
broadcast.  Closing `adapterChan`, closing `hubChan` and returning are three steps of
`main`: goroutines still run between them, and may panic there.  `Next` requires
`Alive`: when `main` returns or a goroutine panics, everything ends.

## Runs

Passing runs:

| Run | Instance | Shows |
|---|---|---|
| `ingest` | a crypto and a forex pair, every configuration in a documented format, batches of 3, messages of up to two elements | subscriptions complete, lookups exact (Twelve Data) and complete (Massive), one tick per priced event in order, nothing lost on the wire |
| `arb_failover` | 3 configurations, 2 symbols, 4 ticks, 3 time units, input 2, output 1 | types, conservation of ticks, silence rule, refinement of `FailoverFeed` |
| `arb_clock` | 2 configurations, 3 ticks, 3 time units, a wall clock that runs one unit ahead at times, fair arbitrator | a decision on silence is wrong by no more than the difference of two clock errors; no blackout while the clock is exact |
| `hub_tcp` | one TCP client that may stall or leave, fair scheduling | greeting first, dead clients evicted, `Stop` returns |
| `hub_two` | two WebSocket clients, symmetric | exact counter, fate of every connection, refinement of `HubMembership` |
| `sessions` | either adapter, two attempts a round, three sockets, fair | one connection, status and writers, recovery, end of both goroutines |
| `feed_core` | Twelve Data and one Massive connection, one client, all channels of one place, 2 ticks, fair | no silent gap, overtaking only in flight, delivery or eviction, a signal ends the process, refinement of `TickStream` |

Violated by the code, each against a line of the repository:

| Run | Disagreement |
|---|---|
| `arb_clock_finding` | silence is measured on the wall clock; set back, it hides a silent primary |
| `hub_send_finding` | `Send` can use the channel `Close` has closed: a panic |
| `hub_count_finding` | an unregistration can overtake its registration; a closed connection stays in the map and in the count until ticks evict it |
| `session_writer_finding` | Twelve Data's heartbeat and subscription can be written at once |
| `feed_core_finding` | `main` closes `adapterChan` while a reader has a tick in hand: a panic |

The trace of `feed_core_finding` ends on `adapterChan`, the channel closed first.
`hubChan` is no different: `main` still has to log and return after closing it, and in
that window the arbitrator may publish (`ArbPanics`, a step that `feed_core` takes).

Known divergences that no run is spent on, because one line shows them:

* a Massive wildcard for one market makes the other market's symbols "in both
  sources" (`config.go:161-188`);
* the metric *Failovers* counts ticks and not activations (`arbitrator.go:193`);
* the failover tag of a tick, described to clients in `README.md:244`, is never
  sent: the source is left out of the JSON (`tick.go:43`);
* `p` is documented as the last trade price (`tick.go:46`) but is the mid price
  of a quote, halved when one side is missing (`massive_adapter.go:509, 560`);
* reconnecting never gives up (`massive_adapter.go:356-366, 685`);
* a reconnect asleep during `Stop` dials a connection nobody closes
  (`twelve_adapter.go:399-401`);
* a registration taken after `Hub.Stop` emptied the map leaves a client nobody
  closes (`hub.go:97-104`).

**Bounds.**  Channels have one or two places, which makes full, empty and
contended channels frequent; the code's 100, 256, 1024 and 10000 differ only in how
long it takes to get there.

* *Arbitrator*: `MaxTicks = 4` with `InputCap = 2` lets a tick be heard, age past
  the threshold, be replaced by a failover and be heard again; `MaxTime = 3` with
  `Threshold = 1` has silences below, at and above the threshold.  In `arb_clock` the
  errors of the clock are 0 and 1, so that a decision may be off by one unit either
  way, and a silence of three units is beyond any error.
* *Hub*: `MaxInflight = 1` bounds the goroutines sending to one client; with its
  reader, which unregisters it too, that gives two unregistrations of one client.
  Client ids are not reused in the code, so each client connects once.  In
  `hub_two` the peers only stall: for a WebSocket client no guard tells that from
  leaving.
* *Sessions*: three sockets are enough: the reader's, the pinger's and the one
  being dialled.
* *Ingestion*: up to four entries (two pairs in two formats) in batches of three
  give one full, one partial and no second batch; amounts 0 and 2 have the missing
  and the present figure; a message of two elements, one of them possibly a list,
  has every element before and after a bad one.  Amounts are even
  (`AmountsAssumption`): the code's mid price is a quotient of floating-point numbers,
  the model's is one of integers, so amounts are counted in a unit in which every mid
  price is whole.  With odd amounts a quote of 0 and 1 would have the mid price zero
  and be dropped, which the code does not do.
* *FeedCore*: two ticks are enough to overtake each other, to fill every channel
  and to repeat; two sessions share the channel.  The theorems below hold for any
  numbers.

**Deadlock.**  The systems here may stop (the tick bound, shutdown, a failed
start or a panic), so the runs do not check deadlock, except `ingest`, whose
connection always has another message to read; that nothing hangs is checked as
liveness (`StopReturns`, `StopLeaves`, `ShutdownEnds`, `NoBlackout`).

**Fairness.**  Goroutines that can run are run (weak fairness).  A goroutine
blocked on a channel is queued and served in turn, a lock is handed on, and a
`select` with several ready cases chooses at random, so these steps get strong
fairness.  A write to a stalled peer fails at its deadline.  `DeadEvicted` also
assumes that ticks flow: without them an idle TCP client that died is found by
the kernel's keep-alive only, which is not modelled.  `Recovers` assumes that of
infinitely many attempts to dial, authenticate and subscribe some succeed.  It
starts from a running reader: when the first connect fails, `main` goes on
without that adapter, as its log line says.  `ShutdownEnds` uses the fairness of
`main` and of `acceptLoop`, whose `Accept` fails once the listener is closed;
`DeliveredOrEvicted` that of the goroutines sending to the client, of its writer and of
the registration loop.

## Proofs

TLAPS proves, for all values of the constants:

* `ConfigProofs`: `TwelveLookupCorrect`, `MassiveLookupCorrect`, for every finite
  set of pairs.  The argument is that a list matches a symbol in internal format in
  either spelling exactly when its entries, converted for the subscription and back,
  contain that symbol.  `SubscriptionComplete`, for any batch size: in `SubscriptionInv`
  the batches written, put together, are the first `AskedFor` symbols of the list, and
  the loop is left only when that is all of them.
* `IngestionProofs`: `TypeCorrect`, `AnsweredInOrder` and `WireCorrect`, for messages
  of any of the model's shapes, any events and any amounts.  The properties speak of
  a handled message only; the inductive invariant `HandlingInv` speaks of one half
  handled: there is a list `done` such that the message's contents are `done` followed by
  the contents of `inbox`, and the ticks offered so far answer the priced events of
  `done`, one for one.  Unpacking a list inside the message leaves its contents alone
  (`ContentsHead`, `ContentsConcat`, `ContentsFlat`); handling an element moves it to
  `done`, and `ElementHandled` says, handler by handler, that it gives the tick
  `TickOf` describes if it has a price and nothing otherwise.  That Twelve Data's ticks
  are of the right market needs the configuration: a pair it sends was asked for, so
  it is in one of the two lists, and the lookup finds it in the forex list exactly if
  it is a forex pair (`TwelveEvent`).  `RoundTrip` is the JSON form: fields that are
  left out are the zero ones, which is what an absent field decodes to.
* `ArbitratorProofs`, for any clock: `TypeCorrect`, `Conservation` and
  `SilenceErrorIsBounded`.  Conservation is two sums, one over the way into a handler, one
  over the way out; each step moves one tick from one term to another.  The last one
  says how wrong the wall clock can make the arbitrator, for any set of clock errors:
  `SkewInv` keeps, for each symbol, that what was recorded of the primary differs from
  the moment it was heard by one of the errors, and for the tick in hand that the
  clock read differs from the moment it was taken by another, so that the measured
  and the real silence differ by the difference of the two (`SilenceIsClose`).  For a
  failover tick it keeps that bound until the tick is published, since elapsed time
  only grows and only the loop itself records the primary.
* `ArbitratorProofs`, assuming `Skews = {0}` (an exact clock; `arb_clock_finding`
  shows the assumption is needed): `FeedInvariant`, `DropsAreJustified` and
  `Refinement`.  The inductive invariant `FeedInv` says why a decision survives
  until it is used: only the loop itself records the primary, so between the
  decision and the publication silence can only grow (`DecisionHolds`); what was
  read from the clock is never in the future (`ExactClock`); and ids grow from the
  feed over the tick in hand to the input channel (`InOrder`).  The same invariant
  is checked by TLC in `arb_failover`.
* `SessionProofs`: `TypeCorrect` (an attempt is begun only while one is left),
  `OneOpenAlways` (everything is closed when a dial begins; `Down`),
  `StatusAfterStop`, and for Massive `MassiveStatus` and `MassiveWriters`, which
  fails for Twelve Data (`session_writer_finding`).
* `HubProofs`, for any clients (finitely many or not) and capacities: `TypeCorrect`,
  `NobodyIsForgotten`, `CountIsExact`, `GreetedFirst`, and `Refinement` of
  `HubMembership`.  None of these properties is inductive.  `LockInv` ties the lock to
  the client being closed: it is held by the registration loop from taking a client
  out of the map until its `Close` is finished, and by `Stop` while it closes the rest.
  `ClosedInv` says that flag and send channel of a client differ only within that
  section.  `PlaceInv` says that a registered client waits in the channel, once, or is
  in the map, or has been closed; with the other two it follows that a client enters
  the map once and is closed once, which is `NobodyForgotten` and, step by step, the
  refinement.  `CountInv` compares the counter with the size of the map and allows for the
  client removed but not yet counted down.  `GreetInv` orders greeting, reader and
  writer.  `Frame` lists which steps may change which part of the state, so that each
  invariant is proved for the few steps that concern it.
* `FeedProofs`: `TypeCorrect`, `Refinement`, `NothingMissedSilently` and
  `OvertakingIsBounded`.  For the refinement the inductive invariant has two parts.
  `OrderInv`: each session's ticks are sorted in every channel, and those in a later
  stage are older than those in an earlier one, so what the hub publishes next is
  younger than everything in `log`.  `SeenInv`: a tick on its way to a client is in
  exactly one of the sending goroutines, its channel and its connection, and all
  of them are from `log`, so the client is shown a published tick it has not seen.
  `NoSilentGap` is not inductive: nothing in it says that a client not yet
  registered has been sent nothing.  `GapInv` adds that, and that the part of `log` a
  client is owed starts within `log`.  `OvertakingIsBounded` rests on `OvertakeInv`:
  a tick queued behind a younger one was under way when that one was broadcast
  (`QueuedInOrder`), and what makes this last is that the same holds of a tick still
  being sent with a younger one already queued (`SendingExcused`).

`ListLemmas` proves what the community modules' `FlattenSeq` and `SetToSeq` give.  The
library's induction theorems take an operator as a parameter, which the provers
cannot instantiate; `SetInduction` states induction for a set of naturals instead,
which they can, and follows from the library's theorem that every non-empty set of
naturals has a least element.  `FlattenSeq` is a recursive function, so that a function
satisfying its equation has to be shown to exist first (`FlattensExists`).

Every invariant and every safety property of a step that a passing run checks is
thus a theorem, and so are the three refinements.  Only model-checked is liveness
(`NoBlackout`, `DeadEvicted`, `StopReturns`, `Recovers`, `StopLeaves`, `ShutdownEnds`,
`DeliveredOrEvicted`), since fairness and `ENABLED` are out of the prover's reach.  The
inductive invariants were checked by TLC, on the runs' instances and for the hub on
one with a client of each kind, before they were proved.

## Not modelled

Reading the configuration file and its defaults, which happens before anything
else runs; the HTTP upgrade, the keep-alive pings to clients and the read-only
endpoints; logging and metrics output; delays; the accessors and helpers nothing
calls (`GetSymbolStatus`, `GetAllSymbolStatuses`, `BroadcastToSymbol`,
`NormalizeFromMassive`, `NewQuoteTick`, `NewOHLCTick`, `Clone`, `Age`); the commands of
TCP clients, which are only logged.  Floating-point arithmetic is abstracted to
integers.  Whether Massive greets a connection before it answers the key,
which `authenticate` would take for the answer, is not decided by the repository.

## Plan

1. *FeedCore* with `Close` in two steps, so that the panic of `hub_send_finding` and
   the tick a writer may take after `Close` appear in the composition.
2. *Ingestion* with subscriptions that are refused, and configurations with
   entries in undocumented formats.
3. *Theorems* that say when the panics of `hub_send_finding` and `feed_core_finding`
   cannot happen.
