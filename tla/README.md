# Verification of the market data feed handler

TLA+ models of the feed handler's concurrent queue, its pipeline threads and
their lifecycle, its order book and the memory pools under it, its gap detector,
its sharded demultiplexer and its wire protocol; TLC runs on small instances;
TLAPS proofs, for every value of the constants, about each of them and about the
whole sharded pipeline.

## The system

One network I/O thread generates packets (a simulated feed), loses some, and
demultiplexes the rest to shards by symbol. Every shard has a decoder thread
and a publisher thread. Each hand-over is a lock-free single-producer
single-consumer ring buffer that evicts its oldest item when full.

| Part | State | Operations | Talks to |
|---|---|---|---|
| `concurrency/spsc_ring_buffer.hpp` | `tail_`, `head_`, drop counter, wake generation, slots with a `reader_active` flag | `push`, `try_pop`, `wait_for_data`, `notify_waiters` | every pair of neighbouring threads |
| `io/pipeline_runner.cpp` | `producer_done_`, `shard_decoder_done_[i]`, thread handles, `started_`, `joined_` | decoder and publisher loops, `start`, `stop`, `join` | ring buffers, demux, publisher |
| `io/async_network_reader.*` | coroutine, reactor queue | the reader loop, shutdown notification | feed, demux, input queues |
| `io/feed_generator.*` | ids, sequence numbers per shard, resting ids per symbol | `next` | reader |
| `io/shard_demux.*` | `order_route_` under a mutex, shards | `demux`, `process_shard`, `process_pending` | network and decoder threads |
| `concurrency/gap_detector.hpp` | last number, LIVE/STALE, gap counter | `observe`, `resync`, accessors | decoder thread writes, anyone reads |
| `orderbook/order_book.*` | price levels, order index | `apply` of Add, Cancel, Execute, Replace; `best_bid_ask`, `depth_snapshot` | decoder thread |
| `orderbook/object_pool.hpp` | free lists per shard, thread-local shard index | `allocate`, `deallocate` | order book nodes |
| `publisher/*` | sinks | `drain_publisher_queue`, `publish` | publisher thread |
| `protocol/*` | none | `encode`, `decode` | feed and demux |
| `affinity/*`, `concurrency/latency_trace.hpp` | none that steers anything | hints, timestamps | runner |

What makes it hard: eviction and pop race for one item; a slot is reused under
a slow reader; a consumer goes to sleep while a push or the shutdown signal
arrives; messages are lost, evicted, or cannot be routed; the routing table is
written by two kinds of threads; only the book knows when an order is gone;
memory is allocated on one thread and freed on another by way of a thread-local
index; `start()` may fail with half of the threads running.
`PROJECT.json` lists these hazards with the source line of each.

## Modules

**`SpscRingBuffer`** One step per access to shared memory. `ppc` is the position
of the producer in `push()`, `cpc` that of the consumer in `try_pop()` or
`wait_for_data()`, `npc` that of a caller of `notify_waiters()`. Item *i* is the
number *i*. `delivered` and `evicted` are histories. Atomics are read at their
latest value, with one exception the memory orders make room for: in `try_pop()`
the relaxed load of `head_` may be performed after the acquire load of `tail_`
(`RelaxedGuess`). A lost `compare_exchange` is declared relaxed; the model lets it
acquire, as the instructions of x86-64 and AArch64 for an `acq_rel` exchange do.
The unspecified order of the two operands in `wait_for_data()` is a choice.
`atomic::wait` compares and falls asleep in one step, may wake spuriously, and
rechecks.

**`DropOldestQueue`** What the ring buffer promises: append, take the oldest,
drop the oldest of a full queue, count the drops. `SpscRingBuffer` maps to it
with the `compare_exchange` of `head_` as the moment an item leaves.

**`PipelineStage`** One hop: a pushing thread that stores its done flag and calls
`notify_waiters()`, and a draining thread with the loop of
`PipelineRunner::start()`. It extends `SpscRingBuffer`, so every interleaving
inside the queue is there. A shard has two such hops, with the same code shape.

**`BookRules`, `OrderBook`, `BookQueries`** `BookRules` gives the order book as functions of a
book value: the resulting book, the error, and the deltas, in order. `OrderBook`
feeds one book any sequence of messages, with two histories: a subscriber's
`mirror` built from deltas alone (`ApplyDelta`, which erases a level whose total is
0, is the subscriber of `io/test_pipeline_e2e.cpp`), and the pairs of resting orders of which the
first was in the book before the other (`older`). `BookQueries` has
`best_bid_ask()` and `depth_snapshot()`; the maps' iteration order is told by rank,
the *k*-th price being the one with *k* - 1 better ones. A list node is
identified by its order id, so an iterator is an id and a dangling iterator an
index entry without its listing.

**`GapRules`, `GapDetector`** `GapRules` classifies a number. `GapDetector` makes
every store of `observe()` and `resync()` a step, and every load of a reader that
calls `state()`, `sequence_gaps_total()` and `last_seq_num()`. The stores to each
atomic are listed (`numbers`, `flags`, `states`; the gap counter's are its values).
A release store carries how many stores of the others came before it, a relaxed one
carries nothing; `view` is what the reader is sure to find, and a load gives it that
store or any later one. So it may meet the new value of one atomic and the old one
of another just as the declared memory orders allow.

**`ShardedPipeline`** Feed, demux, decoders and publishers together. The rings
are abstract drop-oldest queues, which the refinement justifies. The section
under `order_route_mutex_` is one step, the push that follows it another;
`process_shard()` is a step for pop, observe and apply, one for the Execute
cleanup, one per delta. The feed takes any choice its random numbers allow and
uses the source's formulas for side, price and quantities. Histories: the book
`exchange` the feed describes, each id's symbol, and per shard the numbers
observed and the messages that never got there.

**`ObjectPool`** The pools of the three kinds of book node, by shard index, under
several pipelines that a process builds one after another. A block is its place
in storage, so that a block in a foreign free list can be recognised. A book is
reduced to the nodes it holds. `InsertNodes` takes the nodes in the order
`insert_resting_order()` does and stops where the pool is empty; on a decoder
thread that ends the process, under `process_pending()` it unwinds to the
destructor. `PendingShards` says for each pipeline which shards
`process_pending()` meets messages of.

**`PipelineRunner`** The owner's calls (`start()` thread by thread, a failing
`std::thread`, `stop()`, `join()`, the destructor) beside the network thread with
its coroutine and reactor and the decoder and publisher threads of every shard. A
queue is its length here and `wait_for_data()` one step: what goes on inside is
`SpscRingBuffer`'s and `PipelineStage`'s matter. A thread that falls asleep past
its done flag is possible in this model as well. `deltas`, `late` and `notified`
count what was pushed, what was read after `stop()`, and the shards notified.

**`Protocol`** `encode()` and `decode()` as functions on sequences of bytes, the
fields of each message listed separately for the two directions, as in the
source. A byte is a digit below `Radix`, 256 in the code and 8 in the run, so that
an 8-byte field is an integer TLC can hold; the layout and the arithmetic are the
same. The position of a field is a running sum of widths, and a byte of an encoding
is told by its position: the header's, or the one of the field that covers it.

The `MC*` modules instantiate these for TLC. Definitions marked "Faulty" are
mutations of the definition that follows them; no specification uses them.

## Runs

| Run | Question | Result |
|---|---|---|
| `StageShutdown` | Does the ring buffer keep its contract under every interleaving of a hop, and does the hop drain, make progress, and stop when it is asleep at shutdown? | holds |
| `StageHang` | Does shutdown always complete? | `ShutdownCompletes` violated |
| `BookOps` | Do levels, index, totals, priority, snapshots and deltas agree, also when totals wrap? | holds |
| `BookZero` | Does a total of 0 always mean that the level is gone? | `SubscriberSeesEveryLevel` violated |
| `GapFeed` | Is STALE right after every call, and what may a concurrent reader rely on? | holds |
| `PipeLossy` | With loss, eviction and symbols sharing a shard: is every message accounted for, do books stay apart and reach the subscriber? | holds |
| `PipeFill` | When the decoder removes routes of filled orders: can every resting order be reached, and do two symbols' books on one shard follow the exchange? | holds |
| `PipeNoGap` | Is STALE never raised when nothing was lost? | `NoGapWithoutLoss` violated |
| `Pool` | Does every node return to its pool, over two pipelines, with allocation failures? | holds |
| `PoolSolo` | Also when `process_pending()` serves several shards? | `OwnPoolOnly` violated |
| `Runner` | Does every way through `start()`, `stop()`, `join()` and destruction leave no thread, no queued item and no suspended coroutine behind? | holds |
| `Codec` | Does `decode()` invert `encode()`, refuse everything else, and stay inside the buffer? | holds |

### Bounds

- Ring and hop: `MaxPush` 5 with two slots laps the buffer twice, also while the
  consumer sleeps. One `notify_waiters()` call, as each queue gets. The proofs remove
  these bounds.
- Book: three ids (two in a level plus one elsewhere, ids reused), two prices,
  two sides, quantities 0, 1 and 3 counted modulo 4 in place of 2^32, so that two
  orders can wrap a level's total, also to 0.
- Gap: five numbers in any order, one resync.
- Pipeline: `PipeLossy` has 4 messages and queues of 2, so three messages to a
  slow shard are an eviction. `PipeFill` has two symbols on one shard and 8 messages
  over two ids (`MaxOrders`): order 2 has quantity 12 and is executed by 3, so two
  Adds and four Executes fill it and two messages are left to race with the
  cleanup. `QuantityModulus` is 1000 there, above any total.
- Pool: two shards, two blocks per pool, two prices, two pipelines. A pool runs
  out at the third order; a leak of the first pipeline would be missing in the
  second. In `Pool` only the first pipeline may use
  `process_pending()`, for shard 0, as the repository's tests do: their symbols all
  hash to shard 0 and each test is a process of its own.
- Runner: two shards, so that creation and join orders differ; queues of 1; two
  packets, one delta. The proofs remove these bounds.
- Codec: fields with eight different digits and the extreme values of every type;
  every truncation; every byte changed to 0, 3 or the largest; buffers one too
  small, exact, and two too large.

Deadlock is not checked where the system ends: the `Stage*`, `Pipe*`, `Pool*`,
`Runner` and `Codec` runs.

### Fairness

`StageShutdown` and `StageHang` assume weak fairness of the pushing and of the
draining thread: the operating system goes on running a thread that is not
asleep. `Runner` assumes the same of the network thread, of each decoder and
publisher thread, and of the owner once it is inside `join()`; which calls the
owner makes, and when, is free. Spurious wake-ups get no fairness. Nothing is
assumed of the order in which threads run.

## What disagrees with the comments

- **Shutdown can hang** (`StageHang`). The draining thread loads the done flag as
  false; the flag is stored and `notify_waiters()` called; only then does it enter
  `wait_for_data()`, snapshot the new generation, find nothing and sleep for good.
  A thread already asleep does wake (`SleeperExits`), which is what tests meet.
- **`process_pending()` and the pools** (`PoolSolo`). It runs every shard on the
  caller's thread, hence on the caller's pool, but the destructor frees shard *i*'s
  nodes into pool *i*. With resting orders on another shard than the caller's,
  the assertion in `deallocate()` fails, or, without assertions, a pool hands out
  a block of another's storage. A destructor also leaves the caller's index at its
  last shard, so a second pipeline on that thread meets this with shard 0 alone.
- **STALE without loss** (`PipeNoGap`). The feed goes on naming an order that its
  executes have filled; the unroutable message takes its number with it.
- **A total of 0** (`BookZero`). A level's total is a 32-bit sum and an Add of
  quantity 0 is accepted, so a level with orders can have total 0. Its delta then
  reads "level removed" and the subscriber erases it. `DeltasRebuildBook` says what
  does hold: the subscriber has exactly the levels whose total is not 0. The
  repository's own feed sends quantities from 10 to 29 and does not get there.
- **The order of `observe()`'s stores.** `gap_detector.hpp:16` says that it "updates
  last_seq_num_ then state_"; the code stores `state_` first and `last_seq_num_`
  last (lines 71 and 73). No property depends on the comment's order.

Some limits follow from the properties as they are stated. `LiveShardComplete`
speaks of numbers after the first observed: a shard whose first messages are lost
stays LIVE. `RestingOrdersRouted` has no converse: the route of an Add that was
evicted stays until the feed ends that order. Of a reader beside a running
`observe()`, `ReaderInformed` says what STALE and the flag bring with them and no
more: the number is stored relaxed, so LIVE and a number past a hole can be met
together, and LIVE promises nothing about the number read with it (`StaleIffHole` is
about the detector between two calls). After `resync()`, which raises the flag
relaxed, a reader that meets only the flag may get the initial 0. With `Capacity` 1 and reordered loads an evicted item can
be delivered, which is why the proofs ask for 2; no instantiation has capacity 1.

`JoinHangsOnlyAsleep` says of the hang that it is the only one: whatever the owner
does, `join()` returns or some thread sleeps past its done flag.

## Proofs

| Module | Theorems about |
|---|---|
| `SharedStateProofs` | ring buffer, one hop, gap detector |
| `BookRulesProofs`, `OrderBookProofs` | order book |
| `ShardedPipelineProofs` | pipeline: routing of orders, books against the exchange, sequence numbers |
| `PipelineFlowProofs` | pipeline: the routing table, published deltas |
| `ObjectPoolProofs` | pools |
| `PipelineRunnerProofs` | threads and their lifecycle |
| `ProtocolProofs` | wire protocol |

### Ring buffer, hop, gap detector

`SharedStateProofs` proves of the ring buffer, for every `Capacity`, every bound,
and both values of `RelaxedGuess` (with `Capacity > 1` when it is `TRUE`):

- `RingInvariant`: `Spec => []RingInv`;
- `SlotAccessesExclusive`, `OneFate`, `FirstInFirstOut`,
  `DropCountExact`, `WakeupNotLost`, `TypeCorrect`: the safety invariants;
- `EvictionsNeeded`: the action property;
- `Refinement`: `Spec` implements `DropOldestQueue`.

None of the properties is inductive alone. `RingInv` adds what the argument in
the source's comments rests on: past the overflow check there is room for one
item (`ProducerInv`); each queued item is in its slot (`SlotsInv`);
`reader_active` marks exactly the slot between announcement and release
(`FlagInv`); the consumer's loaded values are old by a known amount (`GuessInv`);
a won claim keeps the producer off the slot (`ReadInv`); what left the queue was
delivered, is being read or was evicted (`HistoryInv`); a consumer past its second
check missed at most a push that has yet to increment the generation (`WakeInv`).
`GuessInv` is where `Capacity > 1` is needed: a head newer than the loaded tail
means the buffer is nearly full, hence not empty.

The proof has a lemma per action and a few lemmas on `i % Capacity` (two items
less than `Capacity` apart have different slots).

`ExitDrained` (`StageSpec => []DrainedAtExit`) holds for every capacity and number
of pushes, with the same condition on `Capacity`. Each step of a hop is a step of
the ring buffer or leaves it alone, so `RingInv` carries over. `LoopInv` adds that
in the drain after the done flag was seen nothing is pushed or evicted any more:
what `try_pop()` has loaded is current, its claim cannot be lost, and *empty*
means empty.

Of the gap detector, `GapInvariance`, `StaleExactlyOnHole` (`StaleIffHole`),
`ReaderNotMisled` (`ReaderInformed`) and `RewindNeedsResync` hold for any range of
numbers and any number of resyncs. `GapInv` has three parts. `WriterInv` says what
holds at each store of `observe()` and `resync()`: a number being stored after a gap
is past it and the state already STALE, and a STALE state has a hole between its
base and its last number. `StoresInv` says what the stores made so far carry: every
STALE a counted gap, the flag and a number (`Informed`), every flag a number unless
`resync()` was called. `ReaderInv` follows the reader from what it acquired to what
its relaxed loads can then give. A reader's loads change nothing of the first two,
and no store takes away what a reader is sure of, so each part needs the ones before
it only.

### Order book

`BookRulesProofs` is about `Apply` alone. Its theorem `ApplyOutcome` says of any
well-formed book (`BookOK`: every indexed order is listed once, in the level its
entry names, and every listed order is indexed; no level is empty) and any message
that the resulting book is well-formed, that a rejection changes nothing and
reports nothing, and that the deltas tell every level whose total changed and
end at its new total (`DeltasTell`). A lemma per operation says what it does to
index and levels; a Replace is a removal followed by an insertion.

`OrderBookProofs` proves, for any ids, prices, quantities and width of
`Quantity`:

- `IndexMatches`, `SubscriberKnowsTotals`, `RejectionHarmless`: from `ApplyOutcome`
  and the invariant `BookInv`, that the book is well-formed and the mirror is
  right about every level (`RightAbout`: its total, or no entry if that is 0);
- `PriorityKept`: `InTimeOrder` says that two orders of a level stand in the order
  `older` has them in. An order joins at the end of its level, one that leaves
  keeps the others in order, and a fill moves none;
- `TotalsKept`: each total is the sum of the level's quantities modulo the width.
  A sum is a recursive function, so the lemmas about appending to a
  sequence, removing an entry and changing one speak of any two functions that
  are partial sums, and argue from the least place where a claimed relation
  between them fails;
- `SnapshotsBestFirst`: for any number of levels, not only those of the run. A book
  has finitely many levels (`ApplyFinite`), so each price has a number of better
  ones; a better price has fewer (`RankOrders`), so ranks differ, and as there are
  as many prices as ranks below the depth every such rank is taken (`PriceAtRank`).

### Pipeline

The theorems hold for any symbols, any number of shards and assignment of symbols
to them, any queue capacities, with or without packet loss, and any bounds. A step
of the whole is first put into one of a few forms: the feed sends a message that
is lost or unroutable, sends one that is taken in hand, a push (with or without an
eviction), a decoder's `process_shard()`, its route cleanup, or a step that moves
deltas only. Each invariant below is then shown to survive each form.

`ShardedPipelineProofs`:

- `FeedInv`: the feed's ids are new, its resting ids and the routing table have
  the symbol an order was added for, and so has every message on the way;
- `OrdersStayHome` (`NoForeignOrder`), from `HomeInv`: the index of a book has
  only ids of its symbol;
- `BooksFollow` (`BooksFollowExchange`), from `FollowInv`: unless its shard missed
  something, a book *leads* to the exchange's along the messages on the way. The
  property replays the messages with a recursive function. `Leads` says that there
  is a chain of books, each the one before with one message applied, and that all
  of them end at the same book; it can be extended and shortened by one message,
  which is all a step does, and so needs no induction;
- `MessagesAccounted` (`EveryMessageAccounted`) and `LiveIsComplete`
  (`LiveShardComplete`), from `SeqInv`: the numbers on the way to a shard increase
  and are above all it has observed; observed, on the way and missed together are
  all numbers so far; a LIVE detector's last number is the newest observed, and
  nothing between the first observed and that one was missed.

`PipelineFlowProofs`:

- `RestingReachable` (`RestingOrdersRouted`), from `RouteInv`. The order with the
  message that makes it still on the way is as important as the one at rest: both
  have a route or a message behind them that ends them, on the way or missed. The
  decoder's cleanup erases the route of an order only when it is gone from its
  book, and no message that would make it again is on the way, because ids are
  never reused;
- `PublishedIsEnough` (`PublishedRebuildsBooks`), from `BooksInv` (every book is
  well-formed) and `PubInv`: for each level the last delta ahead of the subscriber,
  or else what it has, is the level's total. `ApplyOutcome` gives this for the
  deltas of one message; moving a delta to the output queue or to the subscriber
  keeps the order in which they are ahead.

### Pools

`ObjectPoolProofs` is about 1 to 16 shards, any pipelines and prices and any
capacity, under `PendingAtHome`: `process_pending()` meets messages only of the
shard its caller's index names. `PoolSolo` shows what happens otherwise; the
condition holds for every pipeline a `PipelineRunner` drives, which never calls
`process_pending()`, and for the repository's tests.

- `PoolsKeepTheirBlocks` (`OwnPoolOnly`) and `PoolsAreNotShared` (`OnePoolUser`),
  from `PoolOwnership`: every free or held block is in the pool, or the books, of
  its own shard (`BlocksAtHome`); whoever may touch the nodes of a shard has that
  shard's index (`ThreadsNamed`): a decoder that is ready, the owner at the shard it
  serves, the destructor at the shard it destroys; books that nothing has filled
  or that are destroyed hold no node (`BooksEmpty`).
- `NoBlockIsLost` (`BlocksAccounted`), from `BlocksCounted`: no two nodes share a
  block, and each pool's free list has every block at most once, none of those in
  use, and the two together number `Capacity` (`PoolOK`). An allocation moves one
  block, a destructor moves all of a kind one after another, and an insertion that
  fails half way keeps what it took in the book, where the destructor finds it.
- `OutOfMemoryOnlyWhenFull` (`BadAllocMeansFull`), from `BooksWhole`: while decoders
  run every order has its index entry and every level an order, so no kind has more
  nodes than there are orders, and the pool that is empty when `allocate()` fails
  says that there are `Capacity` of them.

### Runner

`PipelineRunnerProofs` proves `RunnerInvariance`, `DestructorSafe`, `JoinDrains`,
`JoinOrderSafe` and `StopPrompt` for 1 to 16 shards and any capacity, packets and
deltas. `RunnerInv` says how far each thread must be for a flag to be set and a
queue to be empty (`NetInv`, `ShardInv`) and which threads the owner still has to
reckon with while it creates or joins them (`OwnerInv`), a failed `start()`
included.

### Wire protocol

`ProtocolProofs` proves, for any even `Radix` with `Radix * Radix > 48` (two bytes
hold a length), any messages whose fields are in the range of their types, any
buffer sizes and any changed byte, `MessagesSurvive` (`RoundTrip`),
`OnlyEncodingsAccepted` (`AcceptsOnlyEncodings`) and `CodecStaysInside`
(`StaysInside`). The run's radix of 8 and the code's 256 are both instances.

- The loops over bytes and fields have at most eight rounds, so what a recursive
  function has after each round is shown with an induction spelled out for 0 to 8
  (`UpTo8`, `RunningSum`, `Weights`).
- Digits: after *i* bytes `get_u*()` has the number modulo the weight of *i*
  bytes (`PutThenGet`, by `DigitStep`), and a number has one digit and one remainder
  at each weight (`SplitIsUnique`), so the two directions are inverse
  (`GetThenPut`). A price adds the two's complement, which needs the radix even.
- Layout: fields follow one another from the header to `kWireSize` without gap or
  overlap (`Placed`), encoder and decoder list the same ones (`Layouts`).
- `IsEncoding` says byte by byte what `encode()` writes, `DecodedCases` where
  `decode()` can end. `CodecInv` says what the buffer holds at each step and is
  inductive with these lemmas.

### What is assumed, and what is not proved

Assumed: the constants are in the ranges their C++ declarations and constructors
enforce (`CapacityAssumption`, `BoundsAssumption`, `GapBounds`, `PoolAssumption`,
`RunnerAssumption`, `ModulusAssumption`, `PricesAssumption`,
`QuantitiesAssumption`, `QueueAssumption`, `ProtocolAssumption`,
`MessagesAssumption`), a hop is notified once
(`OneNotification`), and `hash_symbol()` gives a symbol one shard
(`RoutingAssumption`).

Only model-checked is liveness, which is outside the prover's reach: `ItemsMoveOn`,
`PushReturns`, `SleeperExits`, `JoinHangsOnlyAsleep`. Every safety property of a
passing run has its theorem; those of the pools have `PendingAtHome` as a
hypothesis.

## Not modelled

- Thread affinity and latency traces: nothing branches on a hint or a timestamp.
- Sinks, their files and formats, latency percentiles, benchmarks: output and
  measurement. `set_delta_sink()` chooses among sinks and is left out with them.
- `stop()` and `join()` before `start()`: the header's call order excludes it. (A
  `join()` before `start()` would set `joined_` and disarm the destructor.)
- `hash_symbol()`: the assignment of symbols to shards is a constant of
  `ShardedPipeline`. The runs choose a few; the theorems hold for all of them.
- Requests for several elements at once, which `PoolAllocator` passes to the global
  allocator, and its failure.
- Weak-memory effects other than `RelaxedGuess` and those of the gap detector; in
  particular the relaxed failure order of `push()`'s `compare_exchange`, see
  `SpscRingBuffer` above.

## Plan

`PipelineRunner` with two `PipelineStage`s per shard in place of its abstract hops,
as a refinement.
