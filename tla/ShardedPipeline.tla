--------------------------- MODULE ShardedPipeline ---------------------------
(***************************************************************************)
(* io/shard_demux.cpp between the feed that drives it and the publishers   *)
(* behind it: the network I/O thread generates, loses and demultiplexes    *)
(* messages (io/feed_generator.cpp, ShardedPipeline::demux()); one decoder *)
(* thread per shard applies them (process_shard()); one publisher thread   *)
(* per shard hands the resulting deltas to its sink.                       *)
(*                                                                         *)
(* A ring buffer is here what SpscRingBuffer.tla shows it to be, the       *)
(* drop-oldest queue of DropOldestQueue.tla: a push and a pop are one step *)
(* each.  So is everything done under order_route_mutex_, and everything a *)
(* thread does alone between two such steps joins one of them.             *)
(***************************************************************************)
EXTENDS BookRules, GapRules

CONSTANTS Symbols, Shards,
          ShardOf,         \* shard_for_symbol(): the hash of a symbol modulo the number of shards
          QueueCapacity,   \* kShardQueueCapacity, of the input queues
          OutCapacity,     \* of the output queues
          MayLose,         \* packet_loss_rate > 0
          MessageCount,    \* config_.message_count, and the bound of the model
          MaxOrders        \* bound: order ids the feed gives out

ASSUME RoutingAssumption == ShardOf \in [Symbols -> Shards]
ASSUME QueueAssumption ==
  /\ QueueCapacity \in Nat \ {0} /\ OutCapacity \in Nat \ {0}
  /\ MayLose \in BOOLEAN /\ MessageCount \in Nat /\ MaxOrders \in Nat

VARIABLES emitted, nextId, nextSeq, resting,  \* FeedGenerator's members
          route,                              \* order_route_
          hand,                               \* demux() between its lock and its push
          queue, out,                         \* Shard::queue, Shard::output_queue
          detector, books,                    \* Shard::gap_detector, Shard::books, by symbol
          decoder,                            \* process_shard() after apply(): what is left to do
          sink,                               \* the levels a shard's subscriber knows
          exchange, home,                     \* histories: the book the feed describes, each id's symbol,
          seen, missed, outDropped            \* numbers observed, messages that never got there, deltas evicted

feedVars == <<emitted, nextId, nextSeq, resting, exchange, home>>
shardVars == <<detector, books, seen>>
pipeVars == <<feedVars, route, hand, queue, out, shardVars, decoder, sink, missed, outDropped>>

Nothing == [type |-> "none"]
Idle == [erase |-> Nothing, deltas |-> <<>>]

PipeInit ==
  /\ emitted = 0 /\ nextId = 1
  /\ nextSeq = [s \in Shards |-> 0]
  /\ resting = [y \in Symbols |-> {}]
  /\ route = <<>> /\ hand = Nothing
  /\ queue = [s \in Shards |-> <<>>] /\ out = [s \in Shards |-> <<>>]
  /\ detector = [s \in Shards |-> NewDetector]
  /\ books = [y \in Symbols |-> EmptyBook]
  /\ decoder = [s \in Shards |-> Idle]
  /\ sink = [y \in Symbols |-> <<>>]
  /\ exchange = [y \in Symbols |-> EmptyBook] /\ home = <<>>
  /\ seen = [s \in Shards |-> {}] /\ missed = [s \in Shards |-> {}]
  /\ outDropped = [s \in Shards |-> FALSE]

-----------------------------------------------------------------------------
(***************************************************************************)
(* demux(): the part under the lock.  A routed message is in hand, to be   *)
(* pushed; an unroutable one is gone, its sequence number with it.         *)
(***************************************************************************)
\* Faulty: the book is found by shard, not by symbol.
InHandFirstSymbol(m, r) ==
  hand' = [type |-> "push", shard |-> r.shard,
           symbol |-> CHOOSE y \in Symbols : ShardOf[y] = r.shard, msg |-> m]

InHand(m, r) == hand' = [type |-> "push", shard |-> r.shard, symbol |-> r.symbol, msg |-> m]

RouteAdd(m) ==
  LET r == [shard |-> ShardOf[m.symbol], symbol |-> m.symbol]
  IN  route' = Put(route, m.id, r) /\ InHand(m, r) /\ UNCHANGED missed

Unroutable(m, s) ==
  /\ missed' = [missed EXCEPT ![s] = @ \cup {m}]
  /\ UNCHANGED <<route, hand>>

\* What a message that names an existing order does to the routing table.
RouteAfter(m) ==
  CASE m.type = "Cancel"  -> Erase(route, m.id)
    [] m.type = "Replace" -> Put(Erase(route, m.id), m.new, route[m.id])
    [] m.type = "Execute" -> route

RouteExisting(m, s) ==
  IF m.id \in DOMAIN route
    THEN route' = RouteAfter(m) /\ InHand(m, route[m.id]) /\ UNCHANGED missed
    ELSE Unroutable(m, s)

Demux(m, s) == IF m.type = "Add" THEN RouteAdd(m) ELSE RouteExisting(m, s)

-----------------------------------------------------------------------------
(***************************************************************************)
(* FeedGenerator::next(), with the reader's call of demux().  The feed's   *)
(* own view changes whether or not the packet is then lost in transit.     *)
(***************************************************************************)
SideOf(id) == IF id % 2 = 0 THEN "Buy" ELSE "Sell"
PriceOf(id) == 100 + (id % 50)
QuantityOf(id) == 10 + (id % 20)
ExecutedOf(id) == 1 + (id % 5)

LoseInTransit(m, s) ==
  /\ MayLose
  /\ missed' = [missed EXCEPT ![s] = @ \cup {m}]
  /\ UNCHANGED <<route, hand>>

\* ++next_seq_per_shard_[shard], the number a message of the symbol gets.
NextSeq(y) == nextSeq[ShardOf[y]] + 1

Emit(y, m) ==
  LET s == ShardOf[y]
  IN  /\ hand = Nothing
      /\ emitted < MessageCount
      /\ emitted' = emitted + 1
      /\ nextSeq' = [nextSeq EXCEPT ![s] = @ + 1]
      /\ exchange' = [exchange EXCEPT ![y] = Apply(@, m).book]
      /\ LoseInTransit(m, s) \/ Demux(m, s)
      /\ UNCHANGED <<queue, out, shardVars, decoder, sink, outDropped>>

FeedAdd(y) ==
  /\ nextId <= MaxOrders
  /\ Emit(y, [type |-> "Add", seq |-> NextSeq(y), id |-> nextId, symbol |-> y, side |-> SideOf(nextId),
              price |-> PriceOf(nextId), qty |-> QuantityOf(nextId)])
  /\ resting' = [resting EXCEPT ![y] = @ \cup {nextId}]
  /\ home' = Put(home, nextId, y)
  /\ nextId' = nextId + 1

FeedCancel(y, id) ==
  /\ Emit(y, [type |-> "Cancel", seq |-> NextSeq(y), id |-> id])
  /\ resting' = [resting EXCEPT ![y] = @ \ {id}]
  /\ UNCHANGED <<home, nextId>>

FeedExecute(y, id) ==
  /\ Emit(y, [type |-> "Execute", seq |-> NextSeq(y), id |-> id, qty |-> ExecutedOf(id)])
  /\ UNCHANGED <<resting, home, nextId>>

FeedReplace(y, id) ==
  /\ nextId <= MaxOrders
  /\ Emit(y, [type |-> "Replace", seq |-> NextSeq(y), id |-> id, new |-> nextId,
              price |-> PriceOf(nextId), qty |-> QuantityOf(nextId)])
  /\ resting' = [resting EXCEPT ![y] = (@ \ {id}) \cup {nextId}]
  /\ home' = Put(home, nextId, y)
  /\ nextId' = nextId + 1

\* Faulty: the newest message is popped first.
EnqueueFront ==
  LET s    == hand.shard
      full == Len(queue[s]) = QueueCapacity
  IN  /\ hand # Nothing
      /\ queue' = [queue EXCEPT ![s] = <<hand>> \o (IF full THEN Tail(@) ELSE @)]
      /\ missed' = IF full THEN [missed EXCEPT ![s] = @ \cup {Head(queue[s]).msg}]
                           ELSE missed
      /\ hand' = Nothing
      /\ UNCHANGED <<feedVars, route, out, shardVars, decoder, sink, outDropped>>

\* Faulty: a full queue gives up the new message, unnoticed.
EnqueueDropNewest ==
  /\ hand # Nothing
  /\ queue' = [queue EXCEPT ![hand.shard] =
                 IF Len(@) = QueueCapacity THEN @ ELSE Append(@, hand)]
  /\ hand' = Nothing
  /\ UNCHANGED <<feedVars, route, out, shardVars, decoder, sink, missed, outDropped>>

\* demux() pushes what it routed; a full queue gives up its oldest message.
Enqueue ==
  LET s    == hand.shard
      full == Len(queue[s]) = QueueCapacity
  IN  /\ hand # Nothing
      /\ queue' = [queue EXCEPT ![s] = Append(IF full THEN Tail(@) ELSE @, hand)]
      /\ missed' = IF full THEN [missed EXCEPT ![s] = @ \cup {Head(queue[s]).msg}]
                           ELSE missed
      /\ hand' = Nothing
      /\ UNCHANGED <<feedVars, route, out, shardVars, decoder, sink, outDropped>>

NetworkThread ==
  \/ \E y \in Symbols : \/ FeedAdd(y)
                        \/ \E id \in resting[y] : FeedCancel(y, id) \/ FeedExecute(y, id)
                                                  \/ FeedReplace(y, id)
  \/ Enqueue

-----------------------------------------------------------------------------
(***************************************************************************)
(* process_shard(s) on the shard's decoder thread: pop, observe, apply;    *)
(* then, one step each, the Execute cleanup and the pushes of the deltas.  *)
(***************************************************************************)
\* The BookDelta of each touched level: it names the symbol.
Labelled(symbol, deltas) ==
  [k \in 1 .. Len(deltas) |->
     [symbol |-> symbol, at |-> deltas[k].at, total |-> deltas[k].total]]

\* Faulty: every Execute ends its order's route, a partial fill too.
ProcessErasingAlways(s) ==
  LET qm == Head(queue[s])
      r  == Apply(books[qm.symbol], qm.msg)
      gone == qm.msg.type = "Execute"
  IN  /\ decoder[s] = Idle /\ queue[s] # <<>>
      /\ queue' = [queue EXCEPT ![s] = Tail(@)]
      /\ detector' = [detector EXCEPT ![s] = Observed(@, qm.msg.seq)]
      /\ seen' = [seen EXCEPT ![s] = @ \cup {qm.msg.seq}]
      /\ books' = [books EXCEPT ![qm.symbol] = r.book]
      /\ decoder' = [decoder EXCEPT ![s] =
           [erase  |-> IF gone THEN [type |-> "erase", id |-> qm.msg.id] ELSE Nothing,
            deltas |-> Labelled(qm.symbol, r.deltas)]]
      /\ UNCHANGED <<feedVars, route, hand, out, sink, missed, outDropped>>

ProcessMessage(s) ==
  LET qm == Head(queue[s])
      r  == Apply(books[qm.symbol], qm.msg)
      gone == qm.msg.type = "Execute" /\ ~HasOrder(r.book, qm.msg.id)
  IN  /\ decoder[s] = Idle /\ queue[s] # <<>>
      /\ queue' = [queue EXCEPT ![s] = Tail(@)]
      /\ detector' = [detector EXCEPT ![s] = Observed(@, qm.msg.seq)]
      /\ seen' = [seen EXCEPT ![s] = @ \cup {qm.msg.seq}]
      /\ books' = [books EXCEPT ![qm.symbol] = r.book]
      /\ decoder' = [decoder EXCEPT ![s] =
           [erase  |-> IF gone THEN [type |-> "erase", id |-> qm.msg.id] ELSE Nothing,
            deltas |-> Labelled(qm.symbol, r.deltas)]]
      /\ UNCHANGED <<feedVars, route, hand, out, sink, missed, outDropped>>

EraseRoute(s) ==
  /\ decoder[s].erase # Nothing
  /\ route' = Erase(route, decoder[s].erase.id)
  /\ decoder' = [decoder EXCEPT ![s].erase = Nothing]
  /\ UNCHANGED <<feedVars, hand, queue, out, shardVars, sink, missed, outDropped>>

\* Faulty: the delta pushed last comes out first.
PublishReversed(s) ==
  /\ decoder[s].erase = Nothing /\ decoder[s].deltas # <<>>
  /\ out' = [out EXCEPT ![s] = <<Head(decoder[s].deltas)>>
                               \o (IF Len(@) = OutCapacity THEN Tail(@) ELSE @)]
  /\ outDropped' = [outDropped EXCEPT ![s] = @ \/ Len(out[s]) = OutCapacity]
  /\ decoder' = [decoder EXCEPT ![s].deltas = Tail(@)]
  /\ UNCHANGED <<feedVars, route, hand, queue, shardVars, sink, missed>>

PushDelta(s) ==
  /\ decoder[s].erase = Nothing /\ decoder[s].deltas # <<>>
  /\ out' = [out EXCEPT ![s] = Append(IF Len(@) = OutCapacity THEN Tail(@) ELSE @,
                                      Head(decoder[s].deltas))]
  /\ outDropped' = [outDropped EXCEPT ![s] = @ \/ Len(out[s]) = OutCapacity]
  /\ decoder' = [decoder EXCEPT ![s].deltas = Tail(@)]
  /\ UNCHANGED <<feedVars, route, hand, queue, shardVars, sink, missed>>

DecoderThread(s) == ProcessMessage(s) \/ EraseRoute(s) \/ PushDelta(s)

\* drain_publisher_queue() on the shard's publisher thread, one delta, which
\* the subscriber behind the sink applies.
PublisherThread(s) ==
  /\ out[s] # <<>>
  /\ LET d == Head(out[s])
     IN  sink' = [sink EXCEPT ![d.symbol] = ApplyDelta(@, d)]
  /\ out' = [out EXCEPT ![s] = Tail(@)]
  /\ UNCHANGED <<feedVars, route, hand, queue, shardVars, decoder, missed, outDropped>>

PipeNext ==
  \/ NetworkThread
  \/ \E s \in Shards : DecoderThread(s) \/ PublisherThread(s)

PipeSpec == PipeInit /\ [][PipeNext]_pipeVars

-----------------------------------------------------------------------------
(***************************************************************************)
(* Properties.                                                             *)
(***************************************************************************)
OnTheWay(s) == queue[s] \o (IF hand # Nothing /\ hand.shard = s THEN <<hand>> ELSE <<>>)
Missed(s) == {m.seq : m \in missed[s]}
\* An order only ever rests in the book of the symbol it was added for, though
\* Cancel, Execute and Replace name no symbol and messages get lost or evicted.
NoForeignOrder ==
  \A y \in Symbols : \A id \in DOMAIN books[y].index : home[id] = y

\* Every sequence number is observed, on the way, or missed, and only one of
\* these: no message is lost without a trace or handled twice.
EveryMessageAccounted ==
  \A s \in Shards :
    LET way == {OnTheWay(s)[k].msg.seq : k \in 1 .. Len(OnTheWay(s))}
    IN  /\ seen[s] \cup way \cup Missed(s) = 1 .. nextSeq[s]
        /\ seen[s] \cap way = {} /\ seen[s] \cap Missed(s) = {} /\ way \cap Missed(s) = {}

\* A LIVE shard has missed nothing between the first and the last message it
\* observed, be it lost in transit, evicted or unroutable.
LiveShardComplete ==
  \A s \in Shards :
    detector[s].has /\ detector[s].state = "Live" =>
      \A n \in Missed(s) : n > detector[s].last \/ \A k \in seen[s] : n < k

\* A symbol's book after the messages on a way that are about it.
Replay(b, y, way) ==
  LET after[k \in 0 .. Len(way)] ==
        IF k = 0 THEN b
        ELSE IF way[k].symbol = y THEN Apply(after[k - 1], way[k].msg).book
        ELSE after[k - 1]
  IN  after[Len(way)]

\* While a shard has missed nothing its books are the exchange's, less the
\* messages still on the way.
BooksFollowExchange ==
  \A y \in Symbols :
    missed[ShardOf[y]] = {} => Replay(books[y], y, OnTheWay(ShardOf[y])) = exchange[y]

\* A resting order can be reached by later messages: it has a route, unless the
\* message that ends it is on the way or was evicted.
RestingOrdersRouted ==
  \A y \in Symbols : \A id \in DOMAIN books[y].index :
    \/ id \in DOMAIN route /\ route[id].symbol = y
    \/ \E m \in missed[ShardOf[y]] : m.type \in {"Cancel", "Replace"} /\ m.id = id
    \/ \E k \in 1 .. Len(OnTheWay(ShardOf[y])) :
         LET m == OnTheWay(ShardOf[y])[k].msg
         IN  m.type \in {"Cancel", "Replace"} /\ m.id = id

\* A subscriber knows a shard's levels once it has the deltas on the way to it:
\* the last of them about a level has its total, and about the others it is
\* right; unless the output queue evicted a delta.
PublishedRebuildsBooks ==
  \A y \in Symbols :
    LET s     == ShardOf[y]
        ahead == out[s] \o decoder[s].deltas
        About(k, at) == ahead[k].symbol = y /\ ahead[k].at = at
    IN  outDropped[s] \/
        /\ \A k \in 1 .. Len(ahead) :
             ahead[k].symbol = y /\ (\A j \in k + 1 .. Len(ahead) : ~About(j, ahead[k].at)) =>
               ahead[k].total = LevelFor(books[y], ahead[k].at).total
        /\ \A at \in DOMAIN sink[y] \cup DOMAIN books[y].levels :
             (\A k \in 1 .. Len(ahead) : ~About(k, at)) => RightAbout(sink[y], books[y], at)

\* "seq_num > expected: at least one message between expected and seq_num never
\* arrived": with no loss in transit and no eviction no shard goes STALE.
NoGapWithoutLoss == \A s \in Shards : detector[s].state = "Live"
=============================================================================
