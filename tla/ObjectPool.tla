------------------------------ MODULE ObjectPool ------------------------------
(***************************************************************************)
(* orderbook/object_pool.hpp under the order books of a ShardedPipeline:   *)
(* one FixedBlockPool per node type and shard index, shared by all books   *)
(* of a process and chosen by a thread-local index, the decoder threads    *)
(* that fill the books, and the destructor that empties them on the thread *)
(* that owns the pipeline.  Several pipelines are built one after another. *)
(*                                                                         *)
(* A block is its place in storage, <<shard, slot>>.  A resting order is   *)
(* its list node, with its price and its node in order_index_; a price     *)
(* level is its map node.  Nothing else of a book matters to the pools.    *)
(***************************************************************************)
EXTENDS Integers, Sequences, FiniteSets, Functions

CONSTANTS NumShards,       \* shards of every pipeline built
          Capacity,        \* kShardOrderPoolCapacity
          PriceSet,        \* prices, sides included
          MaxRuns,         \* bound: pipelines built
          PendingShards    \* the shards whose messages process_pending() meets, by pipeline

\* The constructor throws outside [1, kMaxShards]; a pool has at least one block.
ASSUME PoolAssumption ==
  /\ NumShards \in 1 .. 16 /\ Capacity \in Nat \ {0}
  /\ MaxRuns \in Nat /\ PendingShards \in [1 .. MaxRuns -> SUBSET (0 .. NumShards - 1)]

VARIABLES pools,          \* PoolAllocator::pool(), by node type and index
          index,          \* current_shard_index, by thread
          stage,          \* where the owner is in the life of a pipeline
          decoder,        \* the decoder threads: "off", "started", "ready"
          orders, levels, \* the nodes of each shard's books
          next,           \* the shard the destructor is at
          failed,         \* the shard whose apply() met std::bad_alloc, if any
          runs

bookNodes == <<orders, levels>>
poolVars == <<pools, index, stage, decoder, bookNodes, next, failed, runs>>

Shards == 0 .. NumShards - 1
Owner == NumShards                 \* the owner's thread; decoder i is thread i
Threads == 0 .. NumShards
Kinds == {"order", "level", "index"}
Nowhere == <<-1, 0>>               \* no block
NoShard == -1

Put(f, k, v) == [x \in DOMAIN f \cup {k} |-> IF x = k THEN v ELSE f[x]]
Erase(f, k) == Restrict(f, DOMAIN f \ {k})

NoPool == [free |-> <<>>, inUse |-> -1]

PoolInit ==
  /\ pools = [k \in Kinds |-> [s \in Shards |-> NoPool]]
  /\ index = [t \in Threads |-> 0]
  /\ stage = "none" /\ decoder = [s \in Shards |-> "off"]
  /\ orders = [s \in Shards |-> <<>>] /\ levels = [s \in Shards |-> <<>>]
  /\ next = 0 /\ failed = NoShard /\ runs = 0

-----------------------------------------------------------------------------
(***************************************************************************)
(* FixedBlockPool and PoolAllocator.                                       *)
(***************************************************************************)
NewPool(s) == [free |-> [n \in 1 .. Capacity |-> <<s, n>>], inUse |-> 0]

\* pool(): constructed when first asked for.
Pool(k, i) == IF pools[k][i] = NoPool THEN NewPool(i) ELSE pools[k][i]

CanAllocate(p) == p.free # <<>>
Allocated(p) == [free |-> Tail(p.free), inUse |-> p.inUse + 1]
Deallocated(p, b) == [free |-> <<b>> \o p.free, inUse |-> p.inUse - 1]

-----------------------------------------------------------------------------
(***************************************************************************)
(* insert_resting_order() and remove_resting_order() on thread t for a     *)
(* book of shard s, as far as nodes are concerned: bids_[price], push_back *)
(* and order_index_[order_id], in this order, each of which may throw.     *)
(***************************************************************************)
InsertNodes(t, s, price) ==
  LET i        == index[t]
      newLevel == price \notin DOMAIN levels[s]
      hasLevel == ~newLevel \/ CanAllocate(Pool("level", i))
      hasOrder == hasLevel /\ CanAllocate(Pool("order", i))
      hasIndex == hasOrder /\ CanAllocate(Pool("index", i))
      taken    == (IF newLevel /\ hasLevel THEN {"level"} ELSE {})
                  \cup (IF hasOrder THEN {"order"} ELSE {})
                  \cup (IF hasIndex THEN {"index"} ELSE {})
      Block(k) == Head(Pool(k, i).free)
  IN  /\ pools' = [k \in Kinds |-> IF k \in taken
                                     THEN [pools[k] EXCEPT ![i] = Allocated(Pool(k, i))]
                                     ELSE pools[k]]
      /\ levels' = IF "level" \in taken
                     THEN [levels EXCEPT ![s] = Put(@, price, Block("level"))]
                     ELSE levels
      /\ orders' = IF hasOrder
                     THEN [orders EXCEPT ![s] = Put(@, Block("order"),
                             [price |-> price,
                              entry |-> IF hasIndex THEN Block("index") ELSE Nowhere])]
                     ELSE orders
      /\ failed' = IF hasIndex THEN failed ELSE s

LastAt(s, o) == \A x \in DOMAIN orders[s] \ {o} : orders[s][x].price # orders[s][o].price

\* The nodes order o of shard s leaves: a level goes with its last order, and
\* an order whose insertion threw at the index has no entry there.
Freed(s, o, k) ==
  CASE k = "order" -> TRUE
    [] k = "index" -> orders[s][o].entry # Nowhere
    [] k = "level" -> LastAt(s, o)

NodeOf(s, o, k) ==
  CASE k = "order" -> o
    [] k = "index" -> orders[s][o].entry
    [] k = "level" -> levels[s][orders[s][o].price]

\* Faulty: the entry of order_index_ stays.
RemoveAllButEntry(t, s, o) ==
  /\ pools' = [k \in Kinds |->
       IF k # "index" /\ Freed(s, o, k)
         THEN [pools[k] EXCEPT ![index[t]] = Deallocated(Pool(k, index[t]), NodeOf(s, o, k))]
         ELSE pools[k]]
  /\ levels' = IF LastAt(s, o) THEN [levels EXCEPT ![s] = Erase(@, orders[s][o].price)]
                               ELSE levels
  /\ orders' = [orders EXCEPT ![s] = Erase(@, o)]

RemoveNodes(t, s, o) ==
  /\ pools' = [k \in Kinds |->
       IF Freed(s, o, k)
         THEN [pools[k] EXCEPT ![index[t]] = Deallocated(Pool(k, index[t]), NodeOf(s, o, k))]
         ELSE pools[k]]
  /\ levels' = IF LastAt(s, o) THEN [levels EXCEPT ![s] = Erase(@, orders[s][o].price)]
                               ELSE levels
  /\ orders' = [orders EXCEPT ![s] = Erase(@, o)]

-----------------------------------------------------------------------------
(***************************************************************************)
(* The life of a pipeline.                                                 *)
(***************************************************************************)
\* ShardedPipeline's constructor: books are empty until messages arrive.  A
\* PipelineRunner builds its own; a test or a benchmark may build one to drive
\* by process_pending().
Construct ==
  /\ stage = "none" /\ runs < MaxRuns
  /\ stage' \in {"built"} \cup (IF PendingShards[runs + 1] = {} THEN {} ELSE {"solo"})
  /\ runs' = runs + 1
  /\ UNCHANGED <<pools, index, decoder, bookNodes, next, failed>>

\* PipelineRunner::start(): a new thread's current_shard_index is 0.
StartDecoders ==
  /\ stage = "built"
  /\ stage' = "running"
  /\ decoder' = [s \in Shards |-> "started"]
  /\ index' = [t \in Threads |-> IF t = Owner THEN index[t] ELSE 0]
  /\ UNCHANGED <<pools, bookNodes, next, failed, runs>>

\* Faulty: the decoder thread does not name its shard.
SetShardIndexSkipped(i) ==
  /\ decoder[i] = "started"
  /\ decoder' = [decoder EXCEPT ![i] = "ready"]
  /\ UNCHANGED <<pools, index, stage, bookNodes, next, failed, runs>>

\* The first thing a decoder thread does: set_current_shard_index(i).
SetShardIndex(i) ==
  /\ decoder[i] = "started"
  /\ decoder' = [decoder EXCEPT ![i] = "ready"]
  /\ index' = [index EXCEPT ![i] = i]
  /\ UNCHANGED <<pools, stage, bookNodes, next, failed, runs>>

\* process_shard(i) applies an add, or a replace that rests, on its decoder
\* thread; nothing catches std::bad_alloc there, so the process ends.
DecoderInsert(i, price) ==
  /\ stage = "running" /\ decoder[i] = "ready"
  /\ InsertNodes(i, i, price)
  /\ stage' = IF failed' = NoShard THEN stage ELSE "terminated"
  /\ UNCHANGED <<index, decoder, next, runs>>

\* process_shard(i) applies a cancel, a full execution or a replace.
DecoderRemove(i, o) ==
  /\ stage = "running" /\ decoder[i] = "ready" /\ o \in DOMAIN orders[i]
  /\ RemoveNodes(i, i, o)
  /\ UNCHANGED <<index, stage, decoder, next, failed, runs>>

DecoderExit(i) ==
  /\ stage = "running" /\ decoder[i] = "ready"
  /\ decoder' = [decoder EXCEPT ![i] = "off"]
  /\ UNCHANGED <<pools, index, stage, bookNodes, next, failed, runs>>

\* PipelineRunner::join().
JoinDecoders ==
  /\ stage = "running" /\ \A s \in Shards : decoder[s] = "off"
  /\ stage' = "joined"
  /\ UNCHANGED <<pools, index, decoder, bookNodes, next, failed, runs>>

\* process_pending() runs every shard's process_shard() on its caller's
\* thread; an exception unwinds to the pipeline's destructor.
PendingInsert(s, price) ==
  /\ stage = "solo" /\ s \in PendingShards[runs]
  /\ InsertNodes(Owner, s, price)
  /\ stage' = IF failed' = NoShard THEN stage ELSE "joined"
  /\ UNCHANGED <<index, decoder, next, runs>>

PendingRemove(s, o) ==
  /\ stage = "solo" /\ o \in DOMAIN orders[s]
  /\ RemoveNodes(Owner, s, o)
  /\ UNCHANGED <<index, stage, decoder, next, failed, runs>>

-----------------------------------------------------------------------------
(***************************************************************************)
(* ~ShardedPipeline(): for each shard in turn, name the shard and destroy  *)
(* its books, node by node.                                                *)
(***************************************************************************)
DestroyBegin ==
  /\ stage \in {"built", "solo", "joined"}
  /\ stage' = "destroying" /\ next' = 0
  /\ index' = [index EXCEPT ![Owner] = 0]
  /\ UNCHANGED <<pools, decoder, bookNodes, failed, runs>>

DestroyOrder(o) ==
  /\ stage = "destroying" /\ o \in DOMAIN orders[next]
  /\ RemoveNodes(Owner, next, o)
  /\ UNCHANGED <<index, stage, decoder, next, failed, runs>>

\* A level whose first push_back threw holds no order.
DestroyEmptyLevel(p) ==
  /\ stage = "destroying" /\ p \in DOMAIN levels[next]
  /\ \A o \in DOMAIN orders[next] : orders[next][o].price # p
  /\ pools' = [pools EXCEPT !["level"][index[Owner]] =
                 Deallocated(Pool("level", index[Owner]), levels[next][p])]
  /\ levels' = [levels EXCEPT ![next] = Erase(@, p)]
  /\ UNCHANGED <<index, stage, decoder, orders, next, failed, runs>>

\* Faulty: the destructor destroys every shard under the caller's own index.
DestroyNextUnnamed ==
  /\ stage = "destroying"
  /\ DOMAIN orders[next] = {} /\ DOMAIN levels[next] = {}
  /\ IF next + 1 < NumShards THEN next' = next + 1 /\ UNCHANGED <<index, stage, failed>>
                             ELSE stage' = "none" /\ next' = 0 /\ failed' = NoShard /\ UNCHANGED index
  /\ UNCHANGED <<pools, decoder, bookNodes, runs>>

DestroyNext ==
  /\ stage = "destroying"
  /\ DOMAIN orders[next] = {} /\ DOMAIN levels[next] = {}
  /\ \/ /\ next + 1 < NumShards
        /\ next' = next + 1 /\ index' = [index EXCEPT ![Owner] = next + 1]
        /\ UNCHANGED <<stage, failed>>
     \/ /\ next + 1 = NumShards
        /\ stage' = "none" /\ next' = 0 /\ failed' = NoShard
        /\ UNCHANGED index
  /\ UNCHANGED <<pools, decoder, bookNodes, runs>>

PoolNext ==
  \/ Construct \/ StartDecoders \/ JoinDecoders \/ DestroyBegin \/ DestroyNext
  \/ \E i \in Shards :
       \/ SetShardIndex(i) \/ DecoderExit(i)
       \/ \E p \in PriceSet : DecoderInsert(i, p) \/ PendingInsert(i, p)
       \/ \E o \in DOMAIN orders[i] : DecoderRemove(i, o) \/ PendingRemove(i, o)
  \/ \E o \in DOMAIN orders[next] : DestroyOrder(o)
  \/ \E p \in DOMAIN levels[next] : DestroyEmptyLevel(p)

PoolSpec == PoolInit /\ [][PoolNext]_poolVars

-----------------------------------------------------------------------------
\* The blocks of node type k that the books of shard s hold.
Held(s, k) ==
  CASE k = "order" -> DOMAIN orders[s]
    [] k = "index" -> {orders[s][o].entry : o \in DOMAIN orders[s]} \ {Nowhere}
    [] k = "level" -> {levels[s][p] : p \in DOMAIN levels[s]}

\* deallocate() never sees a block of another pool's storage: its assertion
\* holds for every node freed so far, whichever thread freed it.
OwnPoolOnly == \A k \in Kinds, s \in Shards :
  \A n \in 1 .. Len(pools[k][s].free) : pools[k][s].free[n][1] = s

\* No block is lost or handed out twice: of a pool that exists, the free list
\* and the nodes alive hold each block once and in_use() counts the latter;
\* with no pipeline left every block is free again, so a process can build
\* pipelines for ever.
BlocksAccounted == \A k \in Kinds, s \in Shards :
  LET p == pools[k][s]
      free == {p.free[n] : n \in 1 .. Len(p.free)}
  IN  p # NoPool =>
        /\ Cardinality(free) = Len(p.free)
        /\ p.inUse = Cardinality(Held(s, k)) /\ p.inUse + Len(p.free) = Capacity
        /\ free \cap Held(s, k) = {}
        /\ stage = "none" => p.inUse = 0

\* "exactly one thread ever calls allocate()/deallocate()" on a pool at a time:
\* the decoder threads that may use a pool name pools of their own, and the
\* owner's thread destroys books only when no decoder runs.
OnePoolUser ==
  /\ \A i, j \in Shards : decoder[i] = "ready" /\ decoder[j] = "ready" /\ i # j
                            => index[i] # index[j]
  /\ stage = "destroying" => \A i \in Shards : decoder[i] = "off"

\* A shard runs out of memory only with Capacity orders resting in its books,
\* whatever was added, removed and destroyed before; and it is the price level
\* or the list node that fails: an order that has a list node has its index entry.
BadAllocMeansFull ==
  stage = "terminated" =>
    /\ Cardinality(DOMAIN orders[failed]) = Capacity
    /\ \A o \in DOMAIN orders[failed] : orders[failed][o].entry # Nowhere
=============================================================================
