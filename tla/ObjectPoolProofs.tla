--------------------------- MODULE ObjectPoolProofs ---------------------------
(***************************************************************************)
(* For any number of shards, any capacity and any number of pipelines,     *)
(* filled by decoder threads or, for the shard its caller is at, by        *)
(* process_pending(): no pool ever sees a block of another, no two threads *)
(* use a pool at the same time, no block is lost or handed out twice, and  *)
(* a decoder runs out of memory only when its shard is full.               *)
(***************************************************************************)
EXTENDS ObjectPool, SequenceTheorems, FiniteSetTheorems, TLAPS

USE PoolAssumption

Home(s) == {s} \X (1 .. Capacity)
PoolsOf(s) == [free : Seq(Home(s)), inUse : Int]

\* The nodes of shard s's books are blocks of pools of index s.
NodesAtHome(s) ==
  /\ orders[s] \in [DOMAIN orders[s] -> [price : PriceSet, entry : Home(s) \cup {Nowhere}]]
  /\ DOMAIN orders[s] \subseteq Home(s)
  /\ levels[s] \in [DOMAIN levels[s] -> Home(s)]
  /\ \A o \in DOMAIN orders[s] : orders[s][o].price \in DOMAIN levels[s]

\* Every block is at home, on a free list or in a book.
BlocksAtHome ==
  /\ pools = [k \in Kinds |-> [s \in Shards |-> pools[k][s]]]
  /\ \A k \in Kinds, s \in Shards : pools[k][s] \in PoolsOf(s)
  /\ DOMAIN orders = Shards /\ DOMAIN levels = Shards
  /\ orders = [s \in Shards |-> orders[s]] /\ levels = [s \in Shards |-> levels[s]]
  /\ \A s \in Shards : NodesAtHome(s)

\* The shard the owner's thread is at when it drives its r-th pipeline: a thread
\* starts at 0, and a destructor leaves it at the last shard.
OwnerAt(r) == IF r = 1 THEN 0 ELSE NumShards - 1

\* Whoever is about to allocate or free a block of shard s has named s.
ThreadsNamed ==
  /\ index \in [Threads -> Shards]
  /\ decoder \in [Shards -> {"off", "started", "ready"}]
  /\ next \in Shards /\ runs \in Nat
  /\ stage \in {"none", "built", "solo", "running", "joined", "destroying", "terminated"}
  /\ \A i \in Shards : decoder[i] = "ready" => index[i] = i
  /\ stage \notin {"running", "terminated"} => \A i \in Shards : decoder[i] = "off"
  /\ stage = "destroying" => index[Owner] = next
  /\ stage = "none" => index[Owner] = OwnerAt(runs + 1)
  /\ stage # "none" => runs \in 1 .. MaxRuns
  /\ stage \in {"built", "solo"} => index[Owner] = OwnerAt(runs)

\* Books that nothing has filled, or that are destroyed, hold no node.
NoNodes(s) == DOMAIN orders[s] = {} /\ DOMAIN levels[s] = {}
BooksEmpty ==
  /\ stage \in {"none", "built"} => \A s \in Shards : NoNodes(s)
  /\ stage = "solo" => \A s \in Shards : s \notin PendingShards[runs] => NoNodes(s)
  /\ stage = "destroying" => \A s \in Shards : s < next => NoNodes(s)

PoolOwnership == BlocksAtHome /\ ThreadsNamed /\ BooksEmpty

-----------------------------------------------------------------------------
\* allocate() takes from, and deallocate() returns to, a pool's own blocks.
LEMMA PoolFacts ==
  ASSUME BlocksAtHome, NEW k \in Kinds, NEW s \in Shards
  PROVE  /\ Pool(k, s) \in PoolsOf(s)
         /\ CanAllocate(Pool(k, s)) => /\ Head(Pool(k, s).free) \in Home(s)
                                       /\ Allocated(Pool(k, s)) \in PoolsOf(s)
         /\ \A b \in Home(s) : Deallocated(Pool(k, s), b) \in PoolsOf(s)
<1>1. NewPool(s) \in PoolsOf(s)
  <2>1. [n \in 1 .. Capacity |-> <<s, n>>] \in [1 .. Capacity -> Home(s)]
    BY DEF Home
  <2>2. [n \in 1 .. Capacity |-> <<s, n>>] \in Seq(Home(s))
    BY <2>1, SeqDef
  <2> QED
    BY <2>2 DEF NewPool, PoolsOf
<1>2. Pool(k, s) \in PoolsOf(s)
  BY <1>1 DEF Pool, BlocksAtHome
<1>3. ASSUME CanAllocate(Pool(k, s))
      PROVE  Head(Pool(k, s).free) \in Home(s) /\ Allocated(Pool(k, s)) \in PoolsOf(s)
  <2>1. Pool(k, s).free \in Seq(Home(s)) /\ Pool(k, s).free # <<>> /\ Pool(k, s).inUse \in Int
    BY <1>2, <1>3 DEF PoolsOf, CanAllocate
  <2>2. Head(Pool(k, s).free) \in Home(s) /\ Tail(Pool(k, s).free) \in Seq(Home(s))
    BY <2>1, HeadTailProperties
  <2> QED
    BY <2>1, <2>2 DEF Allocated, PoolsOf
<1>4. ASSUME NEW b \in Home(s) PROVE Deallocated(Pool(k, s), b) \in PoolsOf(s)
  <2>1. Pool(k, s).free \in Seq(Home(s)) /\ Pool(k, s).inUse \in Int /\ <<b>> \in Seq(Home(s))
    BY <1>2 DEF PoolsOf
  <2>2. <<b>> \o Pool(k, s).free \in Seq(Home(s))
    BY <2>1, ConcatProperties
  <2> QED
    BY <2>1, <2>2 DEF Deallocated, PoolsOf
<1> QED
  BY <1>2, <1>3, <1>4

\* What a step does that works on the pools of index s and the books of shard s.
ShardStep(s, P, O, L) ==
  /\ pools' = [k \in Kinds |-> [pools[k] EXCEPT ![s] = P[k]]]
  /\ orders' = [orders EXCEPT ![s] = O] /\ levels' = [levels EXCEPT ![s] = L]

\* It changes nothing elsewhere.
LEMMA ShardStepFacts ==
  ASSUME BlocksAtHome, NEW s \in Shards, NEW P, NEW O, NEW L, ShardStep(s, P, O, L)
  PROVE  /\ orders'[s] = O /\ levels'[s] = L /\ \A k \in Kinds : pools'[k][s] = P[k]
         /\ \A x \in Shards : x # s =>
              /\ orders'[x] = orders[x] /\ levels'[x] = levels[x]
              /\ \A k \in Kinds : pools'[k][x] = pools[k][x]
BY DEF ShardStep, BlocksAtHome

\* There it leaves the books it names.
LEMMA ShardStepHere ==
  ASSUME BlocksAtHome, NEW s \in Shards, NEW P, NEW O, NEW L, ShardStep(s, P, O, L)
  PROVE  orders'[s] = O /\ levels'[s] = L
BY ShardStepFacts

\* Changing pools of index s and books of shard s, to values that are at home
\* there, leaves every block at home.
LEMMA ShardUpdate ==
  ASSUME BlocksAtHome, NEW s \in Shards,
         NEW P, NEW O, NEW L, ShardStep(s, P, O, L),
         \A k \in Kinds : P[k] \in PoolsOf(s), NodesAtHome(s)'
  PROVE  BlocksAtHome'
<1>1. \A k \in Kinds, x \in Shards : pools'[k][x] = IF x = s THEN P[k] ELSE pools[k][x]
  BY ShardStepFacts
<1>2. pools' = [k \in Kinds |-> [x \in Shards |-> pools'[k][x]]]
  BY DEF BlocksAtHome, ShardStep
<1>3. \A x \in Shards : x # s => orders'[x] = orders[x] /\ levels'[x] = levels[x]
  BY ShardStepFacts
<1>4. \A x \in Shards : NodesAtHome(x)'
  BY <1>3 DEF BlocksAtHome, NodesAtHome
<1>5. /\ DOMAIN orders' = Shards /\ DOMAIN levels' = Shards
      /\ orders' = [x \in Shards |-> orders'[x]] /\ levels' = [x \in Shards |-> levels'[x]]
  BY Zenon DEF BlocksAtHome, ShardStep
<1>6. \A k \in Kinds, x \in Shards : pools'[k][x] \in PoolsOf(x)
  BY <1>1 DEF BlocksAtHome
<1>7. BlocksAtHome' <=>
        /\ pools' = [k \in Kinds |-> [x \in Shards |-> pools'[k][x]]]
        /\ \A k \in Kinds, x \in Shards : pools'[k][x] \in PoolsOf(x)
        /\ DOMAIN orders' = Shards /\ DOMAIN levels' = Shards
        /\ orders' = [x \in Shards |-> orders'[x]] /\ levels' = [x \in Shards |-> levels'[x]]
        /\ \A x \in Shards : NodesAtHome(x)'
  BY DEF BlocksAtHome, PoolsOf, Home
<1> QED
  BY <1>2, <1>4, <1>5, <1>6, <1>7

\* The blocks insert_resting_order() gets for a book of shard s: it asks the
\* three pools in turn and stops where one is empty.
TakesLevel(s, price) == price \notin DOMAIN levels[s] /\ CanAllocate(Pool("level", s))
TakesOrder(s, price) ==
  (price \in DOMAIN levels[s] \/ TakesLevel(s, price)) /\ CanAllocate(Pool("order", s))
TakesIndex(s, price) == TakesOrder(s, price) /\ CanAllocate(Pool("index", s))
Takes(s, price, k) == CASE k = "level" -> TakesLevel(s, price)
                        [] k = "order" -> TakesOrder(s, price)
                        [] k = "index" -> TakesIndex(s, price)
Block(k, s) == Head(Pool(k, s).free)
LevelsWith(s, price) ==
  IF TakesLevel(s, price) THEN Put(levels[s], price, Block("level", s)) ELSE levels[s]
OrdersWith(s, price) ==
  IF TakesOrder(s, price)
    THEN Put(orders[s], Block("order", s),
             [price |-> price,
              entry |-> IF TakesIndex(s, price) THEN Block("index", s) ELSE Nowhere])
    ELSE orders[s]
PoolsWithout(s, price) ==
  [k \in Kinds |-> IF Takes(s, price, k) THEN Allocated(Pool(k, s)) ELSE pools[k][s]]

\* What it does, on a thread that named the book's shard.
LEMMA InsertEffect ==
  ASSUME BlocksAtHome, NEW t, NEW s \in Shards, index[t] = s,
         NEW price \in PriceSet, InsertNodes(t, s, price)
  PROVE  /\ ShardStep(s, PoolsWithout(s, price), OrdersWith(s, price), LevelsWith(s, price))
         /\ failed' = IF TakesIndex(s, price) THEN failed ELSE s
<1> DEFINE newLevel == price \notin DOMAIN levels[s]
           hasLevel == ~newLevel \/ CanAllocate(Pool("level", s))
           hasOrder == hasLevel /\ CanAllocate(Pool("order", s))
           hasIndex == hasOrder /\ CanAllocate(Pool("index", s))
           taken    == (IF newLevel /\ hasLevel THEN {"level"} ELSE {})
                       \cup (IF hasOrder THEN {"order"} ELSE {})
                       \cup (IF hasIndex THEN {"index"} ELSE {})
<1>1. /\ pools' = [k \in Kinds |-> IF k \in taken THEN [pools[k] EXCEPT ![s] = Allocated(Pool(k, s))]
                                                  ELSE pools[k]]
      /\ levels' = IF "level" \in taken
                     THEN [levels EXCEPT ![s] = Put(levels[s], price, Block("level", s))] ELSE levels
      /\ orders' = IF hasOrder
                     THEN [orders EXCEPT ![s] = Put(orders[s], Block("order", s),
                             [price |-> price,
                              entry |-> IF hasIndex THEN Block("index", s) ELSE Nowhere])]
                     ELSE orders
      /\ failed' = IF hasIndex THEN failed ELSE s
  BY DEF InsertNodes, Block
<1>2. /\ hasOrder <=> TakesOrder(s, price)
      /\ hasIndex <=> TakesIndex(s, price)
      /\ "level" \in taken <=> TakesLevel(s, price)
      /\ \A k \in Kinds : k \in taken <=> Takes(s, price, k)
  BY DEF TakesOrder, TakesIndex, TakesLevel, Takes, Kinds
<1> HIDE DEF hasOrder, hasIndex, taken
<1>3. \A k \in Kinds : pools[k] = [pools[k] EXCEPT ![s] = pools[k][s]]
  BY DEF BlocksAtHome
<1>4. pools' = [k \in Kinds |-> [pools[k] EXCEPT ![s] = PoolsWithout(s, price)[k]]]
  BY <1>1, <1>2, <1>3 DEF PoolsWithout
<1>5. levels = [levels EXCEPT ![s] = levels[s]] /\ orders = [orders EXCEPT ![s] = orders[s]]
  BY Zenon DEF BlocksAtHome
<1> QED
  BY <1>1, <1>2, <1>4, <1>5, Zenon DEF LevelsWith, OrdersWith, ShardStep

\* The blocks taken are free ones of the shard's own pools.
LEMMA TakenBlocks ==
  ASSUME BlocksAtHome, NEW s \in Shards, NEW price, NEW k \in Kinds, Takes(s, price, k)
  PROVE  CanAllocate(Pool(k, s)) /\ Block(k, s) \in Home(s) /\ Allocated(Pool(k, s)) \in PoolsOf(s)
<1>1. CanAllocate(Pool(k, s))
  BY Zenon DEF Takes, TakesLevel, TakesOrder, TakesIndex, Kinds
<1> QED
  BY <1>1, PoolFacts DEF Block

\* insert_resting_order() leaves every block at home.
LEMMA InsertKeepsHome ==
  ASSUME BlocksAtHome, NEW t, NEW s \in Shards, index[t] = s,
         NEW price \in PriceSet, InsertNodes(t, s, price)
  PROVE  BlocksAtHome'
<1> DEFINE L == LevelsWith(s, price)
           O == OrdersWith(s, price)
           P == PoolsWithout(s, price)
<1>1. \A k \in Kinds : P[k] \in PoolsOf(s)
  BY TakenBlocks DEF PoolsWithout, BlocksAtHome
<1>2. /\ TakesLevel(s, price) => Block("level", s) \in Home(s)
      /\ TakesOrder(s, price) => Block("order", s) \in Home(s)
      /\ TakesIndex(s, price) => Block("index", s) \in Home(s)
  BY TakenBlocks DEF Takes, Kinds
<1>3. levels'[s] = L /\ orders'[s] = O /\ NodesAtHome(s)
  BY InsertEffect, ShardStepFacts DEF BlocksAtHome
<1>4. /\ L \in [DOMAIN L -> Home(s)] /\ DOMAIN levels[s] \subseteq DOMAIN L
      /\ TakesOrder(s, price) => price \in DOMAIN L
  BY <1>2, <1>3 DEF NodesAtHome, Put, LevelsWith, TakesOrder
<1>5. /\ O \in [DOMAIN O -> [price : PriceSet, entry : Home(s) \cup {Nowhere}]]
      /\ DOMAIN O \subseteq Home(s)
      /\ \A o \in DOMAIN O : O[o].price \in DOMAIN L
  <2>1. CASE TakesOrder(s, price)
    <3> DEFINE new == [price |-> price,
                       entry |-> IF TakesIndex(s, price) THEN Block("index", s) ELSE Nowhere]
    <3>1. new \in [price : PriceSet, entry : Home(s) \cup {Nowhere}] /\ new.price = price
      BY <1>2, Zenon
    <3>2. O = Put(orders[s], Block("order", s), new)
      BY <2>1 DEF OrdersWith
    <3> HIDE DEF new, O
    <3> QED
      BY <1>2, <1>3, <1>4, <2>1, <3>1, <3>2 DEF NodesAtHome, Put
  <2>2. CASE ~TakesOrder(s, price)
    BY <1>3, <1>4, <2>2, Zenon DEF NodesAtHome, OrdersWith
  <2> QED
    BY <2>1, <2>2, Zenon
<1>6. NodesAtHome(s)'
  <2> HIDE DEF L, O
  <2> QED
    BY <1>3, <1>4, <1>5 DEF NodesAtHome
<1> QED
  <2> HIDE DEF P, L, O
  <2>1. ShardStep(s, P, O, L)
    BY InsertEffect DEF P, L, O
  <2> QED
    BY <1>1, <1>6, <2>1, ShardUpdate

\* What remove_resting_order(), or a book's destructor, leaves.
LevelsLess(s, o) == IF LastAt(s, o) THEN Erase(levels[s], orders[s][o].price) ELSE levels[s]
PoolsWith(s, o) ==
  [k \in Kinds |-> IF Freed(s, o, k) THEN Deallocated(Pool(k, s), NodeOf(s, o, k))
                                     ELSE pools[k][s]]

\* On a thread that named the book's shard it does this.
LEMMA RemoveEffect ==
  ASSUME BlocksAtHome, NEW t, NEW s \in Shards, index[t] = s,
         NEW o \in DOMAIN orders[s], RemoveNodes(t, s, o)
  PROVE  ShardStep(s, PoolsWith(s, o), Erase(orders[s], o), LevelsLess(s, o))
BY Zenon DEF RemoveNodes, BlocksAtHome, PoolsWith, LevelsLess, ShardStep

\* It leaves every block at home.
LEMMA RemoveKeepsHome ==
  ASSUME BlocksAtHome, NEW t, NEW s \in Shards, index[t] = s,
         NEW o \in DOMAIN orders[s], RemoveNodes(t, s, o)
  PROVE  BlocksAtHome'
<1> DEFINE P == PoolsWith(s, o)
           L == LevelsLess(s, o)
           O == Erase(orders[s], o)
<1>1. NodesAtHome(s) /\ orders[s][o].price \in DOMAIN levels[s]
  BY DEF BlocksAtHome, NodesAtHome
<1>2. \A k \in Kinds : Freed(s, o, k) => NodeOf(s, o, k) \in Home(s)
  BY <1>1, Zenon DEF Kinds, Freed, NodeOf, NodesAtHome
<1>3. \A k \in Kinds : P[k] \in PoolsOf(s)
  BY <1>2, PoolFacts DEF BlocksAtHome, PoolsWith
<1>4. levels'[s] = L /\ orders'[s] = O
  <2>1. ShardStep(s, P, O, L)
    BY RemoveEffect
  <2> HIDE DEF P, O, L
  <2> QED
    BY <2>1, ShardStepHere, Zenon
<1>5. L \in [DOMAIN L -> Home(s)]
  BY <1>1 DEF NodesAtHome, Erase, Restrict, LevelsLess
<1>6. O \in [DOMAIN O -> [price : PriceSet, entry : Home(s) \cup {Nowhere}]]
  BY <1>1 DEF NodesAtHome, Erase, Restrict
<1>7. DOMAIN O \subseteq Home(s) /\ \A x \in DOMAIN O : O[x].price \in DOMAIN L
  BY <1>1 DEF NodesAtHome, Erase, Restrict, LastAt, LevelsLess
<1>8. NodesAtHome(s)'
  <2> HIDE DEF L, O
  <2> QED
    BY <1>4, <1>5, <1>6, <1>7 DEF NodesAtHome
<1> QED
  <2> HIDE DEF P, L, O
  <2>1. ShardStep(s, P, O, L)
    BY RemoveEffect DEF P, L, O
  <2> QED
    BY <1>3, <1>8, <2>1, ShardUpdate

\* A level without orders: its node goes back, nothing else changes.
PoolsWithLevel(s, p) ==
  [k \in Kinds |-> IF k = "level" THEN Deallocated(Pool(k, s), levels[s][p]) ELSE pools[k][s]]

\* Destroying it, on a thread that named its shard, does this.
LEMMA EmptyLevelEffect ==
  ASSUME BlocksAtHome, NEW s \in Shards, s = next, index[Owner] = s,
         NEW p \in DOMAIN levels[s], DestroyEmptyLevel(p)
  PROVE  ShardStep(s, PoolsWithLevel(s, p), orders[s], Erase(levels[s], p))
BY Zenon DEF DestroyEmptyLevel, BlocksAtHome, Kinds, PoolsWithLevel, ShardStep

\* And leaves every block at home.
LEMMA EmptyLevelKeepsHome ==
  ASSUME BlocksAtHome, NEW s \in Shards, s = next, index[Owner] = s,
         NEW p \in DOMAIN levels[s], DestroyEmptyLevel(p)
  PROVE  BlocksAtHome'
<1> DEFINE P == PoolsWithLevel(s, p)
           L == Erase(levels[s], p)
<1>1. NodesAtHome(s) /\ levels[s][p] \in Home(s)
  BY DEF BlocksAtHome, NodesAtHome
<1>2. \A k \in Kinds : P[k] \in PoolsOf(s)
  BY <1>1, PoolFacts, Zenon DEF BlocksAtHome, PoolsWithLevel
<1>3. levels'[s] = L /\ orders'[s] = orders[s]
  BY EmptyLevelEffect, ShardStepFacts
<1>4. \A o \in DOMAIN orders[s] : orders[s][o].price # p
  BY DEF DestroyEmptyLevel
<1>5. NodesAtHome(s)'
  BY <1>1, <1>3, <1>4 DEF NodesAtHome, Erase, Restrict
<1> QED
  <2> HIDE DEF P, L
  <2>1. ShardStep(s, P, orders[s], L)
    BY EmptyLevelEffect DEF P, L
  <2> QED
    BY <1>2, <1>5, <2>1, ShardUpdate, Zenon

-----------------------------------------------------------------------------
\* process_pending() meets messages only of the shard its caller is at: none of
\* them under a PipelineRunner, and shard 0 in a process's first pipeline.
PendingAtHome == \A r \in 1 .. MaxRuns : PendingShards[r] \subseteq {OwnerAt(r)}

\* The owner's thread is none of the decoders.
LEMMA IndexFacts ==
  /\ Shards \subseteq Threads /\ Owner \in Threads /\ Owner \notin Shards /\ 0 \in Shards
  /\ \A s \in Shards : s \in Int /\ (s + 1 < NumShards => s + 1 \in Shards)
  /\ \A s \in Shards : s + 1 = NumShards => s = NumShards - 1 /\ \A x \in Shards : x # s => x < s
  /\ \A x, s \in Shards : x < s + 1 => x < s \/ x = s
BY DEF Shards, Threads, Owner

\* No pool exists before the first node.
LEMMA PoolInitEstablishes == PoolInit => PoolOwnership
<1> SUFFICES ASSUME PoolInit PROVE PoolOwnership
  OBVIOUS
<1>1. \A s \in Shards : NoPool \in PoolsOf(s)
  BY EmptySeq DEF NoPool, PoolsOf
<1>2. BlocksAtHome
  BY <1>1 DEF PoolInit, BlocksAtHome, NodesAtHome
<1>3. ThreadsNamed
  BY IndexFacts DEF PoolInit, ThreadsNamed, OwnerAt
<1>4. BooksEmpty
  BY DEF PoolInit, BooksEmpty, NoNodes
<1> QED
  BY <1>2, <1>3, <1>4 DEF PoolOwnership

\* A step that fills or empties books works on those of one shard, under its
\* name: a decoder's, process_pending()'s or the destructor's.
InsertStep(s) ==
  /\ \E t \in Threads, price \in PriceSet : index[t] = s /\ InsertNodes(t, s, price)
  /\ stage' = IF failed' = NoShard THEN stage
              ELSE IF stage = "running" THEN "terminated" ELSE "joined"
  /\ stage \in {"running", "solo"}
RemoveStep(s) ==
  /\ \E t \in Threads, o \in DOMAIN orders[s] : index[t] = s /\ RemoveNodes(t, s, o)
  /\ UNCHANGED <<failed, stage>>
EmptyLevelStep(s) ==
  /\ s = next /\ index[Owner] = s /\ \E p \in DOMAIN levels[s] : DestroyEmptyLevel(p)
  /\ UNCHANGED <<failed, stage>>
BookStep(s) ==
  /\ InsertStep(s) \/ RemoveStep(s) \/ EmptyLevelStep(s)
  /\ UNCHANGED <<index, decoder, next, runs>>
  /\ \/ stage = "running" /\ decoder[s] = "ready"
     \/ stage = "solo" /\ s \in PendingShards[runs]
     \/ stage = "destroying" /\ s = next

\* The other steps leave pools and books alone.
OtherStep ==
  /\ Construct \/ StartDecoders \/ JoinDecoders \/ DestroyBegin \/ DestroyNext
     \/ (\E i \in Shards : SetShardIndex(i) \/ DecoderExit(i)) \/ UNCHANGED poolVars
  /\ UNCHANGED <<pools, orders, levels>>

\* There are no other steps.
LEMMA StepForms ==
  ASSUME PendingAtHome, PoolOwnership, [PoolNext]_poolVars
  PROVE  OtherStep \/ \E s \in Shards : BookStep(s)
<1> USE IndexFacts
<1>1. CASE \/ Construct \/ StartDecoders \/ JoinDecoders \/ DestroyBegin \/ DestroyNext
           \/ (\E i \in Shards : SetShardIndex(i) \/ DecoderExit(i)) \/ UNCHANGED poolVars
  BY <1>1, Zenon DEF OtherStep, Construct, StartDecoders, JoinDecoders, DestroyBegin, DestroyNext,
              SetShardIndex, DecoderExit, poolVars, bookNodes
<1>2. ASSUME NEW i \in Shards, NEW p \in PriceSet, DecoderInsert(i, p) PROVE BookStep(i)
  <2>1. index[i] = i /\ i \in Threads
    BY <1>2 DEF DecoderInsert, PoolOwnership, ThreadsNamed
  <2> QED
    BY <1>2, <2>1, Zenon DEF DecoderInsert, BookStep, InsertStep
<1>3. ASSUME NEW i \in Shards, NEW o \in DOMAIN orders[i], DecoderRemove(i, o) PROVE BookStep(i)
  <2>1. index[i] = i /\ i \in Threads
    BY <1>3 DEF DecoderRemove, PoolOwnership, ThreadsNamed
  <2> QED
    BY <1>3, <2>1, Zenon DEF DecoderRemove, BookStep, RemoveStep
<1>4. ASSUME NEW i \in Shards, stage = "solo", i \in PendingShards[runs]
      PROVE  index[Owner] = i /\ Owner \in Threads
  <2>1. runs \in 1 .. MaxRuns /\ index[Owner] = OwnerAt(runs)
    BY <1>4 DEF PoolOwnership, ThreadsNamed
  <2> QED
    BY <1>4, <2>1 DEF PendingAtHome
<1>5. ASSUME NEW i \in Shards, NEW p \in PriceSet, PendingInsert(i, p) PROVE BookStep(i)
  BY <1>4, <1>5 DEF PendingInsert, BookStep, InsertStep
<1>6. ASSUME NEW i \in Shards, NEW o \in DOMAIN orders[i], PendingRemove(i, o) PROVE BookStep(i)
  <2>1. i \in PendingShards[runs] /\ stage = "solo"
    BY <1>6 DEF PendingRemove, PoolOwnership, BooksEmpty, NoNodes
  <2> QED
    BY <1>4, <1>6, <2>1, Zenon DEF PendingRemove, BookStep, RemoveStep
<1>7. ASSUME stage = "destroying" PROVE next \in Shards /\ index[Owner] = next /\ Owner \in Threads
  BY <1>7 DEF PoolOwnership, ThreadsNamed
<1>8. ASSUME NEW o \in DOMAIN orders[next], DestroyOrder(o) PROVE BookStep(next)
  BY <1>7, <1>8 DEF DestroyOrder, BookStep, RemoveStep
<1>9. ASSUME NEW p \in DOMAIN levels[next], DestroyEmptyLevel(p) PROVE BookStep(next)
  BY <1>7, <1>9, Zenon DEF DestroyEmptyLevel, BookStep, EmptyLevelStep
<1>10. (stage = "destroying" => next \in Shards) /\
       \A o : (DestroyOrder(o) \/ DestroyEmptyLevel(o)) => stage = "destroying"
  BY <1>7 DEF DestroyOrder, DestroyEmptyLevel
<1> QED
  BY <1>1, <1>2, <1>3, <1>5, <1>6, <1>8, <1>9, <1>10, Zenon DEF PoolNext

\* A step on the books of one shard leaves every block at home,
LEMMA BookStepHome ==
  ASSUME BlocksAtHome, NEW s \in Shards, BookStep(s)
  PROVE  BlocksAtHome'
<1>1. CASE InsertStep(s)
  BY <1>1, InsertKeepsHome DEF InsertStep
<1>2. CASE RemoveStep(s)
  BY <1>2, RemoveKeepsHome, Zenon DEF RemoveStep
<1>3. CASE EmptyLevelStep(s)
  BY <1>3, EmptyLevelKeepsHome, Zenon DEF EmptyLevelStep
<1> QED
  BY <1>1, <1>2, <1>3 DEF BookStep

\* and the other shards as they were.
LEMMA BookStepOthers ==
  ASSUME BlocksAtHome, NEW s \in Shards, BookStep(s), NEW x \in Shards, x # s
  PROVE  /\ orders'[x] = orders[x] /\ levels'[x] = levels[x]
         /\ \A k \in Kinds : pools'[k][x] = pools[k][x]
<1>1. CASE InsertStep(s)
  <2>1. PICK t \in Threads, price \in PriceSet : index[t] = s /\ InsertNodes(t, s, price)
    BY <1>1, Zenon DEF InsertStep
  <2> QED
    BY <2>1, InsertEffect, ShardStepFacts
<1>2. CASE RemoveStep(s)
  <2>1. PICK t \in Threads, o \in DOMAIN orders[s] : index[t] = s /\ RemoveNodes(t, s, o)
    BY <1>2 DEF RemoveStep
  <2> QED
    <3>1. ShardStep(s, PoolsWith(s, o), Erase(orders[s], o), LevelsLess(s, o))
      BY <2>1, RemoveEffect, Zenon
    <3> QED
      BY <1>2, <3>1, ShardStepFacts
<1>3. CASE EmptyLevelStep(s)
  <2>1. PICK p \in DOMAIN levels[s] : DestroyEmptyLevel(p)
    BY <1>3 DEF EmptyLevelStep
  <2>2. s = next /\ index[Owner] = s
    BY <1>3 DEF EmptyLevelStep
  <2> QED
    BY <2>1, <2>2, EmptyLevelEffect, ShardStepFacts
<1> QED
  BY <1>1, <1>2, <1>3, Zenon DEF BookStep

\* PoolOwnership survives every step.
LEMMA PoolStepPreserves ==
  ASSUME PendingAtHome, PoolOwnership, [PoolNext]_poolVars
  PROVE  PoolOwnership'
<1> USE IndexFacts DEF PoolOwnership
<1>1. ASSUME NEW s \in Shards, BookStep(s) PROVE PoolOwnership'
  <2>1. BlocksAtHome'
    BY <1>1, BookStepHome
  <2>2. /\ UNCHANGED <<index, decoder, next, runs>>
        /\ stage' = stage \/ (stage = "running" /\ stage' = "terminated")
                          \/ (stage = "solo" /\ stage' = "joined")
    BY <1>1 DEF BookStep, InsertStep, RemoveStep, EmptyLevelStep
  <2>3. ThreadsNamed'
    BY <2>2 DEF ThreadsNamed
  <2>4. \A x \in Shards : x # s /\ NoNodes(x) => NoNodes(x)'
    BY <1>1, BookStepOthers, Zenon DEF NoNodes
  <2>5. stage' = stage => stage = "running" \/ (stage = "solo" /\ s \in PendingShards[runs])
                            \/ (stage = "destroying" /\ s = next)
    BY <1>1 DEF BookStep
  <2>6. BooksEmpty'
    BY <2>2, <2>4, <2>5 DEF BooksEmpty
  <2> QED
    BY <2>1, <2>3, <2>6
<1>2. CASE OtherStep
  <2>1. BlocksAtHome' /\ \A x \in Shards : NoNodes(x) => NoNodes(x)'
    BY <1>2 DEF OtherStep, BlocksAtHome, NodesAtHome, NoNodes
  <2>2. CASE Construct
    <3>1. ThreadsNamed'
      BY <2>2 DEF Construct, ThreadsNamed
    <3>2. BooksEmpty'
      BY <2>1, <2>2, Zenon DEF Construct, BooksEmpty
    <3> QED
      BY <2>1, <3>1, <3>2, Zenon
  <2>3. CASE StartDecoders
    BY <2>1, <2>3, Zenon DEF StartDecoders, ThreadsNamed, BooksEmpty
  <2>4. CASE JoinDecoders
    BY <2>1, <2>4, Zenon DEF JoinDecoders, ThreadsNamed, BooksEmpty
  <2>5. CASE DestroyBegin
    <3>1. ThreadsNamed'
      BY <2>5 DEF DestroyBegin, ThreadsNamed
    <3>2. BooksEmpty'
      BY <2>5 DEF DestroyBegin, BooksEmpty, Shards
    <3> QED
      BY <2>1, <3>1, <3>2
  <2>6. CASE DestroyNext
    <3>1. stage = "destroying" /\ next \in Shards /\ NoNodes(next) /\ index[Owner] = next
      BY <2>6, Zenon DEF DestroyNext, ThreadsNamed, NoNodes
    <3>2. CASE next + 1 < NumShards /\ next' = next + 1 /\ index' = [index EXCEPT ![Owner] = next + 1]
               /\ stage' = stage /\ UNCHANGED <<decoder, runs>>
      <4>1. ThreadsNamed'
        BY <3>1, <3>2, Zenon DEF ThreadsNamed
      <4>2. BooksEmpty'
        BY <2>1, <3>1, <3>2, Zenon DEF BooksEmpty
      <4> QED
        BY <2>1, <4>1, <4>2
    <3>3. CASE next + 1 = NumShards /\ next' = 0 /\ index' = index
               /\ stage' = "none" /\ UNCHANGED <<decoder, runs>>
      <4>1. runs \in 1 .. MaxRuns /\ index[Owner] = OwnerAt(runs + 1)
        BY <3>1, <3>3 DEF ThreadsNamed, OwnerAt
      <4>2. ThreadsNamed'
        BY <3>1, <3>3, <4>1, Zenon DEF ThreadsNamed
      <4>3. BooksEmpty'
        BY <2>1, <3>1, <3>3, Zenon DEF BooksEmpty
      <4> QED
        BY <2>1, <4>2, <4>3
    <3> QED
      BY <2>6, <3>2, <3>3, Zenon DEF DestroyNext
  <2>7. ASSUME NEW i \in Shards, SetShardIndex(i) PROVE PoolOwnership'
    <3>1. ThreadsNamed'
      BY <2>7 DEF SetShardIndex, ThreadsNamed
    <3>2. BooksEmpty'
      BY <2>1, <2>7, Zenon DEF SetShardIndex, BooksEmpty
    <3> QED
      BY <2>1, <3>1, <3>2, Zenon
  <2>8. ASSUME NEW i \in Shards, DecoderExit(i) PROVE PoolOwnership'
    BY <2>1, <2>8, Zenon DEF DecoderExit, ThreadsNamed, BooksEmpty
  <2>9. CASE UNCHANGED poolVars
    BY <2>1, <2>9 DEF poolVars, bookNodes, ThreadsNamed, BooksEmpty
  <2> QED
    <3> HIDE DEF PoolOwnership
    <3> QED
      BY <1>2, <2>2, <2>3, <2>4, <2>5, <2>6, <2>7, <2>8, <2>9, Zenon DEF OtherStep
<1> QED
  <2> HIDE DEF PoolOwnership
  <2> QED
    BY <1>1, <1>2, StepForms, Zenon

\* It holds throughout.
LEMMA PoolOwnershipInvariant ==
  ASSUME PendingAtHome
  PROVE  PoolSpec => []PoolOwnership
<1>1. PoolOwnership /\ [PoolNext]_poolVars => PoolOwnership'
  BY PoolStepPreserves
<1> QED
  BY <1>1, PoolInitEstablishes, PTL DEF PoolSpec

-----------------------------------------------------------------------------
\* Every block freed goes back to the pool it came from: the assertion in
\* deallocate() holds for any number of shards and pipelines.
THEOREM PoolsKeepTheirBlocks ==
  ASSUME PendingAtHome
  PROVE  PoolSpec => []OwnPoolOnly
<1>1. PoolOwnership => OwnPoolOnly
  <2> SUFFICES ASSUME PoolOwnership, NEW k \in Kinds, NEW s \in Shards,
                      NEW n \in 1 .. Len(pools[k][s].free)
               PROVE  pools[k][s].free[n][1] = s
    BY DEF OwnPoolOnly
  <2>1. pools[k][s].free \in Seq(Home(s))
    BY DEF PoolOwnership, BlocksAtHome, PoolsOf
  <2>2. pools[k][s].free[n] \in Home(s)
    BY <2>1, ElementOfSeq, Zenon
  <2> QED
    BY <2>2 DEF Home
<1> QED
  BY <1>1, PoolOwnershipInvariant, PTL

\* No pool is used by two threads at once: pools need no lock.
THEOREM PoolsAreNotShared ==
  ASSUME PendingAtHome
  PROVE  PoolSpec => []OnePoolUser
<1>1. PoolOwnership => OnePoolUser
  BY Zenon DEF PoolOwnership, ThreadsNamed, OnePoolUser
<1> QED
  BY <1>1, PoolOwnershipInvariant, PTL

-----------------------------------------------------------------------------
(***************************************************************************)
(* Blocks are counted.                                                     *)
(***************************************************************************)

\* A pool whose blocks in use are H: every block is free or in use, once.
PoolOK(p, H) ==
  /\ \A m, n \in 1 .. Len(p.free) : p.free[m] = p.free[n] => m = n
  /\ \A n \in 1 .. Len(p.free) : p.free[n] \notin H
  /\ IsFiniteSet(H) /\ p.inUse = Cardinality(H) /\ p.inUse + Len(p.free) = Capacity

\* No block serves two nodes.
NodesDiffer(s) ==
  /\ \A a, b \in DOMAIN orders[s] :
       orders[s][a].entry = orders[s][b].entry /\ orders[s][a].entry # Nowhere => a = b
  /\ \A p, q \in DOMAIN levels[s] : levels[s][p] = levels[s][q] => p = q

\* A pool that is yet to be constructed counts as the one it will be.
BlocksCounted ==
  \A s \in Shards : NodesDiffer(s) /\ \A k \in Kinds : PoolOK(Pool(k, s), Held(s, k))

\* allocate() moves the first free block into use.
LEMMA AllocateCounts ==
  ASSUME NEW s, NEW p \in PoolsOf(s), NEW H, PoolOK(p, H), CanAllocate(p)
  PROVE  Head(p.free) \notin H /\ PoolOK(Allocated(p), H \cup {Head(p.free)})
<1> DEFINE b == Head(p.free)
           q == Allocated(p)
<1>1. p.free \in Seq(Home(s)) /\ p.free # <<>> /\ p.inUse \in Int
  BY DEF PoolsOf, CanAllocate
<1>2. /\ Len(p.free) \in Nat \ {0} /\ b = p.free[1]
      /\ Len(Tail(p.free)) = Len(p.free) - 1
      /\ \A n \in 1 .. Len(Tail(p.free)) : Tail(p.free)[n] = p.free[n + 1]
  BY <1>1, HeadTailProperties
<1>3. q.free = Tail(p.free) /\ q.inUse = p.inUse + 1
  BY DEF Allocated
<1>4. b \notin H
  BY <1>2 DEF PoolOK
<1>5. IsFiniteSet(H) /\ IsFiniteSet(H \cup {b}) /\ Cardinality(H \cup {b}) = Cardinality(H) + 1
  BY <1>4, FS_AddElement, Zenon DEF PoolOK
<1>6. q.inUse = Cardinality(H \cup {b}) /\ q.inUse + Len(q.free) = Capacity
  BY <1>1, <1>2, <1>3, <1>5 DEF PoolOK
<1> HIDE DEF b, q
<1>7. \A n \in 1 .. Len(q.free) :
        n + 1 \in 1 .. Len(p.free) /\ 1 \in 1 .. Len(p.free) /\ q.free[n] = p.free[n + 1] /\ n + 1 # 1
  BY <1>2, <1>3
<1>8. \A n \in 1 .. Len(q.free) : q.free[n] \notin H \cup {b}
  <2>1. /\ \A n \in 1 .. Len(p.free) : p.free[n] \notin H
        /\ \A m, n \in 1 .. Len(p.free) : p.free[m] = p.free[n] => m = n
    BY Zenon DEF PoolOK
  <2> TAKE n \in 1 .. Len(q.free)
  <2>2. p.free[n + 1] \notin H /\ p.free[n + 1] # b
    BY <1>2, <1>7, <2>1, Zenon
  <2> QED
    BY <1>7, <2>2, Zenon
<1>9. \A m, n \in 1 .. Len(q.free) : q.free[m] = q.free[n] => m = n
  <2> TAKE m, n \in 1 .. Len(q.free)
  <2> HAVE q.free[m] = q.free[n]
  <2>1. m + 1 = n + 1
    BY <1>7, Zenon DEF PoolOK
  <2> QED
    BY <2>1
<1>10. PoolOK(q, H \cup {b})
  BY <1>5, <1>6, <1>8, <1>9 DEF PoolOK
<1> QED
  BY <1>4, <1>10, Zenon DEF b, q

\* deallocate() makes a block in use the first free one.
LEMMA DeallocateCounts ==
  ASSUME NEW s, NEW p \in PoolsOf(s), NEW H, PoolOK(p, H), NEW b \in H
  PROVE  PoolOK(Deallocated(p, b), H \ {b}) /\ Deallocated(p, b).inUse \in Nat
<1> DEFINE q == Deallocated(p, b)
<1>1. p.free \in Seq(Home(s)) /\ p.inUse \in Int /\ Len(p.free) \in Nat
  BY DEF PoolsOf
<1>2. q.free = <<b>> \o p.free /\ q.inUse = p.inUse - 1
  BY DEF Deallocated
<1>3. /\ Len(q.free) = Len(p.free) + 1 /\ q.free[1] = b
      /\ \A n \in 1 .. Len(q.free) : n # 1 => n - 1 \in 1 .. Len(p.free) /\ q.free[n] = p.free[n - 1]
  BY <1>1, <1>2
<1>4. /\ IsFiniteSet(H) /\ IsFiniteSet(H \ {b}) /\ Cardinality(H \ {b}) = Cardinality(H) - 1
      /\ Cardinality(H \ {b}) \in Nat
  BY FS_RemoveElement, FS_CardinalityType, Zenon DEF PoolOK
<1>5. q.inUse = Cardinality(H \ {b}) /\ q.inUse + Len(q.free) = Capacity /\ q.inUse \in Nat
  BY <1>1, <1>2, <1>3, <1>4 DEF PoolOK
<1> HIDE DEF q
<1>6. \A n \in 1 .. Len(q.free) : q.free[n] \notin H \ {b}
  BY <1>3, Zenon DEF PoolOK
<1>7. \A n \in 1 .. Len(q.free) : n # 1 => q.free[n] # b
  <2> TAKE n \in 1 .. Len(q.free)
  <2> HAVE n # 1
  <2>1. n - 1 \in 1 .. Len(p.free) /\ q.free[n] = p.free[n - 1]
    BY <1>3
  <2>2. p.free[n - 1] \notin H
    BY <2>1, Zenon DEF PoolOK
  <2> QED
    BY <2>1, <2>2
<1>8. \A m, n \in 1 .. Len(q.free) : q.free[m] = q.free[n] => m = n
  <2> TAKE m, n \in 1 .. Len(q.free)
  <2> HAVE q.free[m] = q.free[n]
  <2>1. CASE m = 1 \/ n = 1
    BY <1>3, <1>7, <2>1, Zenon
  <2>2. CASE m # 1 /\ n # 1
    <3>1. m - 1 = n - 1
      BY <1>3, <2>2, Zenon DEF PoolOK
    <3> QED
      BY <3>1
  <2> QED
    BY <2>1, <2>2, Zenon
<1>9. PoolOK(q, H \ {b})
  BY <1>4, <1>5, <1>6, <1>8, Zenon DEF PoolOK
<1> QED
  BY <1>5, <1>9 DEF q

\* The nodes held, by kind.
LEMMA HeldBy ==
  ASSUME NEW s
  PROVE  /\ Held(s, "order") = DOMAIN orders[s]
         /\ Held(s, "index") = {orders[s][o].entry : o \in DOMAIN orders[s]} \ {Nowhere}
         /\ Held(s, "level") = {levels[s][p] : p \in DOMAIN levels[s]}
BY DEF Held

\* Nowhere is no block.
LEMMA NowhereIsNone == \A s \in Shards : Nowhere \notin Home(s)
BY DEF Home, Nowhere, Shards

\* Counting goes on when one shard's pools and books change together.
LEMMA CountsFollow ==
  ASSUME BlocksAtHome, BlocksCounted, NEW s \in Shards, BookStep(s),
         NodesDiffer(s)', \A k \in Kinds : PoolOK(Pool(k, s), Held(s, k))'
  PROVE  BlocksCounted'
<1>1. ASSUME NEW x \in Shards, x # s PROVE NodesDiffer(x)' /\ \A k \in Kinds : PoolOK(Pool(k, x), Held(x, k))'
  <2>1. /\ orders'[x] = orders[x] /\ levels'[x] = levels[x]
        /\ \A k \in Kinds : pools'[k][x] = pools[k][x]
    BY <1>1, BookStepOthers, Zenon
  <2>2. NodesDiffer(x)'
    BY <2>1, Zenon DEF BlocksCounted, NodesDiffer
  <2>3. ASSUME NEW k \in Kinds PROVE PoolOK(Pool(k, x), Held(x, k))'
    <3>1. Pool(k, x)' = Pool(k, x) /\ Held(x, k)' = Held(x, k)
      BY <2>1 DEF Pool, Held
    <3>2. PoolOK(Pool(k, x), Held(x, k))
      BY Zenon DEF BlocksCounted
    <3> QED
      BY <3>1, <3>2 DEF PoolOK
  <2> QED
    BY <2>2, <2>3, Zenon
<1> QED
  BY <1>1 DEF BlocksCounted

\* A pool as it is after the step, from what the step made of it.
LEMMA PoolAfter ==
  ASSUME BlocksAtHome, NEW s \in Shards, NEW k \in Kinds,
         NEW P, NEW O, NEW L, ShardStep(s, P, O, L)
  PROVE  /\ P[k] = pools[k][s] => Pool(k, s)' = Pool(k, s)
         /\ P[k].inUse \in Nat => Pool(k, s)' = P[k]
<1>1. pools'[k][s] = P[k]
  BY ShardStepFacts
<1>2. P[k] = pools[k][s] => Pool(k, s)' = Pool(k, s)
  BY <1>1 DEF Pool
<1>3. P[k].inUse \in Nat => P[k] # NoPool
  BY DEF NoPool
<1> QED
  BY <1>1, <1>2, <1>3, Zenon DEF Pool

\* A kind whose block was taken, or was not.
LEMMA TakenCounts ==
  ASSUME BlocksAtHome, BlocksCounted, NEW t, NEW s \in Shards, index[t] = s,
         NEW price \in PriceSet, InsertNodes(t, s, price), NEW k \in Kinds
  PROVE  /\ Takes(s, price, k) =>
              /\ Block(k, s) \in Home(s) /\ Block(k, s) \notin Held(s, k)
              /\ PoolOK(Pool(k, s)', Held(s, k) \cup {Block(k, s)})
         /\ ~Takes(s, price, k) => PoolOK(Pool(k, s)', Held(s, k))
<1> DEFINE P == PoolsWithout(s, price)
<1>1. ShardStep(s, P, OrdersWith(s, price), LevelsWith(s, price))
  BY InsertEffect, Zenon
<1>2. PoolOK(Pool(k, s), Held(s, k)) /\ Pool(k, s) \in PoolsOf(s)
  BY PoolFacts DEF BlocksCounted
<1>3. ASSUME Takes(s, price, k)
      PROVE  /\ Block(k, s) \in Home(s) /\ Block(k, s) \notin Held(s, k)
             /\ PoolOK(Pool(k, s)', Held(s, k) \cup {Block(k, s)})
  <2>1. CanAllocate(Pool(k, s)) /\ Block(k, s) \in Home(s)
    BY <1>3, TakenBlocks, Zenon
  <2>2. /\ Block(k, s) \notin Held(s, k)
        /\ PoolOK(Allocated(Pool(k, s)), Held(s, k) \cup {Block(k, s)})
    BY <1>2, <2>1, AllocateCounts, Zenon DEF Block
  <2>3. P[k] = Allocated(Pool(k, s))
    BY <1>3, Zenon DEF PoolsWithout
  <2>4. P[k].inUse \in Nat
    BY <2>2, <2>3, FS_CardinalityType DEF PoolOK
  <2>5. Pool(k, s)' = P[k]
    <3> HIDE DEF P
    <3> QED
      BY <1>1, <2>4, PoolAfter, Zenon
  <2> QED
    BY <2>1, <2>2, <2>3, <2>5, Zenon
<1>4. ASSUME ~Takes(s, price, k) PROVE PoolOK(Pool(k, s)', Held(s, k))
  <2>1. P[k] = pools[k][s]
    BY <1>4, Zenon DEF PoolsWithout
  <2>2. Pool(k, s)' = Pool(k, s)
    <3> HIDE DEF P
    <3> QED
      BY <1>1, <2>1, PoolAfter, Zenon
  <2> QED
    BY <1>2, <2>2, Zenon
<1> QED
  BY <1>3, <1>4, Zenon

\* insert_resting_order() keeps count, wherever it stops.
LEMMA InsertCounts ==
  ASSUME BlocksAtHome, BlocksCounted, NEW t, NEW s \in Shards, index[t] = s,
         NEW price \in PriceSet, InsertNodes(t, s, price)
  PROVE  NodesDiffer(s)' /\ \A k \in Kinds : PoolOK(Pool(k, s), Held(s, k))'
<1> DEFINE bo == Block("order", s)
           bi == Block("index", s)
           bl == Block("level", s)
           E == IF TakesIndex(s, price) THEN bi ELSE Nowhere
<1>1. levels'[s] = LevelsWith(s, price) /\ orders'[s] = OrdersWith(s, price)
  BY InsertEffect, ShardStepFacts
<1>2. NodesAtHome(s) /\ NodesDiffer(s)
  BY DEF BlocksAtHome, BlocksCounted
<1>3. /\ Takes(s, price, "order") <=> TakesOrder(s, price)
      /\ Takes(s, price, "index") <=> TakesIndex(s, price)
      /\ Takes(s, price, "level") <=> TakesLevel(s, price)
      /\ TakesIndex(s, price) => TakesOrder(s, price)
      /\ "order" \in Kinds /\ "index" \in Kinds /\ "level" \in Kinds
  BY Zenon DEF Takes, TakesIndex, Kinds
<1>4. TakesOrder(s, price) =>
        /\ bo \notin DOMAIN orders[s]
        /\ DOMAIN orders'[s] = DOMAIN orders[s] \cup {bo}
        /\ \A x \in DOMAIN orders[s] : orders'[s][x] = orders[s][x]
        /\ orders'[s][bo].entry = E /\ orders'[s][bo].price = price
  <2>1. TakesOrder(s, price) => bo \notin DOMAIN orders[s]
    BY <1>3, TakenCounts, HeldBy, Zenon
  <2> QED
    BY <1>1, <2>1 DEF OrdersWith, Put
<1>5. ~TakesOrder(s, price) => orders'[s] = orders[s]
  BY <1>1, Zenon DEF OrdersWith
<1>6. TakesLevel(s, price) =>
        /\ price \notin DOMAIN levels[s] /\ DOMAIN levels'[s] = DOMAIN levels[s] \cup {price}
        /\ \A x \in DOMAIN levels[s] : levels'[s][x] = levels[s][x]
        /\ levels'[s][price] = bl
  BY <1>1, Zenon DEF LevelsWith, Put, TakesLevel
<1>7. ~TakesLevel(s, price) => levels'[s] = levels[s]
  BY <1>1 DEF LevelsWith
<1>8. TakesIndex(s, price) => bi # Nowhere /\ bi \notin Held(s, "index")
  BY <1>3, TakenCounts, NowhereIsNone, ZenonT(30)
<1>9. TakesLevel(s, price) => bl \notin Held(s, "level")
  BY <1>3, TakenCounts, Zenon
<1> HIDE DEF bo, bi, bl
<1>10. Held(s, "order")' = IF TakesOrder(s, price) THEN Held(s, "order") \cup {bo}
                                                   ELSE Held(s, "order")
  <2>1. Held(s, "order")' = DOMAIN orders'[s] /\ Held(s, "order") = DOMAIN orders[s]
    BY DEF Held
  <2> QED
    BY <2>1, <1>4, <1>5
<1>11. Held(s, "index")' = IF TakesIndex(s, price) THEN Held(s, "index") \cup {bi}
                                                   ELSE Held(s, "index")
  <2>1. /\ Held(s, "index")' = {orders'[s][o].entry : o \in DOMAIN orders'[s]} \ {Nowhere}
        /\ Held(s, "index") = {orders[s][o].entry : o \in DOMAIN orders[s]} \ {Nowhere}
    BY DEF Held
  <2>2. CASE ~TakesOrder(s, price)
    <3>1. Held(s, "index")' = Held(s, "index")
      BY <1>5, <2>2 DEF Held
    <3> QED
      BY <1>3, <2>2, <3>1, Zenon
  <2>3. CASE TakesOrder(s, price)
    <3>1. {orders'[s][o].entry : o \in DOMAIN orders'[s]}
            = {orders[s][o].entry : o \in DOMAIN orders[s]} \cup {E}
      BY <1>4, <2>3
    <3> QED
      BY <1>8, <2>1, <3>1, Zenon
  <2> QED
    BY <2>2, <2>3
<1>12. Held(s, "level")' = IF TakesLevel(s, price) THEN Held(s, "level") \cup {bl}
                                                   ELSE Held(s, "level")
  <2>1. /\ Held(s, "level")' = {levels'[s][p] : p \in DOMAIN levels'[s]}
        /\ Held(s, "level") = {levels[s][p] : p \in DOMAIN levels[s]}
    BY DEF Held
  <2>2. CASE ~TakesLevel(s, price)
    <3>1. Held(s, "level")' = Held(s, "level")
      BY <1>7, <2>2 DEF Held
    <3> QED
      BY <2>2, <3>1
  <2>3. CASE TakesLevel(s, price)
    <3>1. {levels'[s][p] : p \in DOMAIN levels'[s]} = {levels[s][p] : p \in DOMAIN levels[s]} \cup {bl}
      BY <1>6, <2>3
    <3> QED
      BY <2>1, <2>3, <3>1, Zenon
  <2> QED
    BY <2>2, <2>3
<1>13. PoolOK(Pool("order", s)', Held(s, "order")')
  BY <1>3, <1>10, TakenCounts, Zenon DEF bo
<1>14. PoolOK(Pool("index", s)', Held(s, "index")')
  BY <1>3, <1>11, TakenCounts, Zenon DEF bi
<1>15. PoolOK(Pool("level", s)', Held(s, "level")')
  BY <1>3, <1>12, TakenCounts, Zenon DEF bl
<1>16. ASSUME NEW k \in Kinds PROVE PoolOK(Pool(k, s), Held(s, k))'
  <2>1. PoolOK(Pool(k, s)', Held(s, k)')
    BY <1>13, <1>14, <1>15, Zenon DEF Kinds
  <2> QED
    BY <2>1, Zenon DEF PoolOK
<1>17. \A a, b \in DOMAIN orders'[s] :
         orders'[s][a].entry = orders'[s][b].entry /\ orders'[s][a].entry # Nowhere => a = b
  <2>1. CASE ~TakesOrder(s, price)
    BY <1>2, <1>5, <2>1 DEF NodesDiffer
  <2>2. CASE TakesOrder(s, price)
    <3>1. \A a \in DOMAIN orders[s] : orders[s][a].entry = E => E = Nowhere
      BY <1>8, HeldBy
    <3> QED
      BY <1>2, <1>4, <2>2, <3>1, SMTT(20) DEF NodesDiffer
  <2> QED
    BY <2>1, <2>2, Zenon
<1>18. \A p, q \in DOMAIN levels'[s] : levels'[s][p] = levels'[s][q] => p = q
  <2>1. CASE ~TakesLevel(s, price)
    BY <1>2, <1>7, <2>1, Zenon DEF NodesDiffer
  <2>2. CASE TakesLevel(s, price)
    <3>1. \A p \in DOMAIN levels[s] : levels[s][p] # bl
      BY <1>9, <2>2, HeldBy
    <3> QED
      BY <1>2, <1>6, <2>2, <3>1 DEF NodesDiffer
  <2> QED
    BY <2>1, <2>2, Zenon
<1> QED
  BY <1>16, <1>17, <1>18, Zenon DEF NodesDiffer

\* A kind none of whose nodes was freed,
LEMMA KeptCounts ==
  ASSUME BlocksAtHome, BlocksCounted, NEW s \in Shards, NEW k \in Kinds,
         NEW P, NEW O, NEW L, ShardStep(s, P, O, L), P[k] = pools[k][s]
  PROVE  PoolOK(Pool(k, s)', Held(s, k))
<1>1. PoolOK(Pool(k, s), Held(s, k))
  BY Zenon DEF BlocksCounted
<1> QED
  BY <1>1, PoolAfter, Zenon

\* and one of which one was.
LEMMA FreedCounts ==
  ASSUME BlocksAtHome, BlocksCounted, NEW s \in Shards, NEW k \in Kinds,
         NEW P, NEW O, NEW L, ShardStep(s, P, O, L),
         NEW b \in Held(s, k), P[k] = Deallocated(Pool(k, s), b)
  PROVE  PoolOK(Pool(k, s)', Held(s, k) \ {b})
<1>1. PoolOK(Pool(k, s), Held(s, k)) /\ Pool(k, s) \in PoolsOf(s)
  BY PoolFacts, Zenon DEF BlocksCounted
<1>2. PoolOK(P[k], Held(s, k) \ {b}) /\ P[k].inUse \in Nat
  BY <1>1, DeallocateCounts
<1>3. Pool(k, s)' = P[k]
  BY <1>2, PoolAfter, Zenon
<1> QED
  BY <1>2, <1>3, Zenon

\* remove_resting_order() keeps count, and so does a book's destructor.
LEMMA RemoveCounts ==
  ASSUME BlocksAtHome, BlocksCounted, NEW t, NEW s \in Shards, index[t] = s,
         NEW o \in DOMAIN orders[s], RemoveNodes(t, s, o)
  PROVE  NodesDiffer(s)' /\ \A k \in Kinds : PoolOK(Pool(k, s), Held(s, k))'
<1> DEFINE P == PoolsWith(s, o)
           price == orders[s][o].price
           entry == orders[s][o].entry
<1>1. NodesAtHome(s) /\ NodesDiffer(s) /\ price \in DOMAIN levels[s]
  BY DEF BlocksAtHome, BlocksCounted, NodesAtHome
<1>2. ShardStep(s, P, Erase(orders[s], o), LevelsLess(s, o))
  BY RemoveEffect, Zenon
<1>3. /\ DOMAIN orders'[s] = DOMAIN orders[s] \ {o}
      /\ \A x \in DOMAIN orders'[s] : orders'[s][x] = orders[s][x]
  <2>1. orders'[s] = Erase(orders[s], o)
    BY <1>2, ShardStepHere, Zenon
  <2> QED
    BY <2>1 DEF Erase, Restrict
<1>4. /\ DOMAIN levels'[s] = IF LastAt(s, o) THEN DOMAIN levels[s] \ {price} ELSE DOMAIN levels[s]
      /\ \A x \in DOMAIN levels'[s] : levels'[s][x] = levels[s][x]
  <2>1. levels'[s] = LevelsLess(s, o)
    BY <1>2, ShardStepHere, Zenon
  <2> QED
    BY <2>1 DEF Erase, Restrict, LevelsLess
<1>5. /\ "order" \in Kinds /\ "index" \in Kinds /\ "level" \in Kinds
      /\ P["order"] = Deallocated(Pool("order", s), o)
      /\ entry # Nowhere => P["index"] = Deallocated(Pool("index", s), entry)
      /\ entry = Nowhere => P["index"] = pools["index"][s]
      /\ LastAt(s, o) => P["level"] = Deallocated(Pool("level", s), levels[s][price])
      /\ ~LastAt(s, o) => P["level"] = pools["level"][s]
  BY Zenon DEF PoolsWith, Kinds, Freed, NodeOf
<1> HIDE DEF P
<1>6. PoolOK(Pool("order", s)', Held(s, "order")')
  <2>1. o \in Held(s, "order") /\ Held(s, "order")' = Held(s, "order") \ {o}
    BY <1>3, Zenon DEF Held
  <2> QED
    <3>1. PoolOK(Pool("order", s)', Held(s, "order") \ {o})
      BY <1>2, <1>5, <2>1, FreedCounts, Zenon
    <3> QED
      BY <2>1, <3>1, Zenon
<1>7. PoolOK(Pool("index", s)', Held(s, "index")')
  <2>1. /\ Held(s, "index")' = {orders'[s][x].entry : x \in DOMAIN orders'[s]} \ {Nowhere}
        /\ Held(s, "index") = {orders[s][x].entry : x \in DOMAIN orders[s]} \ {Nowhere}
    BY DEF Held
  <2>2. {orders'[s][x].entry : x \in DOMAIN orders'[s]} = {orders[s][x].entry : x \in DOMAIN orders[s] \ {o}}
    BY <1>3
  <2>3. CASE entry # Nowhere
    <3>1. Held(s, "index")' = Held(s, "index") \ {entry} /\ entry \in Held(s, "index")
      BY <1>1, <2>1, <2>2, <2>3 DEF NodesDiffer
    <3> QED
      <4>1. PoolOK(Pool("index", s)', Held(s, "index") \ {entry})
        BY <1>2, <1>5, <2>3, <3>1, FreedCounts, Zenon
      <4> QED
        BY <3>1, <4>1, Zenon
  <2>4. CASE entry = Nowhere
    <3>1. Held(s, "index")' = Held(s, "index")
      <4>1. {orders[s][x].entry : x \in DOMAIN orders[s] \ {o}} \ {Nowhere}
              = {orders[s][x].entry : x \in DOMAIN orders[s]} \ {Nowhere}
        BY <2>4, Zenon
      <4> QED
        BY <2>1, <2>2, <4>1, Zenon
    <3> QED
      BY <1>2, <1>5, <2>4, <3>1, KeptCounts, Zenon
  <2> QED
    BY <2>3, <2>4, Zenon
<1>8. PoolOK(Pool("level", s)', Held(s, "level")')
  <2>1. /\ Held(s, "level")' = {levels'[s][x] : x \in DOMAIN levels'[s]}
        /\ Held(s, "level") = {levels[s][x] : x \in DOMAIN levels[s]}
    BY DEF Held
  <2>2. CASE LastAt(s, o)
    <3>1. Held(s, "level")' = Held(s, "level") \ {levels[s][price]} /\ levels[s][price] \in Held(s, "level")
      <4>1. \A p, q \in DOMAIN levels[s] : levels[s][p] = levels[s][q] => p = q
        BY <1>1, Zenon DEF NodesDiffer
      <4>2. DOMAIN levels'[s] = DOMAIN levels[s] \ {price}
        BY <1>4, <2>2, Zenon
      <4>3. ASSUME NEW b \in Held(s, "level")'
            PROVE  b \in Held(s, "level") \ {levels[s][price]}
        <5>1. PICK x \in DOMAIN levels'[s] : b = levels'[s][x]
          BY <2>1, <4>3, Zenon
        <5>2. x \in DOMAIN levels[s] /\ x # price /\ b = levels[s][x]
          BY <5>1, <4>2, <1>4, Zenon
        <5> QED
          BY <5>2, <4>1, <1>1, <2>1, Zenon
      <4>4. ASSUME NEW b \in Held(s, "level") \ {levels[s][price]}
            PROVE  b \in Held(s, "level")'
        <5>1. PICK x \in DOMAIN levels[s] : b = levels[s][x]
          BY <2>1, <4>4, Zenon
        <5>2. x \in DOMAIN levels'[s] /\ b = levels'[s][x]
          BY <5>1, <4>4, <4>2, <1>4, Zenon
        <5> QED
          BY <5>2, <2>1, Zenon
      <4>5. levels[s][price] \in Held(s, "level")
        BY <1>1, <2>1, Zenon
      <4> QED
        BY <4>3, <4>4, <4>5, Zenon
    <3> QED
      <4>1. PoolOK(Pool("level", s)', Held(s, "level") \ {levels[s][price]})
        BY <1>2, <1>5, <2>2, <3>1, FreedCounts, Zenon
      <4> QED
        BY <3>1, <4>1, Zenon
  <2>3. CASE ~LastAt(s, o)
    <3>1. Held(s, "level")' = Held(s, "level")
      <4>1. {levels'[s][x] : x \in DOMAIN levels'[s]} = {levels[s][x] : x \in DOMAIN levels[s]}
        BY <1>4, <2>3
      <4> QED
        BY <2>1, <4>1, Zenon
    <3> QED
      BY <1>2, <1>5, <2>3, <3>1, KeptCounts, Zenon
  <2> QED
    BY <2>2, <2>3
<1>9. ASSUME NEW k \in Kinds PROVE PoolOK(Pool(k, s), Held(s, k))'
  <2>1. PoolOK(Pool(k, s)', Held(s, k)')
    BY <1>6, <1>7, <1>8, Zenon DEF Kinds
  <2> QED
    BY <2>1, Zenon DEF PoolOK
<1>10. NodesDiffer(s)'
  BY <1>1, <1>3, <1>4 DEF NodesDiffer
<1> QED
  BY <1>9, <1>10, Zenon

\* And so does giving back the node of an empty level.
LEMMA EmptyLevelCounts ==
  ASSUME BlocksAtHome, BlocksCounted, NEW s \in Shards, s = next, index[Owner] = s,
         NEW p \in DOMAIN levels[s], DestroyEmptyLevel(p)
  PROVE  NodesDiffer(s)' /\ \A k \in Kinds : PoolOK(Pool(k, s), Held(s, k))'
<1> DEFINE P == PoolsWithLevel(s, p)
<1>1. NodesDiffer(s)
  BY Zenon DEF BlocksCounted
<1>2. ShardStep(s, P, orders[s], Erase(levels[s], p))
  BY EmptyLevelEffect, Zenon
<1>3. /\ orders'[s] = orders[s] /\ DOMAIN levels'[s] = DOMAIN levels[s] \ {p}
      /\ \A x \in DOMAIN levels'[s] : levels'[s][x] = levels[s][x]
  <2>1. orders'[s] = orders[s] /\ levels'[s] = Erase(levels[s], p)
    BY <1>2, ShardStepHere, Zenon
  <2> QED
    BY <2>1 DEF Erase, Restrict
<1>4. /\ "level" \in Kinds /\ P["level"] = Deallocated(Pool("level", s), levels[s][p])
      /\ \A k \in Kinds : k # "level" => P[k] = pools[k][s]
  BY DEF PoolsWithLevel, Kinds
<1> HIDE DEF P
<1>5. PoolOK(Pool("level", s)', Held(s, "level")')
  <2>1. /\ Held(s, "level")' = {levels'[s][x] : x \in DOMAIN levels'[s]}
        /\ Held(s, "level") = {levels[s][x] : x \in DOMAIN levels[s]}
    BY Zenon DEF Held
  <2>2. Held(s, "level")' = Held(s, "level") \ {levels[s][p]} /\ levels[s][p] \in Held(s, "level")
    BY <1>1, <1>3, <2>1 DEF NodesDiffer
  <2> QED
    <3>1. PoolOK(Pool("level", s)', Held(s, "level") \ {levels[s][p]})
      BY <1>2, <1>4, <2>2, FreedCounts, Zenon
    <3> QED
      BY <2>2, <3>1, Zenon
<1>6. ASSUME NEW k \in Kinds PROVE PoolOK(Pool(k, s), Held(s, k))'
  <2>1. CASE k = "level"
    BY <1>5, <2>1, Zenon DEF PoolOK
  <2>2. CASE k # "level"
    <3>1. Held(s, k)' = Held(s, k)
      BY <1>3, <2>2 DEF Held, Kinds
    <3>2. PoolOK(Pool(k, s)', Held(s, k)')
      BY <1>2, <1>4, <2>2, <3>1, KeptCounts, Zenon
    <3> QED
      BY <3>2 DEF PoolOK
  <2> QED
    BY <2>1, <2>2, Zenon
<1>7. NodesDiffer(s)'
  BY <1>1, <1>3, Zenon DEF NodesDiffer
<1> QED
  BY <1>6, <1>7, Zenon

\* BlocksCounted holds of a process that has allocated nothing,
LEMMA CountsInit == PoolInit => BlocksCounted
<1> SUFFICES ASSUME PoolInit, NEW s \in Shards, NEW k \in Kinds
             PROVE  NodesDiffer(s) /\ PoolOK(Pool(k, s), Held(s, k))
  BY DEF BlocksCounted, Kinds
<1>1. DOMAIN orders[s] = {} /\ DOMAIN levels[s] = {}
  BY DEF PoolInit
<1>2. Held(s, k) = {}
  BY <1>1, Zenon DEF Held, Kinds
<1>3. Pool(k, s) = NewPool(s)
  BY DEF PoolInit, Pool
<1> DEFINE f == [n \in 1 .. Capacity |-> <<s, n>>]
<1>4. NewPool(s).free = f /\ NewPool(s).inUse = 0
  BY DEF NewPool
<1>5. Len(f) = Capacity
  <2>1. f \in [1 .. Capacity -> Home(s)]
    BY DEF Home
  <2> HIDE DEF f
  <2> QED
    BY <2>1, LenProperties, SeqDef
<1>6. \A m, n \in 1 .. Capacity : f[m] = f[n] => m = n
  BY Zenon
<1>7. PoolOK(NewPool(s), {})
  <2> HIDE DEF f
  <2> QED
    BY <1>4, <1>5, <1>6, FS_EmptySet DEF PoolOK
<1> QED
  BY <1>1, <1>2, <1>3, <1>7, Zenon DEF NodesDiffer

\* and survives every step.
LEMMA CountsStep ==
  ASSUME PendingAtHome, PoolOwnership, BlocksCounted, [PoolNext]_poolVars
  PROVE  BlocksCounted'
<1>1. BlocksAtHome
  BY DEF PoolOwnership
<1>2. ASSUME NEW s \in Shards, BookStep(s) PROVE BlocksCounted'
  <2>1. CASE InsertStep(s)
    <3>1. PICK t \in Threads, price \in PriceSet : index[t] = s /\ InsertNodes(t, s, price)
      BY <2>1 DEF InsertStep
    <3>2. NodesDiffer(s)' /\ \A k \in Kinds : PoolOK(Pool(k, s), Held(s, k))'
      BY <1>1, <3>1, InsertCounts, Zenon
    <3> QED
      BY <1>1, <1>2, <3>2, CountsFollow, Zenon
  <2>2. CASE RemoveStep(s)
    <3>1. PICK t \in Threads, o \in DOMAIN orders[s] : index[t] = s /\ RemoveNodes(t, s, o)
      BY <2>2 DEF RemoveStep
    <3>2. NodesDiffer(s)' /\ \A k \in Kinds : PoolOK(Pool(k, s), Held(s, k))'
      BY <1>1, <3>1, RemoveCounts, Zenon
    <3> QED
      BY <1>1, <1>2, <3>2, CountsFollow, Zenon
  <2>3. CASE EmptyLevelStep(s)
    <3>1. PICK p \in DOMAIN levels[s] : DestroyEmptyLevel(p)
      BY <2>3, Zenon DEF EmptyLevelStep
    <3>2. s = next /\ index[Owner] = s
      BY <2>3, Zenon DEF EmptyLevelStep
    <3>3. NodesDiffer(s)' /\ \A k \in Kinds : PoolOK(Pool(k, s), Held(s, k))'
      BY <1>1, <3>1, <3>2, EmptyLevelCounts, Zenon
    <3> QED
      BY <1>1, <1>2, <3>3, CountsFollow, Zenon
  <2> QED
    BY <1>2, <2>1, <2>2, <2>3, Zenon DEF BookStep
<1>3. CASE OtherStep
  <2>1. UNCHANGED <<pools, orders, levels>>
    BY <1>3, Zenon DEF OtherStep
  <2>2. ASSUME NEW s \in Shards PROVE NodesDiffer(s)'
    BY <2>1, Zenon DEF BlocksCounted, NodesDiffer
  <2>3. ASSUME NEW s \in Shards, NEW k \in Kinds PROVE PoolOK(Pool(k, s), Held(s, k))'
    <3>1. Pool(k, s)' = Pool(k, s) /\ Held(s, k)' = Held(s, k)
      BY <2>1 DEF Pool, Held
    <3>2. PoolOK(Pool(k, s), Held(s, k))
      BY DEF BlocksCounted
    <3> QED
      BY <3>1, <3>2 DEF PoolOK
  <2> QED
    BY <2>2, <2>3, Zenon DEF BlocksCounted
<1> QED
  BY <1>2, <1>3, StepForms, Zenon

\* No block is lost or handed out twice, and a process that destroyed its
\* pipelines has every block back.
THEOREM NoBlockIsLost ==
  ASSUME PendingAtHome
  PROVE  PoolSpec => []BlocksAccounted
<1>1. PoolInit => PoolOwnership /\ BlocksCounted
  BY PoolInitEstablishes, CountsInit
<1>2. PoolOwnership /\ BlocksCounted /\ [PoolNext]_poolVars => (PoolOwnership /\ BlocksCounted)'
  BY PoolStepPreserves, CountsStep, Zenon
<1>3. PoolOwnership /\ BlocksCounted => BlocksAccounted
  <2> SUFFICES ASSUME PoolOwnership, BlocksCounted, NEW k \in Kinds, NEW s \in Shards,
                      pools[k][s] # NoPool
               PROVE  LET p == pools[k][s]
                          free == {p.free[n] : n \in 1 .. Len(p.free)}
                      IN  /\ Cardinality(free) = Len(p.free)
                          /\ p.inUse = Cardinality(Held(s, k)) /\ p.inUse + Len(p.free) = Capacity
                          /\ free \cap Held(s, k) = {}
                          /\ stage = "none" => p.inUse = 0
    BY Zenon DEF BlocksAccounted
  <2> DEFINE p == pools[k][s]
             free == {p.free[n] : n \in 1 .. Len(p.free)}
  <2>1. PoolOK(p, Held(s, k)) /\ p \in PoolsOf(s)
    BY DEF BlocksCounted, Pool, PoolOwnership, BlocksAtHome
  <2>2. Len(p.free) \in Nat
    BY <2>1 DEF PoolsOf
  <2> HIDE DEF p
  <2>3. Cardinality(free) = Len(p.free)
    <3> DEFINE f == [n \in 1 .. Len(p.free) |-> p.free[n]]
    <3>1. f \in Bijection(1 .. Len(p.free), free)
      BY <2>1 DEF PoolOK, Bijection, Injection, Surjection, IsInjective
    <3>2. IsFiniteSet(1 .. Len(p.free)) /\ Cardinality(1 .. Len(p.free)) = Len(p.free)
      <4> DEFINE n == Len(p.free)
      <4>1. n \in Nat /\ n \in Int /\ 1 \in Int /\ (1 > n <=> n = 0) /\ n - 1 + 1 = n
        BY <2>2
      <4> HIDE DEF n
      <4>2. IsFiniteSet(1 .. n) /\ Cardinality(1 .. n) = IF 1 > n THEN 0 ELSE n - 1 + 1
        BY <4>1, FS_Interval, Zenon
      <4> QED
        BY <4>1, <4>2, Zenon DEF n
    <3> QED
      <4> HIDE DEF f, free
      <4> QED
        BY <3>1, <3>2, FS_Bijection DEF ExistsBijection
  <2>4. free \cap Held(s, k) = {}
    BY <2>1, Zenon DEF PoolOK
  <2>5. ASSUME stage = "none" PROVE p.inUse = 0
    <3>1. Held(s, k) = {}
      BY <2>5, Zenon DEF PoolOwnership, BooksEmpty, NoNodes, Held, Kinds
    <3> QED
      BY <2>1, <3>1, FS_EmptySet, Zenon DEF PoolOK
  <2> QED
    BY <2>1, <2>3, <2>4, <2>5, Zenon DEF PoolOK, p
<1> QED
  BY <1>1, <1>2, <1>3, PTL DEF PoolSpec

-----------------------------------------------------------------------------
(***************************************************************************)
(* A shard that runs out is full.                                          *)
(***************************************************************************)

\* While decoders run every order has its index entry and every level an order.
Indexed(s) == \A o \in DOMAIN orders[s] : orders[s][o].entry # Nowhere
Whole(s) ==
  /\ Indexed(s)
  /\ \A p \in DOMAIN levels[s] : \E o \in DOMAIN orders[s] : orders[s][o].price = p
Full(s) == Cardinality(DOMAIN orders[s]) = Capacity /\ Indexed(s)

BooksWhole ==
  /\ stage \in {"none", "built", "running"} => failed = NoShard
  /\ stage = "running" => \A s \in Shards : Whole(s)
  /\ stage = "terminated" => failed \in Shards /\ Full(failed)

\* Of a whole book's nodes, none are more than its orders; allocate() fails when
\* Capacity nodes are held.
LEMMA WholeCounts ==
  ASSUME BlocksAtHome, BlocksCounted, NEW s \in Shards, Whole(s)
  PROVE  /\ \A k \in Kinds : /\ Cardinality(Held(s, k)) \in Nat
                             /\ Cardinality(Held(s, k)) <= Cardinality(Held(s, "order"))
                             /\ Cardinality(Held(s, k)) <= Capacity
                             /\ ~CanAllocate(Pool(k, s)) => Cardinality(Held(s, k)) = Capacity
                             /\ CanAllocate(Pool(k, s)) => Cardinality(Held(s, k)) # Capacity
<1>1. NodesAtHome(s) /\ IsFiniteSet(Held(s, "order"))
  BY DEF BlocksAtHome, BlocksCounted, PoolOK, Kinds
<1>2. Cardinality(Held(s, "index")) <= Cardinality(Held(s, "order"))
  <2> DEFINE f == [o \in Held(s, "order") |-> orders[s][o].entry]
  <2>1. f \in Surjection(Held(s, "order"), Held(s, "index"))
    BY DEF Surjection, Held, Whole, Indexed
  <2> HIDE DEF f
  <2> QED
    BY <1>1, <2>1, FS_Surjection, Zenon
<1>3. Cardinality(Held(s, "level")) <= Cardinality(Held(s, "order"))
  <2> DEFINE f == [o \in Held(s, "order") |-> levels[s][orders[s][o].price]]
  <2>1. f \in Surjection(Held(s, "order"), Held(s, "level"))
    BY <1>1 DEF Surjection, Held, Whole, NodesAtHome
  <2> HIDE DEF f
  <2> QED
    BY <1>1, <2>1, FS_Surjection, Zenon
<1>4. ASSUME NEW k \in Kinds
      PROVE  /\ Cardinality(Held(s, k)) \in Nat /\ Cardinality(Held(s, k)) <= Capacity
             /\ CanAllocate(Pool(k, s)) <=> Cardinality(Held(s, k)) # Capacity
  <2> DEFINE p == Pool(k, s)
             n == Cardinality(Held(s, k))
  <2>1. IsFiniteSet(Held(s, k)) /\ p.inUse = n /\ p.inUse + Len(p.free) = Capacity
    BY Zenon DEF BlocksCounted, PoolOK
  <2>2. p.free \in Seq(Home(s))
    BY PoolFacts, Zenon DEF PoolsOf
  <2> HIDE DEF p
  <2>3. Len(p.free) \in Nat /\ (p.free = <<>> <=> Len(p.free) = 0)
    BY <2>2, EmptySeq, LenProperties, Zenon
  <2>4. n \in Nat
    BY <2>1, FS_CardinalityType
  <2> HIDE DEF n
  <2>5. n <= Capacity /\ (p.free # <<>> <=> n # Capacity)
    BY <2>1, <2>3, <2>4
  <2> QED
    BY <2>4, <2>5, Zenon DEF CanAllocate, n, p
<1>5. ASSUME NEW k \in Kinds PROVE Cardinality(Held(s, k)) <= Cardinality(Held(s, "order"))
  <2>1. CASE k = "order"
    BY <1>4, <2>1
  <2> QED
    BY <1>2, <1>3, <2>1, Zenon DEF Kinds
<1> QED
  BY <1>4, <1>5, Zenon

\* insert_resting_order() fails in a whole book only if its shard is full, and
\* then takes no order.
LEMMA FailsOnlyFull ==
  ASSUME BlocksAtHome, BlocksCounted, NEW s \in Shards, Whole(s), NEW price,
         ~TakesIndex(s, price)
  PROVE  ~TakesOrder(s, price) /\ Full(s)
<1> DEFINE n(k) == Cardinality(Held(s, k))
<1>1. /\ \A k \in Kinds : n(k) \in Nat /\ n(k) <= n("order") /\ n(k) <= Capacity
                           /\ (CanAllocate(Pool(k, s)) <=> n(k) # Capacity)
      /\ "order" \in Kinds /\ "index" \in Kinds /\ "level" \in Kinds
  BY WholeCounts, Zenon DEF Kinds
<1>2. n("order") = Cardinality(DOMAIN orders[s])
  BY HeldBy, Zenon
<1> HIDE DEF n
<1>3. ~TakesOrder(s, price)
  BY <1>1 DEF TakesIndex, TakesOrder
<1>4. n("order") = Capacity
  BY <1>1, <1>3 DEF TakesOrder, TakesLevel
<1> QED
  BY <1>2, <1>3, <1>4, Zenon DEF Full, Whole

\* A decoder's steps keep its shard's books whole, or end the process.
LEMMA WholeAfterInsert ==
  ASSUME BlocksAtHome, BlocksCounted, NEW t, NEW s \in Shards, index[t] = s,
         NEW price \in PriceSet, InsertNodes(t, s, price), Whole(s)
  PROVE  /\ TakesIndex(s, price) => Whole(s)' /\ failed' = failed
         /\ ~TakesIndex(s, price) => Full(s)' /\ failed' = s
<1>0. /\ ShardStep(s, PoolsWithout(s, price), OrdersWith(s, price), LevelsWith(s, price))
      /\ failed' = IF TakesIndex(s, price) THEN failed ELSE s
  BY InsertEffect, Zenon
<1>1. levels'[s] = LevelsWith(s, price) /\ orders'[s] = OrdersWith(s, price)
  BY <1>0, ShardStepHere, Zenon
<1>2. failed' = IF TakesIndex(s, price) THEN failed ELSE s
  BY <1>0, Zenon
<1>3. ASSUME TakesIndex(s, price) PROVE Whole(s)'
  <2>1. Block("index", s) # Nowhere
    <3>1. Takes(s, price, "index") /\ "index" \in Kinds
      BY <1>3 DEF Takes, Kinds
    <3> QED
      BY <3>1, TakenBlocks, NowhereIsNone, Zenon
  <2>2. Block("order", s) \notin DOMAIN orders[s]
    <3>1. Takes(s, price, "order") /\ "order" \in Kinds
      BY <1>3, Zenon DEF Takes, TakesIndex, Kinds
    <3> QED
      BY <3>1, TakenCounts, HeldBy, Zenon
  <2> DEFINE new == [price |-> price, entry |-> Block("index", s)]
  <2>3. /\ DOMAIN orders'[s] = DOMAIN orders[s] \cup {Block("order", s)}
        /\ orders'[s][Block("order", s)].price = price
        /\ orders'[s][Block("order", s)].entry = Block("index", s)
        /\ \A o \in DOMAIN orders[s] : orders'[s][o] = orders[s][o]
    <3>1. orders'[s] = Put(orders[s], Block("order", s), new)
      BY <1>1, <1>3, Zenon DEF OrdersWith, TakesIndex
    <3>2. /\ DOMAIN orders'[s] = DOMAIN orders[s] \cup {Block("order", s)}
          /\ orders'[s][Block("order", s)] = new
          /\ \A o \in DOMAIN orders[s] : orders'[s][o] = orders[s][o]
      BY <3>1, <2>2, Zenon DEF Put
    <3> QED
      BY <3>2
  <2>4. DOMAIN levels'[s] \subseteq DOMAIN levels[s] \cup {price}
    BY <1>1 DEF LevelsWith, Put
  <2> QED
    BY <2>1, <2>3, <2>4 DEF Whole, Indexed
<1>4. ASSUME ~TakesIndex(s, price) PROVE Full(s)'
  <2>1. ~TakesOrder(s, price) /\ Full(s)
    BY <1>4, FailsOnlyFull
  <2>2. orders'[s] = orders[s]
    BY <1>1, <2>1, Zenon DEF OrdersWith
  <2> QED
    BY <2>1, <2>2 DEF Full, Indexed
<1> QED
  BY <1>2, <1>3, <1>4

\* An order that leaves takes its level along if it was its last.
LEMMA WholeAfterRemove ==
  ASSUME BlocksAtHome, NEW t, NEW s \in Shards, index[t] = s,
         NEW o \in DOMAIN orders[s], RemoveNodes(t, s, o), Whole(s)
  PROVE  Whole(s)'
<1>1. ShardStep(s, PoolsWith(s, o), Erase(orders[s], o), LevelsLess(s, o))
  BY RemoveEffect, Zenon
<1>2. orders'[s] = Erase(orders[s], o) /\ levels'[s] = LevelsLess(s, o)
  BY <1>1, ShardStepHere, Zenon
<1>3. /\ DOMAIN orders'[s] = DOMAIN orders[s] \ {o}
      /\ \A x \in DOMAIN orders'[s] : orders'[s][x] = orders[s][x]
  BY <1>2, Zenon DEF Erase, Restrict
<1>4. \A p \in DOMAIN levels'[s] :
        p \in DOMAIN levels[s] /\ (LastAt(s, o) => p # orders[s][o].price)
  BY <1>2 DEF LevelsLess, Erase, Restrict
<1>5. ASSUME NEW p \in DOMAIN levels'[s]
      PROVE  \E x \in DOMAIN orders[s] : x # o /\ orders[s][x].price = p
  <2>1. PICK x \in DOMAIN orders[s] : orders[s][x].price = p
    BY <1>4, Zenon DEF Whole
  <2>2. CASE x = o
    BY <1>4, <2>1, <2>2, Zenon DEF LastAt
  <2> QED
    BY <2>1, <2>2, Zenon
<1> QED
  BY <1>3, <1>5 DEF Whole, Indexed

\* BooksWhole survives every step.
LEMMA WholeStep ==
  ASSUME PendingAtHome, PoolOwnership, BlocksCounted, BooksWhole, [PoolNext]_poolVars
  PROVE  BooksWhole'
<1>1. BlocksAtHome
  BY Zenon DEF PoolOwnership
<1>2. ASSUME NEW s \in Shards, BookStep(s) PROVE BooksWhole'
  <2>1. \A x \in Shards : x # s /\ Whole(x) => Whole(x)'
    BY <1>1, <1>2, BookStepOthers, Zenon DEF Whole, Indexed
  <2>2. CASE InsertStep(s) /\ stage = "running"
    <3>1. PICK t \in Threads, price \in PriceSet : index[t] = s /\ InsertNodes(t, s, price)
      BY <2>2 DEF InsertStep
    <3>2. Whole(s) /\ failed = NoShard /\ s # NoShard
      BY <2>2 DEF BooksWhole, NoShard, Shards
    <3>3. \/ Whole(s)' /\ failed' = NoShard
          \/ Full(s)' /\ failed' = s
      BY <1>1, <3>1, <3>2, WholeAfterInsert, Zenon
    <3>4. stage' = IF failed' = NoShard THEN "running" ELSE "terminated"
      BY <2>2, Zenon DEF InsertStep
    <3>5. CASE Whole(s)' /\ failed' = NoShard
      BY <2>1, <2>2, <3>4, <3>5, Zenon DEF BooksWhole
    <3>6. CASE Full(s)' /\ failed' = s
      <4>1. Full(failed)'
        BY <3>6, Zenon DEF Full, Indexed
      <4> QED
        BY <3>2, <3>4, <3>6, <4>1, Zenon DEF BooksWhole
    <3> QED
      BY <3>3, <3>5, <3>6, Zenon
  <2>3. CASE InsertStep(s) /\ stage = "solo"
    <3>1. stage' \in {"solo", "joined"}
      BY <2>3, Zenon DEF InsertStep
    <3> QED
      BY <3>1, Zenon DEF BooksWhole
  <2>4. CASE RemoveStep(s)
    <3>1. PICK t \in Threads, o \in DOMAIN orders[s] : index[t] = s /\ RemoveNodes(t, s, o)
      BY <2>4 DEF RemoveStep
    <3>2. Whole(s) => Whole(s)'
      BY <1>1, <3>1, WholeAfterRemove, Zenon
    <3>3. UNCHANGED <<failed, stage>> /\ stage # "terminated"
      BY <1>2, <2>4, Zenon DEF RemoveStep, BookStep
    <3> QED
      BY <2>1, <3>2, <3>3, Zenon DEF BooksWhole
  <2>5. CASE EmptyLevelStep(s)
    <3>1. UNCHANGED <<failed, stage>> /\ stage = "destroying"
      BY <2>5, Zenon DEF EmptyLevelStep, DestroyEmptyLevel
    <3> QED
      BY <3>1, Zenon DEF BooksWhole
  <2> QED
    BY <1>2, <2>2, <2>3, <2>4, <2>5, Zenon DEF BookStep, InsertStep
<1>3. CASE OtherStep
  <2>1. \A x \in Shards : (Whole(x) => Whole(x)') /\ (NoNodes(x) => Whole(x)') /\ (Full(x) => Full(x)')
    BY <1>3, Zenon DEF OtherStep, Whole, Indexed, NoNodes, Full
  <2>2. CASE stage' = stage /\ failed' = failed
    <3>1. stage = "terminated" => Full(failed)'
      BY <1>3, <2>2, Zenon DEF OtherStep, BooksWhole, Full, Indexed
    <3> QED
      BY <2>1, <2>2, <3>1, Zenon DEF BooksWhole
  <2>3. CASE StartDecoders
    <3>1. \A x \in Shards : NoNodes(x)
      BY <2>3, Zenon DEF StartDecoders, PoolOwnership, BooksEmpty
    <3> QED
      BY <2>1, <2>3, <3>1, Zenon DEF StartDecoders, BooksWhole
  <2>4. CASE Construct \/ JoinDecoders \/ DestroyBegin \/ DestroyNext
    <3>1. \/ stage' = stage /\ failed' = failed
          \/ stage' \in {"built", "solo"} /\ failed' = failed /\ stage = "none"
          \/ stage' \in {"joined", "destroying"}
          \/ stage' = "none" /\ failed' = NoShard
      BY <2>4, Zenon DEF Construct, JoinDecoders, DestroyBegin, DestroyNext
    <3> QED
      BY <2>2, <3>1, Zenon DEF BooksWhole
  <2>5. CASE (\E i \in Shards : SetShardIndex(i) \/ DecoderExit(i)) \/ UNCHANGED poolVars
    <3>1. stage' = stage /\ failed' = failed
      BY <2>5 DEF SetShardIndex, DecoderExit, poolVars
    <3> QED
      BY <2>2, <3>1, Zenon
  <2> QED
    BY <1>3, <2>3, <2>4, <2>5, Zenon DEF OtherStep
<1> QED
  BY <1>2, <1>3, StepForms, Zenon

\* A decoder thread meets std::bad_alloc only with Capacity orders resting in its
\* shard, whatever came before: the pools of levels and of index entries never
\* run out first.
THEOREM OutOfMemoryOnlyWhenFull ==
  ASSUME PendingAtHome
  PROVE  PoolSpec => []BadAllocMeansFull
<1>1. PoolInit => PoolOwnership /\ BlocksCounted /\ BooksWhole
  BY PoolInitEstablishes, CountsInit, Zenon DEF PoolInit, BooksWhole
<1>2. PoolOwnership /\ BlocksCounted /\ BooksWhole /\ [PoolNext]_poolVars
        => (PoolOwnership /\ BlocksCounted /\ BooksWhole)'
  BY PoolStepPreserves, CountsStep, WholeStep, Zenon
<1>3. BooksWhole => BadAllocMeansFull
  BY DEF BooksWhole, BadAllocMeansFull, Full, Indexed
<1> QED
  BY <1>1, <1>2, <1>3, PTL DEF PoolSpec
=============================================================================
